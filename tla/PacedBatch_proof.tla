-------------------------- MODULE PacedBatch_proof --------------------------
(***************************************************************************)
(* Proofs about the three paced batch runners for every number of          *)
(* packages, bucket size, interval, lateness and horizon.                  *)
(***************************************************************************)
EXTENDS PacedBatch, TLAPS

\* Where the batch loop of LowPress is in its list of packages.
BatchLoop ==
  mode = "LowPress" =>
    /\ loop.count <= capacity
    /\ loop.at \in {"batch", "delay", "whenall", "over"}
    /\ loop.at = "over" <=> outcome # "none"
    /\ loop.at = "batch" => begun = total - left /\ loop.count <= left
    /\ loop.at = "delay" => begun = total - left + loop.count /\ loop.count <= left
    /\ loop.at = "whenall" => begun = total

\* Where the ramp and the refill of the semaphore bucket are.
RefillLoop ==
  /\ rampUp.at = "delay" => mode = "LimitRatePress" /\ rampUp.i < capacity
  /\ loop.at = "release" => mode = "LimitRatePress"
  /\ mode = "LimitRatePress" => loop.count \in 0..capacity
  /\ mode = "ExtLimitRatePress" => loop.at = "over"
  /\ released <= ended
  /\ outcome = "disposing" => mode = "LimitRatePress"

\* The permits a refill is about to release.
Pending == IF loop.at = "release" THEN loop.count ELSE 0

\* k refills have been taken: what has begun, and may begin at once, fits
\* what the ramp and they released.
LimitPace(k) ==
  /\ next = Start + Interval * k
  /\ next < now + Interval
  /\ begun + (IF outcome = "none" THEN tokens + Pending ELSE 0) <= rampUp.i + Fill * k
  /\ Start + Interval * rampUp.i <= now
  /\ rampUp.at = "delay" => rampUp.timer >= Start + Interval * rampUp.i + Interval

\* k refills have been taken after the one that came at once.
ExternalPace(k) ==
  /\ begun + tokens <= capacity + Fill * k
  /\ Start + Interval * k < next + Interval
  /\ next <= now + Interval

\* No task has tried yet: the refill strategy still holds its initial time.
Untouched == next = -1 /\ begun = 0 /\ tokens = 0

\* k delays of the batch loop are over.
BatchPace(k) ==
  /\ begun <= (IF loop.at = "batch" THEN 0 ELSE capacity) + capacity * k
  /\ Start + Interval * k <= now
  /\ loop.at = "delay" => loop.timer >= Start + Interval * k + Interval

Pace ==
  now < Horizon =>
    /\ mode = "LimitRatePress" => \E k \in Nat : LimitPace(k)
    /\ mode = "ExtLimitRatePress" => Untouched \/ \E k \in Nat : ExternalPace(k)
    /\ mode = "LowPress" => \E k \in Nat : BatchPace(k)

\* Either no task has tried yet, or the bucket has been full.
Burst ==
  mode = "ExtLimitRatePress" => Untouched \/ (begun > 0 /\ begun + tokens >= capacity)

\* The inductive invariant; the third theorem needs Pace and Burst as well.
IInv == PacedTypeOK /\ BatchLoop /\ RefillLoop /\ EndsAfterItems


-----------------------------------------------------------------------------
\* What \div is, in the form the backends can use.
LEMMA Quotient ==
  ASSUME NEW a \in Int, NEW b \in Nat \ {0}
  PROVE  /\ a \div b \in Int
         /\ b * (a \div b) <= a
         /\ a < b * (a \div b) + b
  OBVIOUS

\* A product by a positive factor keeps the order.
LEMMA Scale ==
  ASSUME NEW b \in Nat \ {0}, NEW x \in Int, NEW y \in Int, b * x < b * y
  PROVE  x < y
<1> SUFFICES ASSUME y <= x PROVE FALSE
  OBVIOUS
<1>1. PICK d \in Nat : x = y + d
  <2>1. x - y \in Nat /\ x = y + (x - y)
    OBVIOUS
  <2>2. QED
    BY <2>1
<1>2. b * x = b * y + b * d
  BY <1>1
<1>3. b * d \in Nat
  OBVIOUS
<1>4. QED
  BY <1>2, <1>3

\* A product by a natural number does not shrink when the other factor grows.
LEMMA Monotone ==
  ASSUME NEW b \in Nat, NEW x \in Nat, NEW y \in Nat, x <= y
  PROVE  b * x <= b * y
<1>1. PICK d \in Nat : y = x + d
  <2>1. y - x \in Nat /\ y = x + (y - x)
    OBVIOUS
  <2>2. QED
    BY <2>1
<1>2. b * y = b * x + b * d /\ b * x \in Nat /\ b * d \in Nat
  BY <1>1
<1>3. QED
  BY <1>2

\* The constants and the two quantities derived from them.
LEMMA Parameters ==
  ASSUME capacity \in Concurrent, total \in Totals
  PROVE  /\ capacity \in Nat /\ capacity > 0
         /\ total \in Nat
         /\ Interval \in Nat /\ Interval > 0
         /\ Start \in Nat /\ Horizon \in Nat /\ Start < Horizon
         /\ Fill \in Nat /\ Fill > 0
<1>1. /\ capacity \in Nat /\ capacity > 0
      /\ total \in Nat
      /\ Interval \in Nat /\ Interval > 0
      /\ Start \in Nat /\ Horizon \in Nat /\ Start < Horizon
      /\ Factor \in Nat \ {0}
  BY PacedAssumption
<1>2. CASE capacity > Factor
  <2>1. /\ capacity \div Factor \in Int
        /\ capacity < Factor * (capacity \div Factor) + Factor
    BY <1>1, Quotient
  <2>2. Factor * 0 < Factor * (capacity \div Factor)
    BY <1>1, <1>2, <2>1
  <2>3. 0 < capacity \div Factor
    BY <1>1, <2>1, <2>2, Scale
  <2>4. QED
    BY <1>1, <1>2, <2>1, <2>3 DEF Fill
<1>3. CASE ~(capacity > Factor)
  BY <1>1, <1>3 DEF Fill
<1>4. QED
  BY <1>2, <1>3

\* A refill takes at least one interval, and no more than have passed.
LEMMA Refilled ==
  ASSUME now \in Int, next \in Int
  PROVE  /\ RefillAmount \in Nat /\ RefillAmount > 0
         /\ RefillTime(RefillAmount) \in Int
         /\ now < RefillTime(RefillAmount) + Interval
         /\ RefillTime(RefillAmount) <= Most(now, next + Interval)
<1> DEFINE q == (now - next) \div Interval
<1>0. Interval \in Nat \ {0}
  BY PacedAssumption
<1>1. q \in Int /\ Interval * q <= now - next /\ now - next < Interval * q + Interval
  BY <1>0, Quotient
<1> HIDE DEF q
<1>2. CASE q > 1
  BY <1>0, <1>1, <1>2 DEF RefillAmount, RefillTime, Most, q
<1>3. CASE ~(q > 1)
  <2>1. RefillAmount = 1
    BY <1>1, <1>3 DEF RefillAmount, Most, q
  <2>2. Interval * q <= Interval
    <3>1. ~(Interval * 1 < Interval * q)
      BY <1>0, <1>1, <1>3, Scale
    <3>2. QED
      BY <1>0, <1>1, <3>1
  <2>3. QED
    BY <1>0, <1>1, <2>1, <2>2 DEF RefillTime, Most
<1>4. QED
  BY <1>2, <1>3

-----------------------------------------------------------------------------
\* The types of the variables and of the two records' fields, as inequalities.
Ranges ==
  /\ mode \in {"LowPress", "LimitRatePress", "ExtLimitRatePress"}
  /\ outcome \in {"none", "disposing", "returned", "gaveUp", "failed"}
  /\ total \in Totals /\ total \in Nat
  /\ capacity \in Concurrent /\ capacity \in Nat /\ capacity > 0
  /\ begun \in Nat /\ begun <= total
  /\ ended \in Nat /\ ended <= begun
  /\ now \in Nat /\ Start <= now /\ now <= Horizon
  /\ tokens \in Nat /\ tokens <= capacity
  /\ next \in Int
  /\ released \in Nat /\ released <= total
  /\ left \in Nat /\ left <= total
  /\ holding \in Nat /\ holding <= capacity
  /\ rampUp = [at |-> rampUp.at, i |-> rampUp.i, timer |-> rampUp.timer]
  /\ rampUp.at \in {"delay", "over"}
  /\ rampUp.i \in Nat /\ rampUp.i <= capacity
  /\ rampUp.timer \in Int
  /\ loop = [at |-> loop.at, timer |-> loop.timer, count |-> loop.count]
  /\ loop.at \in {"delay", "release", "batch", "whenall", "over"}
  /\ loop.timer \in Int
  /\ loop.count \in Nat /\ (loop.count <= capacity \/ loop.count <= total)

LEMMA Typing == PacedTypeOK <=> Ranges
<1>1. ASSUME PacedTypeOK PROVE Ranges
  <2>1. /\ capacity \in Concurrent /\ total \in Totals
        /\ capacity \in Nat /\ capacity > 0 /\ total \in Nat
        /\ Start \in Nat /\ Horizon \in Nat /\ Start < Horizon
    BY <1>1, Parameters DEF PacedTypeOK
  <2>2. /\ rampUp = [at |-> rampUp.at, i |-> rampUp.i, timer |-> rampUp.timer]
        /\ rampUp.at \in {"delay", "over"}
        /\ rampUp.i \in 0..capacity
        /\ rampUp.timer \in Int
    BY <1>1 DEF PacedTypeOK
  <2>3. /\ loop = [at |-> loop.at, timer |-> loop.timer, count |-> loop.count]
        /\ loop.at \in {"delay", "release", "batch", "whenall", "over"}
        /\ loop.timer \in Int
        /\ loop.count \in 0..Most(capacity, total)
    BY <1>1 DEF PacedTypeOK
  <2>4. begun \in 0..total /\ ended \in 0..begun
    BY <1>1 DEF PacedTypeOK
  <2>5. loop.count \in Nat /\ (loop.count <= capacity \/ loop.count <= total)
    BY <2>1, <2>3 DEF Most
  <2>6. QED
    BY <1>1, <2>1, <2>2, <2>3, <2>4, <2>5 DEF PacedTypeOK, Ranges
<1>2. ASSUME Ranges PROVE PacedTypeOK
  <2>1. /\ capacity \in Nat /\ total \in Nat /\ Start \in Nat /\ Horizon \in Nat
    BY <1>2, PacedAssumption DEF Ranges
  <2>2. rampUp \in [at : {"delay", "over"}, i : 0..capacity, timer : Int]
    BY <1>2, <2>1 DEF Ranges
  <2>3. loop.count \in 0..Most(capacity, total)
    BY <1>2, <2>1 DEF Ranges, Most
  <2>4. loop \in [at : {"delay", "release", "batch", "whenall", "over"}, timer : Int,
                  count : 0..Most(capacity, total)]
    BY <1>2, <2>3 DEF Ranges
  <2>5. QED
    BY <1>2, <2>1, <2>2, <2>4 DEF Ranges, PacedTypeOK
<1>3. QED
  BY <1>1, <1>2

LEMMA InitInvariant == PacedInit => IInv
<1> SUFFICES ASSUME PacedInit PROVE IInv
  OBVIOUS
<1>1. capacity \in Concurrent /\ total \in Totals
  BY DEF PacedInit
<1>1a. rampUp \in [at : {"delay", "over"}, i : 0..capacity, timer : Int]
  BY <1>1, Parameters DEF PacedInit
<1>2. PacedTypeOK
  BY <1>1, <1>1a, Parameters DEF PacedInit, PacedTypeOK, Least, Most
<1>3. BatchLoop /\ RefillLoop /\ EndsAfterItems
  BY <1>1, Parameters DEF PacedInit, BatchLoop, RefillLoop, EndsAfterItems, Least
<1>4. QED
  BY <1>2, <1>3 DEF IInv

LEMMA StepInvariant == IInv /\ [PacedNext]_pacedVars => IInv'
<1> SUFFICES ASSUME IInv, [PacedNext]_pacedVars
             PROVE  (Ranges /\ BatchLoop /\ RefillLoop /\ EndsAfterItems)'
  <2>1. Ranges' => PacedTypeOK'
    BY Typing, PTL
  <2>2. QED
    BY <2>1 DEF IInv
<1>0. Ranges /\ BatchLoop /\ RefillLoop /\ EndsAfterItems
  BY Typing DEF IInv
<1>1. /\ Interval \in Nat /\ Interval > 0
      /\ Start \in Nat /\ Horizon \in Nat /\ Start < Horizon
      /\ Fill \in Nat /\ Fill > 0
  BY <1>0, Parameters DEF Ranges
<1> USE DEF given, Least, Most
<1>2. CASE EndOne
  <2>1. Ranges'
    BY <1>0, <1>1, <1>2 DEF EndOne, Ranges, BatchLoop, RefillLoop
  <2>2. BatchLoop'
    BY <1>0, <1>1, <1>2 DEF EndOne, Ranges, BatchLoop
  <2>3. RefillLoop'
    BY <1>0, <1>1, <1>2 DEF EndOne, Ranges, RefillLoop
  <2>4. EndsAfterItems'
    BY <1>0, <1>1, <1>2 DEF EndOne, Ranges, EndsAfterItems, BatchLoop, RefillLoop
  <2>5. QED
    BY <2>1, <2>2, <2>3, <2>4
<1>3. CASE StartBatch
  <2>1. /\ mode = "LowPress" /\ outcome = "none" /\ loop.at = "batch"
        /\ begun' = begun + loop.count /\ begun + loop.count <= total
        /\ begun = total - left /\ loop.count <= left /\ loop.count <= capacity
        /\ loop' = [loop EXCEPT !.at = "delay", !.timer = now + Interval]
        /\ outcome' = "none"
    BY <1>0, <1>3 DEF StartBatch, Ranges, BatchLoop
  <2>2. /\ loop' = [at |-> loop'.at, timer |-> loop'.timer, count |-> loop'.count]
        /\ loop'.at = "delay" /\ loop'.timer = now + Interval
        /\ loop'.count = loop.count
    BY <1>0, <2>1 DEF Ranges
  <2>3. UNCHANGED <<mode, total, capacity, ended, now, tokens, next, released,
                    rampUp, left, holding>>
    BY <1>3 DEF StartBatch
  <2>4. Ranges'
    BY <1>0, <1>1, <2>1, <2>2, <2>3 DEF Ranges
  <2>5. BatchLoop' /\ RefillLoop' /\ EndsAfterItems'
    BY <1>0, <2>1, <2>2, <2>3 DEF Ranges, BatchLoop, RefillLoop, EndsAfterItems
  <2>6. QED
    BY <2>4, <2>5
<1>4. CASE DelayEnds
  <2>1. /\ mode = "LowPress" /\ outcome = "none" /\ loop.at = "delay"
        /\ begun = total - left + loop.count /\ loop.count <= left
        /\ loop.count <= capacity
        /\ left' = left - loop.count
    BY <1>0, <1>4 DEF DelayEnds, BatchLoop
  <2>2. left' \in Nat /\ left' <= total
    BY <1>0, <2>1 DEF Ranges
  <2>3. /\ loop' = [at |-> IF left' > 0 THEN "batch" ELSE "whenall",
                    timer |-> loop.timer, count |-> Least(loop.count, left')]
        /\ loop'.at = (IF left' > 0 THEN "batch" ELSE "whenall")
        /\ loop'.timer = loop.timer /\ loop'.count = Least(loop.count, left')
    BY <1>0, <1>4 DEF DelayEnds, NextBatch, Ranges
  <2>4. UNCHANGED <<mode, total, capacity, begun, ended, outcome, now, tokens,
                    next, released, rampUp, holding>>
    BY <1>4 DEF DelayEnds
  <2>5. Ranges'
    BY <1>0, <1>1, <2>1, <2>2, <2>3, <2>4 DEF Ranges
  <2>6. BatchLoop' /\ RefillLoop' /\ EndsAfterItems'
    BY <1>0, <2>1, <2>2, <2>3, <2>4
       DEF Ranges, BatchLoop, RefillLoop, EndsAfterItems
  <2>7. QED
    BY <2>5, <2>6
<1>5. CASE LowPressReturns
  <2>1. Ranges'
    BY <1>0, <1>1, <1>5 DEF LowPressReturns, Ranges, BatchLoop, RefillLoop
  <2>2. BatchLoop'
    BY <1>0, <1>1, <1>5 DEF LowPressReturns, Ranges, BatchLoop
  <2>3. RefillLoop'
    BY <1>0, <1>1, <1>5 DEF LowPressReturns, Ranges, RefillLoop
  <2>4. EndsAfterItems'
    BY <1>0, <1>1, <1>5 DEF LowPressReturns, Ranges, EndsAfterItems, BatchLoop, RefillLoop
  <2>5. QED
    BY <2>1, <2>2, <2>3, <2>4
<1>6. CASE BeginOne
  <2>1. Ranges'
    BY <1>0, <1>1, <1>6 DEF BeginOne, Ranges, BatchLoop, RefillLoop
  <2>2. BatchLoop'
    BY <1>0, <1>1, <1>6 DEF BeginOne, Ranges, BatchLoop
  <2>3. RefillLoop'
    BY <1>0, <1>1, <1>6 DEF BeginOne, Ranges, RefillLoop
  <2>4. EndsAfterItems'
    BY <1>0, <1>1, <1>6 DEF BeginOne, Ranges, EndsAfterItems, BatchLoop, RefillLoop
  <2>5. QED
    BY <2>1, <2>2, <2>3, <2>4
<1>7. CASE RampReleases
  <2>1. Ranges'
    BY <1>0, <1>1, <1>7 DEF RampReleases, Refused, Disposed, Ranges, BatchLoop, RefillLoop
  <2>2. BatchLoop'
    BY <1>0, <1>1, <1>7 DEF RampReleases, Refused, Disposed, Ranges, BatchLoop
  <2>3. RefillLoop'
    BY <1>0, <1>1, <1>7 DEF RampReleases, Refused, Disposed, Ranges, RefillLoop
  <2>4. EndsAfterItems'
    BY <1>0, <1>1, <1>7 DEF RampReleases, Refused, Disposed, Ranges, EndsAfterItems, BatchLoop, RefillLoop
  <2>5. QED
    BY <2>1, <2>2, <2>3, <2>4
<1>8. CASE RefillReads
  <2> DEFINE c == Least(Candidate(capacity - tokens), Fill * RefillAmount)
  <2>1. /\ RefillAmount \in Nat /\ RefillTime(RefillAmount) \in Int
    BY <1>0, Refilled DEF Ranges
  <2>2. c \in 0..capacity
    <3>1. Fill * RefillAmount \in Nat
      BY <1>1, <2>1
    <3>2. Candidate(capacity - tokens) \in 0..capacity
      BY <1>0 DEF Candidate, Ranges
    <3>3. QED
      BY <1>0, <3>1, <3>2 DEF Ranges
  <2>3. /\ mode = "LimitRatePress" /\ loop.at = "delay"
        /\ next' \in Int
        /\ \/ loop' = [loop EXCEPT !.at = "over"]
           \/ loop' = [loop EXCEPT !.at = "release", !.count = c]
           \/ loop' = [loop EXCEPT !.timer = now + Interval]
    BY <1>0, <1>8, <2>1 DEF RefillReads, Ranges
  <2> HIDE DEF c
  <2>4. /\ loop' = [at |-> loop'.at, timer |-> loop'.timer, count |-> loop'.count]
        /\ loop'.at \in {"over", "release", "delay"}
        /\ loop'.timer \in Int /\ loop'.count \in 0..capacity
    <3>1. CASE loop' = [loop EXCEPT !.at = "over"]
      BY <1>0, <2>3, <3>1 DEF Ranges, RefillLoop
    <3>2. CASE loop' = [loop EXCEPT !.at = "release", !.count = c]
      BY <1>0, <2>2, <3>2 DEF Ranges
    <3>3. CASE loop' = [loop EXCEPT !.timer = now + Interval]
      BY <1>0, <1>1, <2>3, <3>3 DEF Ranges, RefillLoop
    <3>4. QED
      BY <2>3, <3>1, <3>2, <3>3
  <2>5. UNCHANGED <<mode, total, capacity, begun, ended, outcome, now, tokens,
                    released, rampUp, left, holding>>
    BY <1>8 DEF RefillReads
  <2>6. Ranges'
    BY <1>0, <2>3, <2>4, <2>5 DEF Ranges
  <2>7. BatchLoop' /\ RefillLoop' /\ EndsAfterItems'
    BY <1>0, <2>3, <2>4, <2>5 DEF Ranges, BatchLoop, RefillLoop, EndsAfterItems
  <2>8. QED
    BY <2>6, <2>7
<1>9. CASE RefillReleases
  <2>1. Ranges'
    BY <1>0, <1>1, <1>9 DEF RefillReleases, Refused, Disposed, Ranges, BatchLoop, RefillLoop
  <2>2. BatchLoop'
    BY <1>0, <1>1, <1>9 DEF RefillReleases, Refused, Disposed, Ranges, BatchLoop
  <2>3. RefillLoop'
    BY <1>0, <1>1, <1>9 DEF RefillReleases, Refused, Disposed, Ranges, RefillLoop
  <2>4. EndsAfterItems'
    BY <1>0, <1>1, <1>9 DEF RefillReleases, Refused, Disposed, Ranges, EndsAfterItems, BatchLoop, RefillLoop
  <2>5. QED
    BY <2>1, <2>2, <2>3, <2>4
<1>10. CASE DisposeReads
  <2>1. Ranges'
    BY <1>0, <1>1, <1>10 DEF DisposeReads, Ranges, BatchLoop, RefillLoop
  <2>2. BatchLoop'
    BY <1>0, <1>1, <1>10 DEF DisposeReads, Ranges, BatchLoop
  <2>3. RefillLoop'
    BY <1>0, <1>1, <1>10 DEF DisposeReads, Ranges, RefillLoop
  <2>4. EndsAfterItems'
    BY <1>0, <1>1, <1>10 DEF DisposeReads, Ranges, EndsAfterItems, BatchLoop, RefillLoop
  <2>5. QED
    BY <2>1, <2>2, <2>3, <2>4
<1>11. CASE DisposeReleases
  <2>1. Ranges'
    BY <1>0, <1>1, <1>11 DEF DisposeReleases, Ranges, BatchLoop, RefillLoop
  <2>2. BatchLoop'
    BY <1>0, <1>1, <1>11 DEF DisposeReleases, Ranges, BatchLoop
  <2>3. RefillLoop'
    BY <1>0, <1>1, <1>11 DEF DisposeReleases, Ranges, RefillLoop
  <2>4. EndsAfterItems'
    BY <1>0, <1>1, <1>11 DEF DisposeReleases, Ranges, EndsAfterItems, BatchLoop, RefillLoop
  <2>5. QED
    BY <2>1, <2>2, <2>3, <2>4
<1>12. CASE TryConsume
  <2>1. Ranges'
    BY <1>0, <1>1, Refilled, <1>12 DEF TryConsume, NewTokens, Ranges, BatchLoop, RefillLoop
  <2>2. BatchLoop'
    BY <1>0, <1>1, Refilled, <1>12 DEF TryConsume, NewTokens, Ranges, BatchLoop
  <2>3. RefillLoop'
    BY <1>0, <1>1, Refilled, <1>12 DEF TryConsume, NewTokens, Ranges, RefillLoop
  <2>4. EndsAfterItems'
    BY <1>0, <1>1, Refilled, <1>12 DEF TryConsume, NewTokens, Ranges, EndsAfterItems, BatchLoop, RefillLoop
  <2>5. QED
    BY <2>1, <2>2, <2>3, <2>4
<1>13. CASE ExternalReturns
  <2>1. Ranges'
    BY <1>0, <1>1, <1>13 DEF ExternalReturns, Ranges, BatchLoop, RefillLoop
  <2>2. BatchLoop'
    BY <1>0, <1>1, <1>13 DEF ExternalReturns, Ranges, BatchLoop
  <2>3. RefillLoop'
    BY <1>0, <1>1, <1>13 DEF ExternalReturns, Ranges, RefillLoop
  <2>4. EndsAfterItems'
    BY <1>0, <1>1, <1>13 DEF ExternalReturns, Ranges, EndsAfterItems, BatchLoop, RefillLoop
  <2>5. QED
    BY <2>1, <2>2, <2>3, <2>4
<1>14. CASE Tick
  <2>1. Ranges'
    BY <1>0, <1>1, <1>14 DEF Tick, Ranges, BatchLoop, RefillLoop
  <2>2. BatchLoop'
    BY <1>0, <1>1, <1>14 DEF Tick, Ranges, BatchLoop
  <2>3. RefillLoop'
    BY <1>0, <1>1, <1>14 DEF Tick, Ranges, RefillLoop
  <2>4. EndsAfterItems'
    BY <1>0, <1>1, <1>14 DEF Tick, Ranges, EndsAfterItems, BatchLoop, RefillLoop
  <2>5. QED
    BY <2>1, <2>2, <2>3, <2>4
<1>15. CASE Over \/ UNCHANGED pacedVars
  BY <1>0, <1>15 DEF Over, pacedVars, Ranges, BatchLoop, RefillLoop, EndsAfterItems
<1>16. QED
  BY <1>2, <1>3, <1>4, <1>5, <1>6, <1>7, <1>8, <1>9, <1>10, <1>11, <1>12,
     <1>13, <1>14, <1>15 DEF PacedNext

\* PacedBatch's variables keep their types: no more permits than the bucket
\* holds, no package begun twice, no more permits back than callbacks ended.
THEOREM TypeCorrect == PacedSpec => []PacedTypeOK
<1>1. IInv => PacedTypeOK
  BY DEF IInv
<1>2. QED
  BY InitInvariant, StepInvariant, <1>1, PTL DEF PacedSpec

\* A step that leaves BatchConnect, even by the exception of a failed disposal
\* or by giving up, leaves no package that was not started.
THEOREM NeverEndsEarly == PacedSpec => []EndsAfterItems
<1>1. IInv => EndsAfterItems
  BY DEF IInv
<1>2. QED
  BY InitInvariant, StepInvariant, <1>1, PTL DEF PacedSpec

-----------------------------------------------------------------------------
\* One more of something, and d more of it.
LEMMA Distribute ==
  ASSUME NEW a \in Int, NEW k \in Int, NEW d \in Int
  PROVE  a * (k + d) = a * k + a * d /\ a * k \in Int /\ a * d \in Int
  OBVIOUS

LEMMA InitPace == PacedInit => Pace
<1> SUFFICES ASSUME PacedInit PROVE Pace
  OBVIOUS
<1>1. /\ IInv /\ Ranges
      /\ Interval \in Nat /\ Interval > 0 /\ Start \in Nat
      /\ Fill \in Nat
  BY InitInvariant, Typing, Parameters DEF IInv, Ranges
<1>2. /\ Interval * 0 = 0 /\ Fill * 0 = 0 /\ capacity * 0 = 0
  BY <1>1 DEF Ranges
<1>3. ASSUME mode = "LimitRatePress" PROVE LimitPace(0)
  BY <1>1, <1>2, <1>3 DEF PacedInit, LimitPace, Pending, Ranges
<1>4. ASSUME mode = "ExtLimitRatePress" PROVE Untouched
  BY <1>4 DEF PacedInit, Untouched
<1>5. ASSUME mode = "LowPress" PROVE BatchPace(0)
  BY <1>1, <1>2, <1>5 DEF PacedInit, BatchPace, Ranges
<1>6. QED
  BY <1>3, <1>4, <1>5 DEF Pace

\* What every step does to the clock and to the parameters.
LEMMA ClockStep ==
  ASSUME IInv, [PacedNext]_pacedVars, now' < Horizon
  PROVE  /\ now < Horizon /\ now <= now'
         /\ UNCHANGED <<mode, total, capacity>> /\ Fill' = Fill
         /\ ~Tick => now' = now
         /\ Tick => UNCHANGED <<next, begun, tokens, outcome, rampUp, loop>>
<1>1. Ranges /\ Horizon \in Nat
  BY Typing, PacedAssumption DEF IInv
<1>2. UNCHANGED <<mode, total, capacity>>
  BY DEF PacedNext, EndOne, StartBatch, DelayEnds, LowPressReturns, BeginOne,
     RampReleases, RefillReads, RefillReleases, DisposeReads, DisposeReleases,
     TryConsume, ExternalReturns, Tick, Over, given, pacedVars
<1>3. ~Tick => now' = now
  BY DEF PacedNext, EndOne, StartBatch, DelayEnds, LowPressReturns, BeginOne,
     RampReleases, RefillReads, RefillReleases, DisposeReads, DisposeReleases,
     TryConsume, ExternalReturns, Over, pacedVars
<1>4. ASSUME Tick
      PROVE  now < Horizon /\ now <= now'
             /\ UNCHANGED <<next, begun, tokens, outcome, rampUp, loop>>
  <2>1. now < Horizon
    BY <1>1, <1>4 DEF Tick, Ranges
  <2>2. now' = now + 1 /\ next' = next /\ UNCHANGED <<begun, tokens, outcome>>
    BY <1>1, <1>4, <2>1 DEF Tick, Ranges
  <2>3. rampUp' = rampUp
    BY <1>1, <1>4, <2>1 DEF Tick, Ranges
  <2>4. loop' = loop
    BY <1>1, <1>4, <2>1 DEF Tick, Ranges
  <2>5. QED
    BY <1>1, <2>1, <2>2, <2>3, <2>4 DEF Ranges
<1>5. QED
  BY <1>1, <1>2, <1>3, <1>4 DEF Fill, Ranges

LEMMA LimitStep ==
  ASSUME IInv, [PacedNext]_pacedVars, now' < Horizon, mode = "LimitRatePress",
         NEW k \in Nat, LimitPace(k)
  PROVE  \E j \in Nat : LimitPace(j)'
<1>1. /\ Ranges /\ RefillLoop /\ EndsAfterItems
      /\ Interval \in Nat /\ Interval > 0 /\ Start \in Nat
      /\ Fill \in Nat /\ Fill > 0
  BY Typing, Parameters DEF IInv, Ranges
<1>2. /\ now < Horizon /\ now <= now' /\ now' \in Int
      /\ UNCHANGED <<mode, total, capacity>> /\ Fill' = Fill
      /\ ~Tick => now' = now
      /\ Tick => UNCHANGED <<next, begun, tokens, outcome, rampUp, loop>>
  <2>1. IInv'
    BY StepInvariant
  <2>2. now' \in Int
    BY <2>1 DEF IInv, PacedTypeOK
  <2>3. QED
    BY <2>2, ClockStep
<1>3. /\ Interval * k \in Int /\ Fill * k \in Int /\ Interval * rampUp.i \in Int
      /\ Interval * (rampUp.i + 1) = Interval * rampUp.i + Interval
  BY <1>1, Distribute DEF Ranges
<1>4. CASE EndOne
  BY <1>1, <1>2, <1>3, <1>4 DEF EndOne, LimitPace, Pending, Ranges, Tick, given
<1>5. CASE BeginOne
  BY <1>1, <1>2, <1>3, <1>5
     DEF BeginOne, LimitPace, Pending, Ranges, EndsAfterItems, given
<1>6. CASE RampReleases
  BY <1>1, <1>2, <1>3, <1>6
     DEF RampReleases, LimitPace, Pending, Ranges, given, Refused
<1>7. CASE RefillReads
  <2> DEFINE amount == RefillAmount
             c == Least(Candidate(capacity - tokens), Fill * amount)
  <2>1. /\ amount \in Nat /\ RefillTime(amount) \in Int
        /\ RefillTime(amount) <= Most(now, next + Interval)
        /\ RefillTime(amount) = next + Interval * amount
    BY <1>1, Refilled DEF Ranges, RefillTime
  <2> HIDE DEF amount
  <2>2. /\ Fill * (k + amount) = Fill * k + Fill * amount
        /\ Interval * (k + amount) = Interval * k + Interval * amount
        /\ Fill * amount \in Int /\ Interval * amount \in Int
        /\ k + amount \in Nat
    BY <1>1, <2>1, Distribute
  <2>3. c \in Int /\ c <= Fill * amount
    BY <1>1, <2>2 DEF Ranges, Candidate, Least
  <2> HIDE DEF c
  <2>4. UNCHANGED <<begun, now, tokens, outcome, rampUp>>
    BY <1>7 DEF RefillReads
  <2>5. CASE ~Cancelled /\ now > next
    <3>0. PICK j \in Nat : j = k + amount
      BY <2>2
    <3>1. /\ next' = RefillTime(amount)
          /\ loop'.at = "release" /\ loop'.count = c /\ loop.at = "delay"
          /\ outcome = "none"
      BY <1>1, <1>7, <2>5 DEF RefillReads, Cancelled, Ranges, amount, c
    <3>2. LimitPace(j)'
      BY <3>0, <1>1, <1>2, <1>3, <2>1, <2>2, <2>3, <2>4, <2>5, <3>1
         DEF LimitPace, Pending, Most, Ranges
    <3>3. QED
      BY <3>2
  <2>6. CASE ~(~Cancelled /\ now > next)
    <3>1. next' = next /\ loop.at = "delay" /\ loop'.at # "release"
      BY <1>1, <1>7, <2>6 DEF RefillReads, Ranges
    <3>2. LimitPace(k)'
      BY <1>1, <1>2, <1>3, <2>4, <3>1 DEF LimitPace, Pending, Ranges
    <3>3. QED
      BY <3>2
  <2>7. QED
    BY <2>5, <2>6
<1>8. CASE RefillReleases
  BY <1>1, <1>2, <1>3, <1>8
     DEF RefillReleases, LimitPace, Pending, Ranges, RefillLoop, given, Refused
<1>9. CASE DisposeReads
  BY <1>1, <1>2, <1>3, <1>9
     DEF DisposeReads, LimitPace, Pending, Ranges, RefillLoop, given
<1>10. CASE DisposeReleases
  BY <1>1, <1>2, <1>3, <1>10
     DEF DisposeReleases, LimitPace, Pending, Ranges, RefillLoop, given
<1>11. CASE Tick
  BY <1>1, <1>2, <1>3, <1>11 DEF LimitPace, Pending, Ranges
<1>12. CASE Over \/ UNCHANGED pacedVars
  BY <1>12 DEF Over, pacedVars, LimitPace, Pending, Fill
<1>13. QED
  BY <1>4, <1>5, <1>6, <1>7, <1>8, <1>9, <1>10, <1>11, <1>12
     DEF PacedNext, StartBatch, DelayEnds, LowPressReturns, TryConsume, ExternalReturns

LEMMA ExternalStep ==
  ASSUME IInv, [PacedNext]_pacedVars, now' < Horizon, mode = "ExtLimitRatePress",
         Untouched \/ \E k \in Nat : ExternalPace(k)
  PROVE  (Untouched \/ \E k \in Nat : ExternalPace(k))'
<1>1. /\ Ranges /\ RefillLoop
      /\ Interval \in Nat /\ Interval > 0 /\ Start \in Nat
      /\ Fill \in Nat /\ Fill > 0
  BY Typing, Parameters DEF IInv, Ranges
<1>2. /\ now < Horizon /\ now <= now' /\ now' \in Int
      /\ UNCHANGED <<mode, total, capacity>> /\ Fill' = Fill
      /\ ~Tick => now' = now
      /\ Tick => UNCHANGED <<next, begun, tokens, outcome, rampUp, loop>>
  <2>1. now' \in Int
    BY StepInvariant DEF IInv, PacedTypeOK
  <2>2. QED
    BY <2>1, ClockStep
<1>3. CASE TryConsume
  <2> DEFINE amount == RefillAmount
             new == Least(capacity, NewTokens)
             size == Least(tokens + new, capacity)
  <2>1. /\ amount \in Nat /\ RefillTime(amount) \in Int
        /\ RefillTime(amount) <= Most(now, next + Interval)
        /\ now < RefillTime(amount) + Interval
        /\ RefillTime(amount) = next + Interval * amount
    BY <1>1, Refilled DEF Ranges, RefillTime
  <2>2. /\ NewTokens = (IF now < next THEN 0 ELSE Fill * amount)
        /\ next' = (IF now < next THEN next ELSE RefillTime(amount))
    BY <1>3 DEF TryConsume, NewTokens
  <2>3. begun' + tokens' = begun + size /\ begun' \in Nat /\ tokens' \in Nat
    <3>1. Fill * amount \in Nat
      BY <1>1, <2>1
    <3>2. size \in Nat
      BY <1>1, <2>2, <3>1 DEF Ranges, Least
    <3>3. \/ size > 0 /\ tokens' = size - 1 /\ begun' = begun + 1
          \/ size = 0 /\ tokens' = size /\ begun' = begun
      BY <1>3, <3>2 DEF TryConsume
    <3>4. QED
      BY <1>1, <3>2, <3>3 DEF Ranges
  <2>4. /\ Fill * amount \in Nat /\ Interval * amount \in Nat
    BY <1>1, <2>1
  <2>5. /\ size \in Int /\ size <= capacity
        /\ now < next => size <= tokens
        /\ ~(now < next) => size <= tokens + Fill * amount
    BY <1>1, <2>2, <2>4 DEF Ranges, Least
  <2> HIDE DEF amount, new, size
  <2>6. CASE Untouched
    <3>1. ~(now < next) /\ begun = 0
      BY <1>1, <2>6 DEF Untouched, Ranges
    <3>2. Interval * 0 = 0 /\ Fill * 0 = 0
      BY <1>1
    <3>3. ExternalPace(0)'
      BY <1>1, <1>2, <1>3, <2>1, <2>2, <2>3, <2>5, <2>6, <3>1, <3>2
         DEF ExternalPace, Ranges, Most, TryConsume, Tick, Untouched
    <3>4. QED
      BY <3>3
  <2>7. ASSUME NEW k \in Nat, ExternalPace(k)
        PROVE  \E j \in Nat : ExternalPace(j)'
    <3>1. /\ Fill * (k + amount) = Fill * k + Fill * amount
          /\ Interval * (k + amount) = Interval * k + Interval * amount
          /\ Fill * k \in Int /\ Interval * k \in Int
          /\ k + amount \in Nat
      BY <1>1, <2>1, Distribute
    <3>2. now' = now
      BY <1>3 DEF TryConsume
    <3>3. CASE now < next
      <4>1. ExternalPace(k)'
        BY <1>1, <1>2, <2>2, <2>3, <2>5, <2>7, <3>1, <3>2, <3>3
           DEF ExternalPace, Ranges
      <4>2. QED
        BY <4>1
    <3>4. CASE ~(now < next)
      <4>0. PICK j \in Nat : j = k + amount
        BY <3>1
      <4>1. ExternalPace(j)'
        BY <4>0, <1>1, <1>2, <2>1, <2>2, <2>3, <2>4, <2>5, <2>7, <3>1, <3>2, <3>4
           DEF ExternalPace, Ranges, Most
      <4>2. QED
        BY <4>1
    <3>5. QED
      BY <3>3, <3>4
  <2>8. QED
    BY <2>6, <2>7
<1>4. CASE ~TryConsume
  <2>1. UNCHANGED <<begun, tokens, next>> /\ now <= now'
    <3>1. CASE Tick
      BY <1>2, <3>1
    <3>2. CASE ~Tick
      <4>1. loop.at = "over"
        BY <1>1 DEF RefillLoop
      <4>2. UNCHANGED <<begun, tokens, next>>
        BY <1>1, <1>4, <3>2, <4>1
           DEF PacedNext, EndOne, StartBatch, DelayEnds, LowPressReturns, BeginOne,
           RampReleases, RefillReads, RefillReleases, DisposeReads,
           DisposeReleases, ExternalReturns, Over, pacedVars, RefillLoop
      <4>3. QED
        BY <1>2, <4>2
    <3>3. QED
      BY <3>1, <3>2
  <2>2. Untouched => Untouched'
    BY <2>1 DEF Untouched
  <2>3. ASSUME NEW k \in Nat, ExternalPace(k)
        PROVE  ExternalPace(k)'
    <3>1. Fill * k \in Int /\ Interval * k \in Int
      BY <1>1
    <3>2. QED
      BY <1>1, <1>2, <2>1, <2>3, <3>1 DEF ExternalPace, Ranges
  <2>4. QED
    BY <2>2, <2>3
<1>5. QED
  BY <1>3, <1>4

LEMMA BatchStep ==
  ASSUME IInv, [PacedNext]_pacedVars, now' < Horizon, mode = "LowPress",
         NEW k \in Nat, BatchPace(k)
  PROVE  \E j \in Nat : BatchPace(j)'
<1>1. /\ Ranges /\ RefillLoop /\ BatchLoop
      /\ Interval \in Nat /\ Interval > 0 /\ Start \in Nat
  BY Typing, Parameters DEF IInv, Ranges
<1>2. /\ now < Horizon /\ now <= now' /\ now' \in Int
      /\ UNCHANGED <<mode, total, capacity>>
      /\ ~Tick => now' = now
      /\ Tick => UNCHANGED <<begun, loop>>
  <2>1. now' \in Int
    BY StepInvariant DEF IInv, PacedTypeOK
  <2>2. QED
    BY <2>1, ClockStep
<1>3. /\ Interval * k \in Int /\ capacity * k \in Int
      /\ Interval * (k + 1) = Interval * k + Interval
      /\ capacity * (k + 1) = capacity * k + capacity
  BY <1>1, Distribute DEF Ranges
<1>4. CASE StartBatch
  <2>1. /\ loop.at = "batch" /\ loop.count <= capacity
        /\ begun' = begun + loop.count
        /\ loop'.at = "delay" /\ loop'.timer = now + Interval
    <3>1. /\ loop.at = "batch" /\ loop.count <= capacity
          /\ begun + loop.count <= total
      BY <1>1, <1>4 DEF StartBatch, Ranges, BatchLoop
    <3>2. begun' = begun + loop.count
      BY <1>1, <1>4, <3>1 DEF StartBatch, Ranges, Least
    <3>3. loop' = [loop EXCEPT !.at = "delay", !.timer = now + Interval]
      BY <1>4, <3>1 DEF StartBatch
    <3>4. QED
      BY <1>1, <3>1, <3>2, <3>3 DEF Ranges
  <2>2. BatchPace(k)'
    BY <1>1, <1>2, <1>3, <1>4, <2>1 DEF BatchPace, Ranges, StartBatch
  <2>3. QED
    BY <2>2
<1>5. CASE DelayEnds
  <2>1. /\ loop.at = "delay" /\ now >= loop.timer /\ begun' = begun
        /\ now' = now
        /\ loop'.at \in {"batch", "whenall"}
    BY <1>1, <1>5 DEF DelayEnds, Ranges
  <2>2. CASE loop'.at = "batch"
    <3>1. BatchPace(k + 1)'
      BY <1>1, <1>2, <1>3, <2>1, <2>2 DEF BatchPace, Ranges
    <3>2. QED
      BY <3>1
  <2>3. CASE loop'.at = "whenall"
    <3>1. BatchPace(k)'
      BY <1>1, <1>2, <1>3, <2>1, <2>3 DEF BatchPace, Ranges
    <3>2. QED
      BY <3>1
  <2>4. QED
    BY <2>1, <2>2, <2>3
<1>6. CASE LowPressReturns
  <2>1. loop.at = "whenall" /\ loop'.at = "over" /\ begun' = begun /\ now' = now
    BY <1>1, <1>6 DEF LowPressReturns, Ranges
  <2>2. BatchPace(k)'
    BY <1>1, <1>2, <1>3, <2>1 DEF BatchPace, Ranges
  <2>3. QED
    BY <2>2
<1>7. CASE EndOne \/ Tick \/ Over \/ UNCHANGED pacedVars
  <2>1. UNCHANGED <<begun, loop>>
    BY <1>2, <1>7 DEF EndOne, Over, pacedVars
  <2>2. BatchPace(k)'
    BY <1>1, <1>2, <1>3, <2>1 DEF BatchPace, Ranges
  <2>3. QED
    BY <2>2
<1>8. QED
  BY <1>1, <1>4, <1>5, <1>6, <1>7
     DEF PacedNext, BeginOne, RampReleases, RefillReads, RefillReleases, RefillLoop,
     DisposeReads, DisposeReleases, TryConsume, ExternalReturns

LEMMA StepPace == IInv /\ Pace /\ [PacedNext]_pacedVars => Pace'
<1> SUFFICES ASSUME IInv, Pace, [PacedNext]_pacedVars, now' < Horizon' PROVE Pace'
  BY DEF Pace
<1>1. now' < Horizon
  OBVIOUS
<1>2. now < Horizon /\ mode' = mode
  BY <1>1, ClockStep
<1>3. CASE mode = "LimitRatePress"
  <2>1. PICK k \in Nat : LimitPace(k)
    BY <1>2, <1>3 DEF Pace
  <2>2. \E j \in Nat : LimitPace(j)'
    BY <1>1, <1>3, <2>1, LimitStep
  <2>3. QED
    BY <1>2, <1>3, <2>2 DEF Pace
<1>4. CASE mode = "ExtLimitRatePress"
  <2>1. (Untouched \/ \E k \in Nat : ExternalPace(k))'
    BY <1>1, <1>2, <1>4, ExternalStep DEF Pace
  <2>2. QED
    BY <1>2, <1>4, <2>1 DEF Pace
<1>5. CASE mode = "LowPress"
  <2>1. PICK k \in Nat : BatchPace(k)
    BY <1>2, <1>5 DEF Pace
  <2>2. \E j \in Nat : BatchPace(j)'
    BY <1>1, <1>5, <2>1, BatchStep
  <2>3. QED
    BY <1>2, <1>5, <2>2 DEF Pace
<1>6. mode \in {"LowPress", "LimitRatePress", "ExtLimitRatePress"}
  BY DEF IInv, PacedTypeOK
<1>7. QED
  BY <1>3, <1>4, <1>5, <1>6

-----------------------------------------------------------------------------
(* The bucket of ExtLimitRatePress.                                        *)

LEMMA InitBurst == PacedInit => Burst
  BY DEF PacedInit, Burst, Untouched

\* The clock is far enough from the initial refill time to fill the bucket.
LEMMA FirstRefill ==
  ASSUME Ranges, next = -1
  PROVE  Fill * RefillAmount \in Nat /\ Fill * RefillAmount >= capacity
<1>1. /\ Interval \in Nat \ {0} /\ Fill \in Nat \ {0}
      /\ now \in Nat /\ now >= Start /\ Start \in Nat /\ capacity \in Nat
      /\ Start >= Interval * (capacity + 1)
  BY Parameters, PacedAssumption DEF Ranges
<1>2. PICK q \in Int : /\ q = (now - next) \div Interval
                      /\ now - next < Interval * q + Interval
  BY <1>1, Quotient
<1>3. capacity + 1 < q + 1
  <2>1. Interval * (q + 1) = Interval * q + Interval
    BY <1>1, Distribute
  <2>2. Interval * (capacity + 1) < Interval * (q + 1)
    <3>1. /\ Interval * (capacity + 1) \in Int /\ Interval * q \in Int
      BY <1>1
    <3>2. QED
      BY <1>1, <1>2, <2>1, <3>1
  <2>3. QED
    BY <1>1, <2>2, Scale
<1>4. RefillAmount \in Nat /\ RefillAmount >= capacity
  BY <1>1, <1>2, <1>3 DEF RefillAmount, Most
<1>5. PICK a \in Nat : a = RefillAmount
  BY <1>4
<1>6. a * 1 <= a * Fill
  BY <1>1, Monotone
<1>7. Fill * a = a * Fill /\ a * Fill \in Nat
  BY <1>1
<1>8. QED
  BY <1>1, <1>4, <1>5, <1>6, <1>7

LEMMA StepBurst == IInv /\ Burst /\ [PacedNext]_pacedVars => Burst'
<1> SUFFICES ASSUME IInv, Burst, [PacedNext]_pacedVars, mode' = "ExtLimitRatePress"
             PROVE  (Untouched \/ (begun > 0 /\ begun + tokens >= capacity))'
  BY DEF Burst
<1>1. /\ Ranges /\ RefillLoop
      /\ Interval \in Nat /\ Fill \in Nat
      /\ Start \in Nat /\ Start >= Interval * (capacity + 1)
  BY Typing, Parameters, PacedAssumption DEF IInv, Ranges
<1>2. mode = "ExtLimitRatePress" /\ capacity' = capacity
  BY DEF PacedNext, EndOne, StartBatch, DelayEnds, LowPressReturns, BeginOne,
     RampReleases, RefillReads, RefillReleases, DisposeReads, DisposeReleases,
     TryConsume, ExternalReturns, Tick, Over, pacedVars, given
<1>3. Untouched \/ (begun > 0 /\ begun + tokens >= capacity)
  BY <1>2 DEF Burst
<1>4. CASE TryConsume
  <2> DEFINE new == Least(capacity, NewTokens)
             size == Least(tokens + new, capacity)
  <2>1. NewTokens \in Nat
    <3>1. RefillAmount \in Nat
      BY <1>1, Refilled DEF Ranges
    <3>2. QED
      BY <1>1, <3>1 DEF NewTokens
  <2>2. size \in Nat /\ size >= tokens /\ (NewTokens >= capacity => size = capacity)
    BY <1>1, <2>1 DEF Ranges, Least
  <2>3. \/ size > 0 /\ tokens' = size - 1 /\ begun' = begun + 1
        \/ size = 0 /\ tokens' = size /\ begun' = begun
    BY <1>4, <2>2 DEF TryConsume
  <2> HIDE DEF new, size
  <2>4. CASE Untouched
    <3>1. NewTokens >= capacity
      BY <1>1, <2>4, FirstRefill DEF Untouched, NewTokens, Ranges
    <3>2. QED
      BY <1>1, <1>2, <2>2, <2>3, <2>4, <3>1 DEF Untouched, Ranges
  <2>5. CASE begun > 0 /\ begun + tokens >= capacity
    BY <1>1, <1>2, <2>2, <2>3, <2>5 DEF Ranges
  <2>6. QED
    BY <1>3, <2>4, <2>5
<1>5. CASE Tick
  <2>1. UNCHANGED <<begun, tokens>>
    BY <1>5 DEF Tick
  <2>2. Untouched => next' = next
    <3>1. SUFFICES ASSUME Untouched PROVE next' = next
      OBVIOUS
    <3>2. Interval * (capacity + 1) \in Int
      BY <1>1 DEF Ranges
    <3>3. now - next > Interval * (capacity + 1)
      BY <1>1, <3>1, <3>2 DEF Untouched, Ranges
    <3>4. QED
      BY <1>5, <3>3 DEF Tick
  <2>3. QED
    BY <1>2, <1>3, <2>1, <2>2 DEF Untouched
<1>6. CASE ~TryConsume /\ ~Tick
  <2>1. UNCHANGED <<begun, tokens, next>>
    BY <1>1, <1>2, <1>6
       DEF PacedNext, EndOne, StartBatch, DelayEnds, LowPressReturns, BeginOne,
       RampReleases, RefillReads, RefillReleases, DisposeReads,
       DisposeReleases, ExternalReturns, Over, pacedVars, RefillLoop
  <2>2. QED
    BY <1>2, <1>3, <2>1 DEF Untouched
<1>7. QED
  BY <1>4, <1>5, <1>6

LEMMA BurstFills == IInv /\ Burst => BucketAtOnce
<1> SUFFICES ASSUME Burst, mode = "ExtLimitRatePress", begun > 0
             PROVE  begun + tokens >= capacity
  BY DEF BucketAtOnce
<1>1. CASE Untouched
  BY <1>1 DEF Untouched
<1>2. QED
  BY <1>1 DEF Burst

-----------------------------------------------------------------------------
\* k intervals after the start no more has begun than the pace allows.
LEMMA PaceAllows == IInv /\ Pace => StartsBounded
<1> SUFFICES ASSUME IInv, Pace, NEW n \in 0..Horizon,
                    now < Horizon, now <= Start + n * Interval
             PROVE  begun <= Allowance(n)
  BY DEF StartsBounded
<1>1. /\ Ranges
      /\ Interval \in Nat \ {0} /\ Start \in Nat
      /\ Fill \in Nat \ {0} /\ n \in Nat /\ capacity \in Nat \ {0}
  <2>1. Ranges
    BY Typing DEF IInv
  <2>2. QED
    BY <2>1, Parameters DEF Ranges
<1>2. /\ Interval * n = n * Interval /\ Interval * n \in Int
      /\ Interval * (n + 1) = Interval * n + Interval
      /\ Interval * (n + 2) = Interval * n + Interval * 2
      /\ Interval * 2 = Interval + Interval
      /\ Fill * (n + 1) = Fill * n + Fill /\ Fill * n \in Int
      /\ capacity * (n + 1) = capacity * n + capacity /\ capacity * n \in Int
  BY <1>1, Distribute
<1>3. CASE mode = "LimitRatePress"
  <2>1. PICK k \in Nat : LimitPace(k)
    BY <1>3 DEF Pace
  <2>2. Interval * k \in Int /\ Interval * rampUp.i \in Int /\ rampUp.i \in Nat
    BY <1>1 DEF Ranges
  <2>3. Interval * k < Interval * (n + 1) /\ Interval * rampUp.i < Interval * (n + 1)
    BY <1>1, <1>2, <2>1, <2>2 DEF LimitPace, Ranges
  <2>4. k <= n /\ rampUp.i <= n /\ rampUp.i <= capacity
    <3>1. n + 1 \in Int
      BY <1>1
    <3>2. k < n + 1
      BY <1>1, <2>3, <3>1, Scale
    <3>3. rampUp.i < n + 1
      BY <1>1, <2>2, <2>3, <3>1, Scale
    <3>4. QED
      BY <1>1, <2>2, <3>2, <3>3 DEF Ranges
  <2>5. Fill * k <= Fill * n
    BY <1>1, <2>4, Monotone
  <2>6. begun <= rampUp.i + Fill * k
    BY <1>1, <2>1, <2>2 DEF LimitPace, Pending, Ranges
  <2>7. QED
    BY <1>1, <1>2, <1>3, <2>2, <2>4, <2>5, <2>6 DEF Allowance, Least, Ranges
<1>4. CASE mode = "ExtLimitRatePress"
  <2>1. CASE Untouched
    <3>1. Allowance(n) \in Nat
      BY <1>1, <1>4 DEF Allowance
    <3>2. QED
      BY <2>1, <3>1 DEF Untouched
  <2>2. ASSUME NEW k \in Nat, ExternalPace(k) PROVE begun <= Allowance(n)
    <3>1. Interval * k \in Int /\ Interval * (n + 2) \in Int
      BY <1>1
    <3>2. Interval * k < Interval * (n + 2)
      BY <1>1, <1>2, <2>2, <3>1 DEF ExternalPace, Ranges
    <3>3. k <= n + 1
      <4>1. n + 2 \in Int
        BY <1>1
      <4>2. k < n + 2
        BY <1>1, <3>2, <4>1, Scale
      <4>3. QED
        BY <1>1, <4>2
    <3>4. Fill * k <= Fill * (n + 1)
      BY <1>1, <3>3, Monotone
    <3>5. begun <= capacity + Fill * k /\ Fill * k \in Int
      BY <1>1, <2>2 DEF ExternalPace, Ranges
    <3>6. QED
      BY <1>1, <1>2, <1>4, <3>4, <3>5 DEF Allowance, Ranges
  <2>3. QED
    BY <1>4, <2>1, <2>2 DEF Pace
<1>5. CASE mode = "LowPress"
  <2>1. PICK k \in Nat : BatchPace(k)
    BY <1>5 DEF Pace
  <2>2. Interval * k < Interval * (n + 1) /\ Interval * k \in Int
    BY <1>1, <1>2, <2>1 DEF BatchPace, Ranges
  <2>3. k <= n
    <3>1. n + 1 \in Int
      BY <1>1
    <3>2. k < n + 1
      BY <1>1, <2>2, <3>1, Scale
    <3>3. QED
      BY <1>1, <3>2
  <2>4. capacity * k <= capacity * n /\ capacity * k \in Int
    BY <1>1, <2>3, Monotone
  <2>5. begun <= capacity * k + capacity
    BY <1>1, <2>1, <2>4 DEF BatchPace, Ranges
  <2>6. QED
    BY <1>1, <1>2, <1>5, <2>4, <2>5 DEF Allowance, Ranges
<1>6. QED
  BY <1>1, <1>3, <1>4, <1>5 DEF Ranges

\* Until the horizon, which is any number of ticks, none of the three runners
\* starts callbacks faster than its ramp, refills or batches allow; but
\* ExtLimitRatePress starts as many at once as the bucket holds, whatever Fill
\* and Interval are (Util.cs, TokenBucket.cs, FixedIntervalRefillStrategy.cs).
THEOREM NeverFaster == PacedSpec => []PaceBounds
<1> DEFINE Inv == IInv /\ Pace /\ Burst
<1>1. PacedInit => Inv
  BY InitInvariant, InitPace, InitBurst
<1>2. Inv /\ [PacedNext]_pacedVars => Inv'
  BY StepInvariant, StepPace, StepBurst
<1>3. Inv => PaceBounds
  BY PaceAllows, BurstFills DEF PaceBounds
<1>4. QED
  BY <1>1, <1>2, <1>3, PTL DEF PacedSpec
=============================================================================
