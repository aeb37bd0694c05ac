----------------------------- MODULE PacedBatch -----------------------------
(***************************************************************************)
(* The three batch runners of BatchConnect that pace the callbacks by the  *)
(* clock: LowPressBatchProcess (a batch, a delay, a batch, ...),           *)
(* RateLimitBatchProces (one permit of a SemaphoreTokenBucket per          *)
(* callback) and ExternalRateLimitBatchProcess (one token of a TokenBucket *)
(* with a FixedIntervalRefillStrategy).  One step runs one of them over    *)
(* `total' packages, which nothing here tells apart, so they are counted.  *)
(* The clock is in ticks; every interval of the code (100 ms of ramp and   *)
(* refill, the wait between batches) is Interval ticks long.               *)
(***************************************************************************)
EXTENDS Integers

CONSTANTS
  Totals,      (* numbers of packages                                      *)
  Concurrent,  (* values of concurrentConnection                           *)
  Factor,      (* 1000 / period of BatchConnect: refills in a second       *)
  Interval,    (* ticks in an interval                                     *)
  Start,       (* DateTime.Now.Ticks when the step begins                  *)
  MaxLate,     (* bound: ticks by which a timer or a loop is late          *)
  Horizon      (* bound: ticks told apart; then the clock only goes round  *)

\* The clock has been running for much longer than it takes to fill a bucket.
ASSUME PacedAssumption ==
  /\ Totals \subseteq Nat
  /\ Concurrent \subseteq Nat \ {0}
  /\ Factor \in Nat \ {0}
  /\ Interval \in Nat \ {0}
  /\ Start \in Nat
  /\ \A c \in Concurrent : Start >= Interval * (c + 1)
  /\ MaxLate \in Nat \ {0}
  /\ Horizon \in Nat /\ Horizon > Start

VARIABLES
  mode,      (* the BatchMode of the step                                  *)
  total,     (* packages.Count                                             *)
  capacity,  (* concurrentConnection: the batch size or the bucket's size  *)
  begun,     (* callbacks started                                          *)
  ended,     (* callbacks that returned (StartConnect never throws)        *)
  outcome,   (* none, disposing, returned, "gaveUp" (OrTimeout), failed   *)
  now,       (* the clock                                                  *)
  tokens,    (* _s.CurrentCount, or _size of the TokenBucket               *)
  next,      (* _nextRefillTime of either bucket                           *)
  released,  (* _releasedCount                                             *)
  rampUp,    (* the bucket's ramp: permits it released, timer, at          *)
  loop,      (* the refill loop, or the batch loop: at, timer, count       *)
  left,      (* LowPress: left                                             *)
  holding    (* Dispose: holdingCount                                      *)

\* The parameters of the step.
given == <<mode, total, capacity>>

pacedVars == <<mode, total, capacity, begun, ended, outcome, now, tokens, next, released,
               rampUp, loop, left, holding>>

Least(a, b) == IF a < b THEN a ELSE b
Most(a, b) == IF a > b THEN a ELSE b

\* fillTokenPerDuration of BatchConnect.
Fill == IF capacity > Factor THEN capacity \div Factor ELSE 1

PacedInit ==
  /\ mode \in {"LowPress", "LimitRatePress", "ExtLimitRatePress"}
  /\ total \in Totals
  /\ capacity \in Concurrent
  /\ begun = 0
  /\ ended = 0
  /\ outcome = "none"
  /\ now = Start
  /\ tokens = 0
  /\ next = IF mode = "LimitRatePress" THEN Start ELSE -1
  /\ released = 0
  /\ rampUp = [at |-> IF mode = "LimitRatePress" THEN "delay" ELSE "over",
             i |-> 0, timer |-> Start + Interval]
  /\ loop = [at |-> CASE mode = "LimitRatePress" -> "delay"
                      [] mode = "LowPress" -> "batch"
                      [] mode = "ExtLimitRatePress" -> "over",
             timer |-> Start,
             count |-> IF mode = "LowPress" THEN Least(capacity, total) ELSE 0]
  /\ left = total
  /\ holding = 0

\* f(item) returns; the rate limiter's finally block only counts it.
EndOne ==
  /\ ended < begun
  /\ ended' = ended + 1
  /\ released' = IF mode = "LimitRatePress" THEN released + 1 ELSE released
  /\ UNCHANGED <<given, begun, outcome, now, tokens, next, rampUp, loop, left,
                 holding>>

-----------------------------------------------------------------------------
(* LowPressBatchProcess.                                                   *)

\* The for loop starts nextBatch tasks, source[i + j]; an index out of range
\* would end the runner in its catch block.
StartBatch ==
  /\ mode = "LowPress" /\ outcome = "none" /\ loop.at = "batch"
  /\ begun' = Least(begun + loop.count, total)
  /\ IF begun + loop.count <= total
     THEN /\ loop' = [loop EXCEPT !.at = "delay", !.timer = now + Interval]
          /\ UNCHANGED outcome
     ELSE /\ outcome' = "returned"
          /\ loop' = [loop EXCEPT !.at = "over"]
  /\ UNCHANGED <<given, ended, now, tokens, next, released, rampUp, left,
                 holding>>

(* A mutated form of NextBatch: the last batch is as large as the others. *)
NextBatchFull(size, rest) == size

\* if (left < nextBatch) nextBatch = left.
NextBatch(size, rest) == Least(size, rest)

\* Task.Delay is over: left is updated and the loop goes on or ends.
DelayEnds ==
  /\ mode = "LowPress" /\ outcome = "none" /\ loop.at = "delay" /\ now >= loop.timer
  /\ left' = left - loop.count
  /\ loop' = [loop EXCEPT !.at = IF left' > 0 THEN "batch" ELSE "whenall",
                          !.count = NextBatch(@, left')]
  /\ UNCHANGED <<given, begun, ended, outcome, now, tokens, next, released,
                 rampUp, holding>>

\* await Task.WhenAll(tasks).OrTimeout(): its TimeoutException is only logged.
LowPressReturns ==
  /\ mode = "LowPress" /\ outcome = "none" /\ loop.at = "whenall"
  /\ outcome' = IF ended = begun THEN "returned" ELSE "gaveUp"
  /\ loop' = [loop EXCEPT !.at = "over"]
  /\ UNCHANGED <<given, begun, ended, now, tokens, next, released, rampUp, left,
                 holding>>

-----------------------------------------------------------------------------
(* RateLimitBatchProces over SemaphoreTokenBucket.                         *)

\* await tokenBucket.WaitAsync() returns and f(item) begins.
BeginOne ==
  /\ mode = "LimitRatePress" /\ begun < total /\ tokens > 0
  /\ tokens' = tokens - 1
  /\ begun' = begun + 1
  /\ UNCHANGED <<given, ended, outcome, now, next, released, rampUp, loop, left,
                 holding>>

Disposed == outcome = "returned"
Cancelled == outcome # "none"

\* _s.Release(n) throws when it would pass the capacity, or once disposed.
Refused(n) == Disposed \/ tokens + n > capacity

(* A mutated form of RampReleases: the loop condition is i <= capacity. *)
RampReleasesTooOften ==
  /\ rampUp.at = "delay" /\ now >= rampUp.timer
  /\ rampUp' = [at |-> IF rampUp.i = capacity \/ Refused(1) THEN "over" ELSE "delay",
              i |-> IF Refused(1) THEN rampUp.i ELSE rampUp.i + 1,
              timer |-> now + Interval]
  /\ tokens' = IF Refused(1) THEN tokens ELSE tokens + 1
  /\ UNCHANGED <<given, begun, ended, outcome, now, next, released, loop, left,
                 holding>>

\* One turn of the ramp; an exception ends it, unobserved.
RampReleases ==
  /\ rampUp.at = "delay" /\ now >= rampUp.timer
  /\ rampUp' = [at |-> IF rampUp.i + 1 = capacity \/ Refused(1) THEN "over" ELSE "delay",
              i |-> IF Refused(1) THEN rampUp.i ELSE rampUp.i + 1,
              timer |-> now + Interval]
  /\ tokens' = IF Refused(1) THEN tokens ELSE tokens + 1
  /\ UNCHANGED <<given, begun, ended, outcome, now, next, released, loop, left,
                 holding>>

\* Math.Max((now - _nextRefillTime) / _periodInTicks, 1) of both buckets.
RefillAmount == Most((now - next) \div Interval, 1)

(* A mutated form of RefillTime: _nextRefillTime is not moved on. *)
RefillTimeForgotten(amount) == next

\* _nextRefillTime += _periodInTicks * refillAmount of both buckets.
RefillTime(amount) == next + Interval * amount

(* A mutated form of Candidate: only permits that came back are refilled. *)
CandidateReturned(free) == Least(released, free)

\* candidate: the free permits, no more than were given back since the last
\* refill, if any were.
Candidate(free) == IF released > 0 THEN Least(released, free) ELSE free

\* The first half of a turn of the refill loop, up to the call of Release.
RefillReads ==
  /\ mode = "LimitRatePress" /\ loop.at = "delay" /\ now >= loop.timer
  /\ IF Cancelled
     THEN /\ loop' = [loop EXCEPT !.at = "over"]
          /\ UNCHANGED next
     ELSE IF now > next
     THEN /\ next' = RefillTime(RefillAmount)
          /\ loop' = [loop EXCEPT !.at = "release",
                        !.count = Least(Candidate(capacity - tokens), Fill * RefillAmount)]
     ELSE /\ loop' = [loop EXCEPT !.timer = now + Interval]
          /\ UNCHANGED next
  /\ UNCHANGED <<given, begun, ended, outcome, now, tokens, released, rampUp,
                 left, holding>>

\* The second half: an exception of Release keeps _releasedCount, else what
\* was given back in between is forgotten with the rest.
RefillReleases ==
  /\ loop.at = "release"
  /\ IF loop.count > 0 /\ Refused(loop.count)
     THEN UNCHANGED <<tokens, released>>
     ELSE tokens' = tokens + loop.count /\ released' = 0
  /\ loop' = [at |-> "delay", timer |-> now + Interval, count |-> 0]
  /\ UNCHANGED <<given, begun, ended, outcome, now, next, rampUp, left, holding>>

\* Task.WhenAll is over; `using' disposes the bucket, which reads the count...
DisposeReads ==
  /\ mode = "LimitRatePress" /\ outcome = "none" /\ ended = total
  /\ outcome' = "disposing"
  /\ holding' = capacity - tokens
  /\ UNCHANGED <<given, begun, ended, now, tokens, next, released, rampUp, loop,
                 left>>

\* ... and releases the rest.  The ramp or the refill may have come between:
\* then the SemaphoreFullException leaves the step, and the bucket undisposed.
DisposeReleases ==
  /\ outcome = "disposing"
  /\ IF tokens + holding > capacity
     THEN outcome' = "failed" /\ UNCHANGED tokens
     ELSE outcome' = "returned" /\ tokens' = tokens + holding
  /\ UNCHANGED <<given, begun, ended, now, next, released, rampUp, loop, left,
                 holding>>

-----------------------------------------------------------------------------
(* ExternalRateLimitBatchProcess over TokenBucket.                         *)

\* FixedIntervalRefillStrategy.Refill.
NewTokens == IF now < next THEN 0 ELSE Fill * RefillAmount

\* One TryConsume(1) of a task that spins in Consume.
TryConsume ==
  /\ mode = "ExtLimitRatePress" /\ begun < total
  /\ LET size == Least(tokens + Least(capacity, NewTokens), capacity) IN
     IF size > 0
     THEN tokens' = size - 1 /\ begun' = begun + 1
     ELSE tokens' = size /\ UNCHANGED begun
  /\ next' = IF now < next THEN next ELSE RefillTime(RefillAmount)
  /\ UNCHANGED <<given, ended, outcome, now, released, rampUp, loop, left,
                 holding>>

ExternalReturns ==
  /\ mode = "ExtLimitRatePress" /\ outcome = "none" /\ ended = total
  /\ outcome' = "returned"
  /\ UNCHANGED <<given, begun, ended, now, tokens, next, released, rampUp, loop,
                 left, holding>>

-----------------------------------------------------------------------------
\* No timer is later than MaxLate.
Punctual ==
  /\ rampUp.at = "delay" => now < rampUp.timer + MaxLate
  /\ loop.at \in {"delay", "release"} => now < loop.timer + MaxLate

\* The step has ended and nothing of it is left.
Settled ==
  /\ outcome \notin {"none", "disposing"}
  /\ ended = total
  /\ rampUp.at = "over" /\ loop.at = "over"

\* Time passes.  At the horizon the clock stands and what it is compared with
\* moves back; a refill that fills the bucket anyway gets no later.
Tick ==
  /\ ~Settled
  /\ Punctual
  /\ LET back == IF now < Horizon THEN 0 ELSE 1
         full == now - next > Interval * (capacity + 1)
     IN  /\ now' = now + 1 - back
         /\ next' = IF full THEN next ELSE next - back
         /\ rampUp' = [rampUp EXCEPT !.timer = IF rampUp.at = "over" THEN @ ELSE @ - back]
         /\ loop' = [loop EXCEPT !.timer = IF loop.at \in {"delay", "release"} THEN @ - back ELSE @]
  /\ UNCHANGED <<given, begun, ended, outcome, tokens, released, left,
                 holding>>

Over == Settled /\ UNCHANGED pacedVars

PacedNext ==
  \/ EndOne
  \/ StartBatch \/ DelayEnds \/ LowPressReturns
  \/ BeginOne \/ RampReleases \/ RefillReads \/ RefillReleases
  \/ DisposeReads \/ DisposeReleases
  \/ TryConsume \/ ExternalReturns
  \/ Tick
  \/ Over

\* The actions of one task each; their modes or positions exclude one another.
Beginning == BeginOne \/ TryConsume
Looping == StartBatch \/ DelayEnds \/ RefillReads \/ RefillReleases
Ending == LowPressReturns \/ DisposeReads \/ DisposeReleases \/ ExternalReturns

\* Timers fire, ready tasks run, a callback ends (StartConnect cancels after
\* 3 s), a spinning task gets to try again after the clock has moved.
PacedFairness ==
  /\ WF_pacedVars(EndOne)
  /\ WF_pacedVars(Beginning)
  /\ WF_pacedVars(RampReleases)
  /\ WF_pacedVars(Looping)
  /\ WF_pacedVars(Ending)
  /\ WF_pacedVars(Tick)

PacedSpec == PacedInit /\ [][PacedNext]_pacedVars /\ PacedFairness

-----------------------------------------------------------------------------
\* The counts stay in their ranges: the bucket is never more than full, no
\* callback begins twice, and the ramp and Dispose do not overrun (Util.cs,
\* SemaphoreTokenBucket.cs, TokenBucket.cs).
PacedTypeOK ==
  /\ mode \in {"LowPress", "LimitRatePress", "ExtLimitRatePress"}
  /\ total \in Totals
  /\ capacity \in Concurrent
  /\ begun \in 0..total /\ ended \in 0..begun
  /\ outcome \in {"none", "disposing", "returned", "gaveUp", "failed"}
  /\ now \in Start..Horizon
  /\ tokens \in 0..capacity
  /\ next \in Int
  /\ released \in 0..total
  /\ rampUp \in [at : {"delay", "over"}, i : 0..capacity, timer : Int]
  /\ loop \in [at : {"delay", "release", "batch", "whenall", "over"}, timer : Int,
               count : 0..Most(capacity, total)]
  /\ left \in 0..total
  /\ holding \in 0..capacity

\* How many callbacks may begin in the first k intervals.  The pace is Fill in
\* an interval (a tenth of concurrentConnection, but at least 1), in LowPress
\* a batch.  Not even the code keeps to it: on top come the permits of the
\* ramp in LimitRatePress, one refill and the whole bucket in
\* ExtLimitRatePress, and in LowPress the batch at the start.
Allowance(k) ==
  CASE mode = "LimitRatePress" -> Least(k, capacity) + Fill * k
    [] mode = "ExtLimitRatePress" -> capacity + Fill * (k + 1)
    [] mode = "LowPress" -> capacity * (k + 1)

\* No more than that begins, whatever is late, whatever the ramp, the refill
\* and the callbacks that end do in between: refills that were missed are made
\* up for, but never twice.
StartsBounded ==
  \A k \in 0..Horizon :
    now < Horizon /\ now <= Start + k * Interval => begun <= Allowance(k)

\* The first refill fills the bucket: once one callback of ExtLimitRatePress
\* has begun, concurrentConnection of them have begun or may begin at once,
\* however small Fill is.  FixedIntervalRefillStrategy.cs says otherwise: "will
\* never allow more than N tokens to be consumed during a window of time T",
\* where N is Fill and T is Interval.
BucketAtOnce ==
  mode = "ExtLimitRatePress" /\ begun > 0 => begun + tokens >= capacity

\* How fast the paced modes start connections: never beyond the allowance, and
\* in ExtLimitRatePress no slower at first than the whole bucket at once.
PaceBounds == StartsBounded /\ BucketAtOnce

\* A step never ends before its packages: even when the disposal of the
\* bucket fails the step, and when LowPress gives up, every connection has
\* been asked to start, and but for the latter every start has ended.
EndsAfterItems ==
  outcome # "none" => begun = total /\ (ended = total \/ outcome = "gaveUp")

\* No package waits for ever: the permits that are lost between the read and
\* the reset of _releasedCount, or to an exception, come back.
EveryItemEnds == <>[](ended = total /\ outcome \notin {"none", "disposing"})
=============================================================================
