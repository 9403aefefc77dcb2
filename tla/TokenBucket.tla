----------------------------- MODULE TokenBucket -----------------------------
(* The rate limiter (easytier-core, foundation/token_bucket.rs): a bucket refilled  *)
(* on demand from the time that has passed, with the fraction of a token carried    *)
(* over; packets that take tokens or are turned away, tasks that sleep until there  *)
(* are enough for each chunk of what they want, and the stop that wakes them.       *)
(* Time is counted in ticks, Second of them to a second (nanoseconds in the code).  *)
EXTENDS Integers

CONSTANTS Capacity, FillRate,   \* tokens; tokens a second
          Second,               \* NANOS_PER_SECOND
          MinSleep,             \* the shortest sleep, one millisecond in the code
          Consumers,            \* tasks calling consume
          MaxWant,              \* bound: tokens asked for at once
          MaxClock              \* bound: the time that passes

ASSUME BucketAssumption ==
  /\ Capacity \in Nat \ {0} /\ FillRate \in Nat \ {0} /\ Second \in Nat \ {0}
  /\ MinSleep \in Nat /\ MaxWant \in Nat /\ MaxClock \in Nat

VARIABLES
  clock,
  available, lastRefill, remainder, metered, \* BucketState
  bucketStopped,                             \* "no", "stored" once the flag is set, "yes" once the waiters are notified
  consumer                                   \* per consumer: where it is, what it still wants, and its sleep

tbVars == <<clock, available, lastRefill, remainder, metered, bucketStopped, consumer>>

\* contended: someone else has taken tokens since the sleep was computed (ghost).
NoTask == [at |-> "idle", left |-> 0, listening |-> FALSE, notified |-> FALSE,
           until |-> 0, contended |-> FALSE]

TbInit ==
  /\ clock = 0 /\ available = Capacity /\ lastRefill = 0 /\ remainder = 0 /\ metered = 0
  /\ bucketStopped = "no" /\ consumer = [c \in Consumers |-> NoTask]

Least(a, b) == IF a < b THEN a ELSE b

-----------------------------------------------------------------------------
\* refill: the bucket as it is once refilled at the current time.

Generated == FillRate * (clock - lastRefill) + remainder

Full == Generated \div Second >= Capacity - available

RefilledTokens ==
  IF clock = lastRefill THEN available
  ELSE IF available = Capacity \/ Full THEN Capacity ELSE available + Generated \div Second

RefilledRemainder ==
  IF clock = lastRefill THEN remainder
  ELSE IF available = Capacity \/ Full THEN 0 ELSE Generated % Second

-----------------------------------------------------------------------------

Tick ==
  /\ clock < MaxClock /\ clock' = clock + 1
  /\ UNCHANGED <<available, lastRefill, remainder, metered, bucketStopped, consumer>>

DrawKeepingTime(n) ==
  /\ lastRefill' = IF RefilledTokens > available THEN clock ELSE lastRefill
  /\ remainder' = RefilledRemainder
  /\ available' = IF RefilledTokens >= n THEN RefilledTokens - n ELSE RefilledTokens
  /\ metered' = IF RefilledTokens >= n THEN metered + n ELSE metered
  /\ UNCHANGED <<clock, bucketStopped>>

\* The bucket is locked, refilled, and n tokens are taken if they are there.
Draw(n) ==
  /\ lastRefill' = clock /\ remainder' = RefilledRemainder
  /\ available' = IF RefilledTokens >= n THEN RefilledTokens - n ELSE RefilledTokens
  /\ metered' = IF RefilledTokens >= n THEN metered + n ELSE metered
  /\ UNCHANGED <<clock, bucketStopped>>

Contend(tasks, taken) ==
  [c \in Consumers |-> [tasks[c] EXCEPT !.contended = @ \/ (taken /\ tasks[c].at = "sleep")]]

\* A packet that has found the bucket not stopped (otherwise it passes and nothing changes);
\* an oversized one is charged a full bucket.
TryConsume(n) ==
  /\ Draw(Least(n, Capacity))
  /\ consumer' = Contend(consumer, RefilledTokens >= Least(n, Capacity))

Consume(c, n) ==
  /\ consumer[c].at = "idle" /\ n > 0
  /\ consumer' = [consumer EXCEPT ![c] = [NoTask EXCEPT !.at = "chunk", !.left = n]]
  /\ UNCHANGED <<clock, available, lastRefill, remainder, metered, bucketStopped>>

ListenLate(c) ==
  /\ consumer[c].at = "chunk"
  /\ consumer' = [consumer EXCEPT ![c] = [NoTask EXCEPT !.at = "check", !.left = consumer[c].left]]
  /\ UNCHANGED <<clock, available, lastRefill, remainder, metered, bucketStopped>>

\* consume_chunk: the wait for the stop is begun ...
Listen(c) ==
  /\ consumer[c].at = "chunk"
  /\ consumer' = [consumer EXCEPT ![c] = [NoTask EXCEPT !.at = "check", !.left = consumer[c].left, !.listening = TRUE]]
  /\ UNCHANGED <<clock, available, lastRefill, remainder, metered, bucketStopped>>

\* ... before the flag is read.
CheckStopped(c) ==
  /\ consumer[c].at = "check"
  /\ consumer' = [consumer EXCEPT ![c] = IF bucketStopped # "no" THEN NoTask ELSE [@ EXCEPT !.at = "take"]]
  /\ UNCHANGED <<clock, available, lastRefill, remainder, metered, bucketStopped>>

\* How long the missing tokens take, rounded up.
SleepDown(missing) ==
  LET ticks == (missing * Second - RefilledRemainder) \div FillRate IN
  IF ticks < MinSleep THEN MinSleep ELSE ticks

SleepFor(missing) ==
  LET ticks == (missing * Second - RefilledRemainder + FillRate - 1) \div FillRate IN
  IF ticks < MinSleep THEN MinSleep ELSE ticks

TakeChunk(c) ==
  LET chunk == Least(consumer[c].left, Capacity)
      rest == consumer[c].left - chunk IN
  /\ consumer[c].at = "take" /\ Draw(chunk)
  /\ consumer' = IF RefilledTokens >= chunk
             THEN Contend([consumer EXCEPT ![c] = IF rest = 0 THEN NoTask
                                              ELSE [NoTask EXCEPT !.at = "chunk", !.left = rest]], TRUE)
             ELSE [consumer EXCEPT ![c] = [@ EXCEPT !.at = "sleep", !.listening = TRUE,
                                                !.until = clock + SleepFor(chunk - RefilledTokens)]]

Wake(c) ==
  /\ consumer[c].at = "sleep" /\ (clock >= consumer[c].until \/ consumer[c].notified)
  /\ consumer' = [consumer EXCEPT ![c].at = "chunk"]
  /\ UNCHANGED <<clock, available, lastRefill, remainder, metered, bucketStopped>>

\* The caller gives up on it.
Cancel(c) ==
  /\ consumer[c].at = "sleep" /\ consumer' = [consumer EXCEPT ![c] = NoTask]
  /\ UNCHANGED <<clock, available, lastRefill, remainder, metered, bucketStopped>>

StopStore ==
  /\ bucketStopped = "no" /\ bucketStopped' = "stored"
  /\ UNCHANGED <<clock, available, lastRefill, remainder, metered, consumer>>

\* notify_waiters reaches those that have begun to wait.
StopNotify ==
  /\ bucketStopped = "stored" /\ bucketStopped' = "yes"
  /\ consumer' = [c \in Consumers |-> [consumer[c] EXCEPT !.notified = consumer[c].listening]]
  /\ UNCHANGED <<clock, available, lastRefill, remainder, metered>>

TbNext ==
  \/ Tick \/ StopStore \/ StopNotify
  \/ \E n \in 0 .. MaxWant : TryConsume(n) \/ \E c \in Consumers : Consume(c, n)
  \/ \E c \in Consumers : Listen(c) \/ CheckStopped(c) \/ TakeChunk(c) \/ Wake(c) \/ Cancel(c)

TbSpec == TbInit /\ [][TbNext]_tbVars

-----------------------------------------------------------------------------

\* The bucket never holds more than its capacity, the fraction it carries over is less than
\* a token, and it is not refilled from the future (refill).
TbTypeOK ==
  /\ clock \in Nat /\ metered \in Nat /\ available \in 0 .. Capacity
  /\ remainder \in 0 .. Second - 1 /\ lastRefill \in 0 .. clock

\* The bytes charged since the start, with what is left in the bucket, are at most one full
\* bucket and what the rate generates in that time: rounding and refills that are late or
\* cut off at the capacity never create tokens (refill, try_consume, consume_chunk).
RateBound == (metered + available) * Second + remainder <= Capacity * Second + FillRate * lastRefill

\* A consumer that has slept the time it computed finds its tokens, unless another took some
\* meanwhile: the sleep is not a tick too short (consume_chunk).
SleepSuffices ==
  \A c \in Consumers :
    consumer[c].at = "sleep" /\ ~consumer[c].contended /\ clock >= consumer[c].until =>
      RefilledTokens >= Least(consumer[c].left, Capacity)

\* A consumer asleep when the stop is through has been notified of it (consume_chunk, stop).
StopReaches == \A c \in Consumers : bucketStopped = "yes" /\ consumer[c].at = "sleep" => consumer[c].notified
=============================================================================
