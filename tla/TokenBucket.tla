----------------------------- MODULE TokenBucket -----------------------------
(***************************************************************************)
(* TokenBucket, by which each worker of the benchmark holds its requests   *)
(* back: a token every TimePerToken, taken at once when it is due and      *)
(* slept for when it is not.                                               *)
(*                                                                         *)
(* The worker calls Consume(1) whenever it likes, and its sleep may last   *)
(* longer than asked.  sends is a history variable.                        *)
(***************************************************************************)
EXTENDS Integers, Sequences

CONSTANTS
  Second,    \* the ticks of a second: 10^9 for the nanoseconds of the code
  Rates,     \* the values of rate
  MaxTime,   \* bound on the clock
  MaxSends   \* bound on the requests of the worker

ASSUME TokenBucketAssumption ==
  /\ Second \in Nat
  /\ Rates \subseteq Nat
  /\ MaxTime \in Nat
  /\ MaxSends \in Nat

VARIABLES
  rate,     \* tokens in a second, none to let everything through
  now,      \* steady_clock
  last,     \* last_consume_time_
  asleep,   \* whether the worker is in sleep_until
  earliest, \* the time it sleeps until
  sends     \* when each Consume returned

bucketVars == <<rate, now, last, asleep, earliest, sends>>

TimePerToken == IF rate = 0 THEN 0 ELSE Second \div rate
\* GrpcBenchmark's workers have a burst of one token.
BurstTime == 1 * TimePerToken

Later(s, t) == IF s > t THEN s ELSE t

BucketInit ==
  /\ rate \in Rates
  /\ now = 0
  /\ last = 0
  /\ asleep = FALSE
  /\ earliest = 0
  /\ sends = <<>>

\* Mutant of Earliest: the burst is granted on top of the token.
Bug_BurstOnTop == last + TimePerToken - BurstTime

Earliest == Later(last + TimePerToken, now - BurstTime)

ConsumeAtOnce ==
  /\ ~asleep
  /\ Len(sends) < MaxSends
  /\ \/ rate = 0 /\ UNCHANGED last
     \/ rate # 0 /\ Earliest <= now /\ last' = now
  /\ sends' = Append(sends, now)
  /\ UNCHANGED <<rate, now, asleep, earliest>>

ConsumeLater ==
  /\ ~asleep
  /\ Len(sends) < MaxSends
  /\ rate # 0 /\ Earliest > now
  /\ asleep' = TRUE
  /\ earliest' = Earliest
  /\ UNCHANGED <<rate, now, last, sends>>

WakeUp ==
  /\ asleep
  /\ now >= earliest
  /\ asleep' = FALSE
  /\ last' = earliest
  /\ sends' = Append(sends, now)
  /\ UNCHANGED <<rate, now, earliest>>

Tick ==
  /\ now < MaxTime
  /\ now' = now + 1
  /\ UNCHANGED <<rate, last, asleep, earliest, sends>>

BucketNext == ConsumeAtOnce \/ ConsumeLater \/ WakeUp \/ Tick

BucketSpec == BucketInit /\ [][BucketNext]_bucketVars

-----------------------------------------------------------------------------
\* Types; the time of the last token is never ahead of the clock.
BucketTypeOK ==
  /\ rate \in Rates
  /\ now \in Nat
  /\ last \in 0..now
  /\ asleep \in BOOLEAN
  /\ earliest \in Nat
  /\ sends \in Seq(Nat)

\* However the worker calls and however late it wakes, k requests after one of
\* its requests at least k - 1 token times have gone by: a late wake-up is made
\* up for by a single request, and the burst lets none through (Consume).
Paced ==
  \A i, j \in 1..Len(sends) :
    i < j => sends[j] - sends[i] >= (j - i - 1) * TimePerToken

\* Consume sleeps no longer than the time of one token, so that a worker keeps
\* up its rate however many requests wait (Consume).
SleepsBriefly == asleep => earliest - now <= TimePerToken
=============================================================================
