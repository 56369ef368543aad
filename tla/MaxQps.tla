------------------------------- MODULE MaxQps --------------------------------
(***************************************************************************)
(* TestMaxQps of the testbench: the search for the highest rate a service  *)
(* stands, first in steps of qps_step0 from the baseline, then in steps of *)
(* qps_step1 around the first rate that failed.                            *)
(*                                                                         *)
(* A summary stands for the rate it was taken at, and 0 for the empty one. *)
(* A benchmark passes or fails as the service decides: a steady service    *)
(* stands every rate up to its capacity, another one answers as it likes.  *)
(***************************************************************************)
EXTENDS Integers

CONSTANTS
  Baselines, Uppers,   \* values of qps_baseline and qps_upper
  Steps0, Steps1,      \* values of qps_step0 and qps_step1
  Capacities           \* capacities of a service

Positive == Nat \ {0}

ASSUME MaxQpsAssumption ==
  /\ Baselines \subseteq Positive
  /\ Uppers \subseteq Positive
  /\ Steps0 \subseteq Positive
  /\ Steps1 \subseteq Positive
  /\ Capacities \subseteq Nat

VARIABLES
  baseline, upper, step0, step1,   \* the configuration
  capacity, steady,                \* the service
  phase,       \* 0 and 1, the two calls of doBatchBench, and 2 at the end
  qps_limit,   \* the rate of the next benchmark
  qps_max,     \* the highest rate to try
  valid,       \* valid_summary of this phase
  summary0,    \* what the first phase returned
  result       \* what TestMaxQps returned

config == <<baseline, upper, step0, step1, capacity, steady>>
vars == <<config, phase, qps_limit, qps_max, valid, summary0, result>>

Init ==
  /\ baseline \in Baselines
  /\ upper \in Uppers
  /\ step0 \in Steps0
  /\ step1 \in Steps1
  /\ capacity \in Capacities
  /\ steady \in BOOLEAN
  /\ phase = 0
  /\ qps_limit = baseline
  /\ qps_max = upper
  /\ valid = 0
  /\ summary0 = 0
  /\ result = 0

Step == IF phase = 0 THEN step0 ELSE step1

\* Mutant of StartRate: the rate is not brought back above zero.
Bug_NoReset(rate) == rate

\* The rate the second phase starts from, a step0 below the one that failed.
StartRate(rate) == IF rate <= 0 THEN step1 ELSE rate

\* Mutant of Result: the second phase always decides.
Bug_NoFallback(first, second) == second

\* The second summary, unless not a single benchmark of its phase passed.
Result(first, second) == IF second = 0 THEN first ELSE second

\* doBatchBench returns, leaving the given rate in qps_limit.
Leave(rate) ==
  \/ /\ phase = 0
     /\ phase' = 1
     /\ qps_limit' = StartRate(rate)
     /\ summary0' = valid
     /\ valid' = 0
     /\ UNCHANGED result
  \/ /\ phase = 1
     /\ phase' = 2
     /\ qps_limit' = rate
     /\ result' = Result(summary0, valid)
     /\ UNCHANGED <<valid, summary0>>

\* Mutant of Tries: the limit is not looked at.
Bug_NoUpper == phase \in {0, 1}

\* The loop goes on.
Tries == phase \in {0, 1} /\ qps_limit <= qps_max

\* Mutant of Passes: the same rate is tried again.
Bug_SameRate ==
  /\ Tries
  /\ steady => qps_limit <= capacity
  /\ valid' = qps_limit
  /\ UNCHANGED <<config, phase, qps_limit, qps_max, summary0, result>>

Passes ==
  /\ Tries
  /\ steady => qps_limit <= capacity
  /\ qps_limit' = qps_limit + Step
  /\ valid' = qps_limit
  /\ UNCHANGED <<config, phase, qps_max, summary0, result>>

\* Mutant of Fails: the search goes on from the rate that failed.
Bug_NoStepBack ==
  /\ Tries
  /\ steady => qps_limit > capacity
  /\ qps_max' = qps_limit
  /\ Leave(qps_limit)
  /\ UNCHANGED config

Fails ==
  /\ Tries
  /\ steady => qps_limit > capacity
  /\ qps_max' = qps_limit
  /\ Leave(qps_limit - Step)
  /\ UNCHANGED config

Exhausted ==
  /\ qps_limit > qps_max
  /\ Leave(qps_limit)
  /\ UNCHANGED <<config, qps_max>>

Next == Passes \/ Fails \/ Exhausted

Spec == Init /\ [][Next]_vars

-----------------------------------------------------------------------------
\* Types; no rate above qps_upper is tried, and so none is returned.
TypeOK ==
  /\ baseline \in Positive /\ upper \in Positive
  /\ step0 \in Positive /\ step1 \in Positive
  /\ capacity \in Nat /\ steady \in BOOLEAN
  /\ phase \in 0..2
  /\ qps_limit \in Int
  /\ qps_max \in 1..upper
  /\ valid \in 0..upper
  /\ summary0 \in 0..upper
  /\ result \in 0..upper

\* No benchmark runs at a rate of zero, for which a TokenBucket does not limit
\* at all, or below, wherever the steps lead (TestMaxQps, the reset between
\* its phases).
NeverUnthrottled == phase \in {0, 1} => qps_limit > 0

\* Whatever the service does in the second phase, the result is no lower than
\* what the first one found (TestMaxQps).
NotWorse == phase = 2 => result >= summary0

\* A steady service is measured to a step1, or to a step0 below the upper
\* limit if it stands all rates of the first phase; it has to stand the rate a
\* step0 below the baseline (TestMaxQps).
SteadyExact ==
  phase = 2 /\ steady /\ baseline <= upper /\ capacity >= baseline - step0 =>
    /\ result <= capacity
    /\ result + step1 > capacity \/ result + step0 > upper
=============================================================================
