------------------------------- MODULE TestAll -------------------------------
(***************************************************************************)
(* TestAll of the testbench: the answers are scored, then the highest rate *)
(* is searched (MaxQps), then the response time and the stability are      *)
(* tested, and the first test that fails ends it.                          *)
(*                                                                         *)
(* The service answers every test case with resp where ref was expected,   *)
(* and badly above the rate `accurate`.  A benchmark is what its summary   *)
(* shows of it: how many requests were completed, how many of them were    *)
(* successes, and the average score of those that were compared; or it     *)
(* never returns.                                                          *)
(***************************************************************************)
EXTENDS MaxQps, Comparator

CONSTANTS
  Setups,       \* configurations, test cases and services: see TestInit
  ResultTh,     \* final_score_th and sample_score_th
  SuccessTh,    \* kSuccessPercentTh and success_percent_th, of a thousand
  Duration,     \* request_duration_each_iter_sec and test_duration_sec
  LoadPercent,  \* load_percent, of a hundred
  Late,         \* answers still to come when the time of a timed benchmark is up
  Second,       \* the length of a second,
  Shortest,     \* and the least and the most a timed benchmark takes: the first
  Longest       \* token is free, and a thread may be late

ASSUME TestAssumption ==
  /\ ResultTh \in 1..100
  /\ Duration \in Nat \ {0}
  /\ LoadPercent \in 1..100
  /\ Late \in Nat
  /\ SuccessTh \in 1..1000
  /\ {Second, Shortest, Longest} \subseteq Nat \ {0}
  /\ \A s \in Setups : /\ {s.cases, s.threads, s.sample_num, s.accurate} \subseteq Nat
                      /\ s.emptyRef \in BOOLEAN
                      /\ {s.resp, s.ref} \subseteq [ids : Seq(Nat), prices : Seq(Nat)]

VARIABLES
  resp, ref,        \* the answer of the service and the one expected
  emptyRef,         \* whether some test case has a reference without ads
  cases,            \* the number of test cases
  threads,          \* thread_num of the first test, the number of its clients
  sample_num,       \* its number of requests
  accurate,         \* the highest rate at which a steady service answers well
  stage,            \* the test that is next
  result_score, response_time_score, service_score,   \* scores of stat
  max_qps,          \* stat.max_qps, as the int the stability test is given
  passed,           \* history: the tests passed,
  measured          \* and those that passed on answers that were compared

world == <<resp, ref, emptyRef, cases, threads, sample_num, accurate>>
scores == <<result_score, response_time_score, service_score>>
testVars == <<vars, world, stage, scores, max_qps, passed, measured>>

\* The quotient of nothing by nothing, for which every comparison is false.
NaN == -1
Less(a, b) == a # NaN /\ a < b

\* An average that lets a rate pass, and the test that found it fail.
Poor == ResultTh - 1

TestInit ==
  /\ \E s \in Setups :
       /\ baseline = s.search[1] /\ upper = s.search[2]
       /\ step0 = s.search[3] /\ step1 = s.search[4]
       /\ capacity = s.search[5] /\ steady = s.search[6]
       /\ resp = s.resp
       /\ ref = s.ref
       /\ emptyRef = s.emptyRef
       /\ cases = s.cases
       /\ threads = s.threads
       /\ sample_num = s.sample_num
       /\ accurate = s.accurate
  /\ Init
  /\ stage = "setup"
  /\ result_score = 0
  /\ response_time_score = 0
  /\ service_score = 0
  /\ max_qps = 0
  /\ passed = {}
  /\ measured = {}

-----------------------------------------------------------------------------
(* What a benchmark may come to *)

\* success_request_percent is a quotient, too.
PerMille(succeeded, completed) ==
  IF completed = 0 THEN NaN ELSE (1000 * succeeded) \div completed

\* The empty one, of a benchmark without clients or of a search that found no
\* rate: all its numbers are zero, but its averages still quotients of zeros.
NoSummary == [completed |-> 0, succeeded |-> 0, success |-> 0, average |-> NaN, interupted |-> FALSE]

\* A reference without ads ends a run early.
Reached(counts) == IF emptyRef THEN UNION {0..n : n \in counts} ELSE counts

Numbered(counts, score) ==
  {[completed |-> n, succeeded |-> k, success |-> PerMille(k, n), average |-> a, interupted |-> i] :
     n \in Reached(counts), k \in UNION {0..n : n \in counts},
     a \in {NaN, score}, i \in {FALSE, emptyRef}}

\* Some of the successes are selected for comparison.  A reference without ads
\* interrupts, whatever was compared before, unless it is met when all answers
\* have come: the flag may then be raised after the summary was taken.
Summaries(counts, selections, score) ==
  {s \in Numbered(counts, score) :
     /\ s.completed \in counts \/ s.interupted
     /\ s.succeeded <= s.completed
     /\ \E selection \in selections :
          LET none == Compared(s.succeeded, selection) = {}
          IN  IF s.average = NaN THEN none \/ emptyRef ELSE ~none}

\* A benchmark that waits for all loses at most an answer of each client
\* (LossBounded in Benchmark), a timed one those that are late.  Nothing to ask
\* stands for no limit, and any number may be completed then.
Waited(asked, clients) == (IF asked > clients THEN asked - clients ELSE 0)..asked
Timed(asked) == IF asked = 0 THEN 0..SampleStep ELSE Waited(asked, Late)

Everything == {0..SampleStep - 1}

-----------------------------------------------------------------------------
(* The tests *)

Unsuccessful(s) == Less(s.success, SuccessTh)

Ends == stage' = "done"
Goes(to, summary) ==
  /\ stage' = to
  /\ passed' = passed \cup {stage}
  /\ measured' = IF summary.average = NaN THEN measured ELSE measured \cup {stage}

\* SetupSearchService finds no service, or one.
Setup ==
  /\ stage = "setup"
  /\ stage' \in {"result", "done"}
  /\ UNCHANGED <<vars, world, scores, max_qps, passed, measured>>

\* TestResulCalcStat.  An interrupted run is taken like any other.
TestResult ==
  /\ stage = "result"
  /\ \E score \in Score(resp, ref) :
     \E s \in IF threads = 0 THEN {NoSummary}
              ELSE Summaries(Waited(sample_num, threads), Everything, score) :
       \/ /\ Unsuccessful(s)
          /\ result_score' = 0
          /\ Ends
          /\ UNCHANGED <<passed, measured>>
       \/ /\ ~Unsuccessful(s)
          /\ result_score' = s.average
          /\ IF Less(s.average, ResultTh) THEN Ends /\ UNCHANGED <<passed, measured>>
             ELSE Goes("search", s)
  /\ UNCHANGED <<vars, world, response_time_score, service_score, max_qps>>

\* TestMaxQps.
Search ==
  /\ stage = "search"
  /\ Next
  /\ UNCHANGED <<world, stage, scores, max_qps, passed, measured>>

\* The average at a rate: a service that is not steady answers as it likes.
ScoresAt(rate) ==
  {s \in Score(resp, ref) : rate <= accurate \/ ~steady}
    \cup {s \in {Poor} : rate > accurate \/ ~steady}

\* Mutant of SearchedSummaries: a summary of the first rate is taken.
Bug_ScoredAtBaseline ==
  IF result = 0 THEN {NoSummary}
  ELSE UNION {{s \in Summaries(Timed(result * Duration), Selections, score) :
                 ~Unsuccessful(s) /\ ~Less(s.average, 1)} :
              score \in ScoresAt(baseline)}

\* The summary TestMaxQps returned: one that passed, or the empty one.  A rate
\* passes with an average above success_percent_th, which is below 1.
SearchedSummaries ==
  IF result = 0 THEN {NoSummary}
  ELSE UNION {{s \in Summaries(Timed(result * Duration), Selections, score) :
                 ~Unsuccessful(s) /\ ~Less(s.average, 1)} :
              score \in ScoresAt(result)}

\* The rest of TestMaxQpsCalcStat; the rate is that of the successes in the time
\* the benchmark took.
TestMaxQps ==
  /\ stage = "search"
  /\ phase = 2
  /\ \E s \in SearchedSummaries :
       \/ /\ s.interupted \/ Unsuccessful(s)
          /\ max_qps' = 0
          /\ Ends
          /\ UNCHANGED <<passed, measured>>
       \/ /\ ~(s.interupted \/ Unsuccessful(s))
          /\ max_qps' \in {(s.succeeded * Second) \div time : time \in Shortest..Longest}
          /\ IF Less(s.average, ResultTh) THEN Ends /\ UNCHANGED <<passed, measured>>
             ELSE Goes("response", s)
  /\ UNCHANGED <<vars, world, scores>>

\* A test under load passes.
Fine(s) == ~Less(s.average, ResultTh) /\ ~s.interupted /\ ~Unsuccessful(s)

\* TestResponseTimeCalcStat, configured without a duration and for a rate of one
\* client, asks each test case once.  The score is that of the P99, which is zero
\* as long as nothing succeeded.
TestResponseTime ==
  /\ stage = "response"
  /\ \E score \in Score(resp, ref) \cup {Poor} :
     \E s \in Summaries(Waited(cases, 1), Selections, score) :
       \/ ~Fine(s) /\ response_time_score' = 0 /\ Ends /\ UNCHANGED <<passed, measured>>
       \/ /\ Fine(s)
          /\ response_time_score' \in IF s.succeeded = 0 THEN {100} ELSE {0, 25}
          /\ Goes("stability", s)
  /\ UNCHANGED <<vars, world, result_score, service_score, max_qps>>

\* Mutant of LoadOf: the percentage is rounded before the rate is known.
Bug_RoundedLoad(rate) == (LoadPercent \div 100) * rate

\* The rate of the stability test, as the token buckets are given it.
LoadOf(rate) == (LoadPercent * rate) \div 100
\* Its requests come from the rate before it is rounded.
AskedOf(rate) == (LoadPercent * rate * Duration) \div 100

\* TestServiceStabilityCalcStat.
TestStability ==
  /\ stage = "stability"
  /\ \E score \in Score(resp, ref) \cup {Poor} :
     \E s \in Summaries(Timed(AskedOf(max_qps)), Selections, score) :
       \/ ~Fine(s) /\ service_score' = 0 /\ Ends /\ UNCHANGED <<passed, measured>>
       \/ Fine(s) /\ service_score' = 100 /\ Goes("done", s)
  /\ UNCHANGED <<vars, world, result_score, response_time_score, max_qps>>

\* The steps of TestAll; a benchmark that is run in one returns.
Returns ==
  \/ Setup \/ TestResult \/ Search \/ TestMaxQps \/ TestResponseTime \/ TestStability

\* The benchmark of a test never returns: the last notification slips past
\* Summary, or a Close past a thread that is joined (RunEnds in Benchmark).
Hangs ==
  /\ \/ stage = "result" /\ threads # 0
     \/ stage = "search" /\ Tries
     \/ stage \in {"response", "stability"}
  /\ stage' = "stuck"
  /\ UNCHANGED <<vars, world, scores, max_qps, passed, measured>>

TestNext == Returns \/ Hangs

TestSpec == TestInit /\ [][TestNext]_testVars

\* The one thread of TestAll goes on unless a benchmark hangs.
FairTestSpec == TestSpec /\ WF_testVars(Returns)

-----------------------------------------------------------------------------
\* Types of the search and of the statistic.  The rate reported is above
\* qps_upper by no more than what a benchmark that ends early makes of it, and a
\* test that was not reached scores nothing.
TestTypeOK ==
  /\ TypeOK
  /\ stage \in {"setup", "result", "search", "response", "stability", "done", "stuck"}
  /\ result_score \in {NaN, 0, 50, 80, 100}
  /\ response_time_score \in {0, 25, 100}
  /\ service_score \in {0, 100}
  /\ max_qps \in Nat /\ max_qps * Shortest <= upper * Duration * Second
  /\ measured \subseteq passed
  /\ response_time_score # 0 => "search" \in passed
  /\ service_score # 0 => "response" \in passed

\* The correctness score is the contest's: ads, their order and their prices,
\* each on top of the one before, for any answer and any reference with a price
\* for each of its ads (Compare, TestResulCalcStat).
ScoreByRule ==
  /\ stage \notin {"setup", "result"}
  /\ Len(resp.prices) >= Len(resp.ids)
  /\ Len(ref.prices) >= Len(ref.ids)
  => /\ result_score \in {NaN, 0, RuleScore(resp, ref)}
     /\ "result" \in passed => result_score # 0

\* The search takes rates whose answers are poor, so that a steady service is
\* refused exactly when the rate found is one it answers badly at, however well
\* it answers at the rates below (TestMaxQps, TestMaxQpsCalcStat).
CapacityScored ==
  stage = "done" /\ steady /\ ~emptyRef /\ (\A score \in Score(resp, ref) : score >= ResultTh) =>
    /\ "search" \in measured => result \in 1..accurate
    /\ "search" \notin passed => result = 0 \/ result > accurate

\* So few were asked that, with what is lost and what may fail, there is no more
\* than a part of the sample.
Few(asked, lost) == SuccessTh * (asked - lost) < 1000 * SampleStep

\* A service passes a test without a single answer compared only where the test
\* asked for few, or where a test case has no reference: the quotient is none
\* then, and no threshold refuses it (IsLess, the four CalcStat functions).
MeasuredUnlessFew ==
  SamplePercent * SampleStep >= 100 /\ ~emptyRef =>
    \A test \in passed \ measured :
      \/ test = "result" /\ sample_num <= threads
      \/ test = "search" /\ Few(result * Duration, Late)
      \/ test = "response" /\ Few(cases, 1)
      \/ test = "stability" /\ Few(AskedOf(max_qps), Late)

\* The stability test is limited, unless the rate found was so low that its
\* load is rounded to nothing, even if as many answers failed or were late as
\* may and the time was the longest (TestServiceStabilityScore, TokenBucket).
NeverFlooded ==
  stage = "stability" /\ LoadOf(max_qps) = 0 =>
    SuccessTh * (result * Duration - Late) * Second < 1000 * (100 \div LoadPercent + 1) * Longest

\* TestAll ends or hangs in a benchmark: the search for a rate ends, however the
\* service fluctuates, and no other test is repeated (TestAll, TestMaxQps).
TestEnds == <>(stage \in {"done", "stuck"})
=============================================================================
