---------------------------- MODULE TestAllProofs ----------------------------
(***************************************************************************)
(* Proofs about the search for the highest rate and about the tests around *)
(* it, for every configuration of positive numbers and every service.      *)
(*                                                                         *)
(* The types and NeverUnthrottled are inductive together.  NotWorse needs  *)
(* to know where the second phase starts: no lower than what the first one *)
(* found.  SteadyExact needs what a phase leaves behind: the rate tried    *)
(* next is one step above the last that passed, and a limit below the      *)
(* configured one is a rate that failed.                                   *)
(***************************************************************************)
EXTENDS TestAll, FiniteSetTheorems, TLAPS

Rates == TypeOK /\ NeverUnthrottled

\* Every type is kept and every rate tried is positive (doBatchBench).
LEMMA RatesInvariant == Spec => []Rates
<1> USE DEF Positive
<1>1. Init => Rates
  BY MaxQpsAssumption DEF Init, Rates, TypeOK, NeverUnthrottled
<1>2. Rates /\ [Next]_vars => Rates'
  <2> SUFFICES ASSUME Rates, [Next]_vars PROVE Rates'
    OBVIOUS
  <2> USE DEF Rates, TypeOK, NeverUnthrottled
  <2>1. CASE Passes
    BY <2>1 DEF Passes, Tries, Step, config
  <2>2. CASE Fails
    BY <2>2 DEF Fails, Tries, Step, Leave, StartRate, Result, config
  <2>3. CASE Exhausted
    BY <2>3 DEF Exhausted, Leave, StartRate, Result, config
  <2>4. CASE UNCHANGED vars
    BY <2>4 DEF vars, config
  <2> QED
    BY <2>1, <2>2, <2>3, <2>4 DEF Next
<1> QED
  BY <1>1, <1>2, PTL DEF Spec

\* The types of TestMaxQps' variables; no rate above qps_upper is returned.
THEOREM TypeCorrect == Spec => []TypeOK
<1>1. Rates => TypeOK
  BY DEF Rates
<1> QED
  BY <1>1, RatesInvariant, PTL

\* The reset between the phases keeps every benchmark limited (TestMaxQps).
THEOREM Throttled == Spec => []NeverUnthrottled
<1>1. Rates => NeverUnthrottled
  BY DEF Rates
<1> QED
  BY <1>1, RatesInvariant, PTL

-----------------------------------------------------------------------------
\* What the first phase found is known from the rate it left behind.
Progress ==
  /\ phase = 0 => valid = 0 \/ valid = qps_limit - step0
  /\ phase = 0 /\ valid = 0 => qps_limit = baseline
  /\ phase = 1 /\ valid = 0 => qps_limit >= summary0
  /\ phase = 1 /\ valid # 0 => valid >= summary0 /\ valid = qps_limit - step1
  /\ NotWorse

\* The second phase starts no lower than the rate the first one found
\* (doBatchBench).
LEMMA ProgressInvariant == Spec => []Progress
<1> USE DEF Positive, Rates, TypeOK, NeverUnthrottled
<1>1. Init => Progress
  BY MaxQpsAssumption DEF Init, Progress, NotWorse
<1>2. Progress /\ Rates /\ [Next]_vars => Progress'
  <2> SUFFICES ASSUME Progress, Rates, [Next]_vars PROVE Progress'
    OBVIOUS
  <2> USE DEF Progress, NotWorse
  <2>1. CASE Passes
    BY <2>1 DEF Passes, Tries, Step, config
  <2>2. CASE Fails
    BY <2>2 DEF Fails, Tries, Step, Leave, StartRate, Result, config
  <2>3. CASE Exhausted
    BY <2>3 DEF Exhausted, Leave, StartRate, Result, config
  <2>4. CASE UNCHANGED vars
    BY <2>4 DEF vars, config
  <2> QED
    BY <2>1, <2>2, <2>3, <2>4 DEF Next
<1> QED
  BY <1>1, <1>2, RatesInvariant, PTL DEF Spec

\* The result is no lower than what the first phase found, whatever the
\* service does (TestMaxQps).
THEOREM NeverWorse == Spec => []NotWorse
<1>1. Progress => NotWorse
  BY DEF Progress
<1> QED
  BY <1>1, ProgressInvariant, PTL

-----------------------------------------------------------------------------
\* The premise of SteadyExact, and what holds under it during the search: what
\* passed is within the capacity, and the limit fell to a rate that failed.
Measurable == steady /\ baseline <= upper /\ capacity >= baseline - step0

Exactness ==
  Measurable =>
    /\ valid <= capacity /\ summary0 <= capacity
    /\ qps_max < upper => qps_max > capacity
    /\ phase = 0 => qps_max = upper
    /\ phase = 1 =>
         \/ qps_max > capacity /\ valid = 0 /\ qps_limit = step1 /\ summary0 = 0
         \/ qps_max > capacity /\ valid = 0 /\ qps_limit <= capacity
         \/ qps_max > capacity /\ valid # 0
         \/ qps_max = upper /\ summary0 + step0 > upper /\ qps_limit > upper /\ valid = 0
    /\ SteadyExact

\* A steady service is measured to a step1, or to a step0 below the upper
\* limit (TestMaxQps).
THEOREM Exact == Spec => []SteadyExact
<1> USE DEF Positive, Rates, TypeOK, NeverUnthrottled, Measurable
<1>1. Init => Exactness
  BY MaxQpsAssumption DEF Init, Exactness, SteadyExact
<1>2. Exactness /\ Progress /\ Rates /\ [Next]_vars => Exactness'
  <2> SUFFICES ASSUME Exactness, Progress, Rates, [Next]_vars PROVE Exactness'
    OBVIOUS
  <2> USE DEF Exactness, Progress, SteadyExact
  <2>1. CASE Passes
    BY <2>1 DEF Passes, Tries, Step, config
  <2>2. CASE Fails
    BY <2>2 DEF Fails, Tries, Step, Leave, StartRate, Result, config
  <2>3. CASE Exhausted
    BY <2>3 DEF Exhausted, Leave, StartRate, Result, config
  <2>4. CASE UNCHANGED vars
    BY <2>4 DEF vars, config
  <2> QED
    BY <2>1, <2>2, <2>3, <2>4 DEF Next
<1>3. Exactness => SteadyExact
  BY DEF Exactness, SteadyExact
<1> QED
  BY <1>1, <1>2, <1>3, RatesInvariant, ProgressInvariant, PTL DEF Spec

-----------------------------------------------------------------------------
(* The tests *)

\* The search within TestAll is the one above: the other tests leave it alone
\* (TestAll, TestMaxQpsCalcStat).
THEOREM ImplementsSearch == TestSpec => Spec
<1>1. TestInit => Init
  BY DEF TestInit
<1>2. [TestNext]_testVars => [Next]_vars
  BY DEF TestNext, Returns, Hangs, testVars, Setup, TestResult, Search, TestMaxQps,
         TestResponseTime, TestStability
<1> QED
  BY <1>1, <1>2, PTL DEF TestSpec, Spec

\* What is proved of the search holds of it within TestAll.
THEOREM TestsSearch == TestSpec => [](TypeOK /\ NeverUnthrottled /\ NotWorse /\ SteadyExact)
BY ImplementsSearch, TypeCorrect, Throttled, NeverWorse, Exact, PTL

-----------------------------------------------------------------------------
(* Summaries *)

\* What every summary of a benchmark has: its average is that of the successes
\* unless none was compared (Summary, calculateStatsWorker).
LEMMA SummaryShape ==
  ASSUME NEW counts, NEW selections, NEW score, NEW s \in Summaries(counts, selections, score)
  PROVE  /\ ~s.interupted => s.completed \in counts
         /\ \E n \in counts : s.succeeded \in 0..n
         /\ s.succeeded <= s.completed
         /\ s.success = PerMille(s.succeeded, s.completed)
         /\ s.average = NaN \/ s.average = score
         /\ ~emptyRef => ~s.interupted
         /\ ~emptyRef => \/ s.average = score
                         \/ \E selection \in selections : Compared(s.succeeded, selection) = {}
<1>1. s \in Numbered(counts, score)
  BY DEF Summaries
<1>2. /\ s.completed \in counts \/ s.interupted
      /\ s.succeeded <= s.completed
      /\ s.average = NaN /\ ~emptyRef =>
           \E selection \in selections : Compared(s.succeeded, selection) = {}
  BY DEF Summaries
<1>3. ~emptyRef => ~s.interupted
  BY <1>1 DEF Numbered
<1>4. ~s.interupted => s.completed \in counts
  BY <1>2, Zenon
<1>5. s.average = NaN \/ s.average = score
  BY <1>1 DEF Numbered
<1>6. ~emptyRef => \/ s.average = score
                   \/ \E selection \in selections : Compared(s.succeeded, selection) = {}
  BY <1>2, <1>5
<1>7. /\ s.success = PerMille(s.succeeded, s.completed)
      /\ \E m \in counts : s.succeeded \in 0..m
  BY <1>1 DEF Numbered
<1> QED
  BY <1>2, <1>3, <1>4, <1>5, <1>6, <1>7

\* Enough answers in a row hold one that is selected (RandomSelect).
LEMMA EnoughCompared ==
  ASSUME SamplePercent * SampleStep >= 100,
         NEW n \in Nat, NEW selection \in Selections, Compared(n, selection) = {}
  PROVE  n < SampleStep
<1> SUFFICES ASSUME n >= SampleStep PROVE FALSE
  BY ComparatorAssumption
<1>1. (SamplePercent * SampleStep) \div 100 >= 1
  <2> DEFINE x == SamplePercent * SampleStep
  <2>1. x \in Nat /\ x >= 100
    BY ComparatorAssumption
  <2> HIDE DEF x
  <2>2. x \div 100 >= 1
    BY <2>1
  <2> QED
    BY <2>2 DEF x
<1>2. selection \subseteq 0..SampleStep - 1 /\ Cardinality(selection) # 0
  BY <1>1 DEF Selections, kSubset
<1>3. PICK i : i \in selection
  BY <1>2, FS_EmptySet
<1>4. i \in 0..n - 1 /\ i % SampleStep = i
  <2>1. i \in Nat /\ i < SampleStep /\ SampleStep \in Nat \ {0}
    BY <1>2, <1>3, ComparatorAssumption
  <2>2. i % SampleStep = i
    BY <2>1
  <2> QED
    BY <2>1, <2>2
<1> QED
  BY <1>3, <1>4 DEF Compared

\* Everything is compared (SearchServiceComparatorAll).
LEMMA AllCompared ==
  ASSUME NEW n \in Nat, Compared(n, 0..SampleStep - 1) = {}
  PROVE  n = 0
<1> SUFFICES ASSUME n > 0 PROVE FALSE
  OBVIOUS
<1>1. 0 \in 0..n - 1 /\ 0 % SampleStep = 0 /\ 0 \in 0..SampleStep - 1
  BY ComparatorAssumption
<1> QED
  BY <1>1 DEF Compared

\* The scores there are (Compare).
LEMMA ScoreRange ==
  Score(resp, ref) \subseteq {0, 50, 80, 100}
BY DEF Score

\* A benchmark completes what it was asked, but for a few (LossBounded).
LEMMA WaitedRange ==
  ASSUME NEW asked \in Nat, NEW clients \in Nat, NEW n \in Waited(asked, clients)
  PROVE  n \in 0..asked /\ n >= asked - clients
BY DEF Waited

-----------------------------------------------------------------------------
(* What the tests leave behind *)

\* The configured numbers, without the setups.
LEMMA Numbers ==
  /\ ResultTh \in Nat /\ ResultTh \in 1..100
  /\ Duration \in Nat \ {0}
  /\ LoadPercent \in Nat /\ LoadPercent \in 1..100
  /\ Late \in Nat
  /\ SuccessTh \in Nat \ {0}
  /\ Second \in Nat \ {0} /\ Shortest \in Nat \ {0} /\ Longest \in Nat \ {0}
<1>1. /\ ResultTh \in 1..100 /\ Duration \in Nat \ {0} /\ LoadPercent \in 1..100 /\ Late \in Nat
      /\ SuccessTh \in 1..1000 /\ {Second, Shortest, Longest} \subseteq Nat \ {0}
  BY Zenon, TestAssumption
<1>2. (\A n \in 1..100 : n \in Nat) /\ \A n \in 1..1000 : n \in Nat \ {0}
  OBVIOUS
<1> QED BY <1>1, <1>2

\* Division rounds down.
LEMMA DivBounds ==
  ASSUME NEW c \in Nat, NEW d \in Nat \ {0}
  PROVE  /\ c \div d \in Nat
         /\ (c \div d) * d <= c
         /\ c < (c \div d + 1) * d
OBVIOUS

\* A positive factor keeps the order.
LEMMA Cancel ==
  ASSUME NEW q \in Int, NEW r \in Int, NEW d \in Nat \ {0}
  PROVE  q * d <= r * d <=> q <= r
OBVIOUS

\* No factor of either sign, and none that is not negative, turns the order.
LEMMA Scale ==
  ASSUME NEW a \in Int, NEW b \in Int, NEW d \in Nat, a <= b
  PROVE  d * a <= d * b /\ a * d <= b * d
OBVIOUS

\* A run that is not refused has enough successes (success_request_percent).
LEMMA MostSucceeded ==
  ASSUME NEW n \in Nat, NEW k \in Nat, ~Less(PerMille(k, n), SuccessTh)
  PROVE  SuccessTh * n <= 1000 * k
<1>1. SuccessTh \in Nat /\ 1000 * k \in Nat
  BY Numbers
<1>2. CASE n = 0
  BY <1>1, <1>2
<1>3. CASE n # 0
  <2> DEFINE q == (1000 * k) \div n
  <2>1. q \in Nat /\ q * n <= 1000 * k
    BY <1>1, <1>3, DivBounds
  <2>2. SuccessTh <= q
    BY <1>1, <1>3, <2>1 DEF PerMille, Less, NaN
  <2> HIDE DEF q
  <2>3. SuccessTh * n <= q * n
    BY <1>1, <2>1, <2>2, Scale
  <2> QED
    BY <1>1, <2>1, <2>3
<1> QED BY <1>2, <1>3

\* A test with fewer successes than a round of the sample asked for few.
LEMMA FewSucceeded ==
  ASSUME NEW asked \in Nat, NEW lost \in Nat, NEW n \in Nat, n >= asked - lost,
         NEW k \in Nat, k < SampleStep, SuccessTh * n <= 1000 * k
  PROVE  Few(asked, lost)
<1>1. SuccessTh \in Nat /\ SampleStep \in Nat
  BY Numbers, ComparatorAssumption
<1>2. SuccessTh * (asked - lost) <= SuccessTh * n
  BY <1>1, Scale
<1>3. SuccessTh * (asked - lost) \in Int /\ SuccessTh * n \in Int
  BY <1>1
<1> QED BY <1>1, <1>2, <1>3 DEF Few

\* The rate of k successes in some time, between those of the longest and of the
\* shortest (RunBenchmark).
LEMMA RateBounds ==
  ASSUME NEW k \in Nat, NEW time \in Shortest..Longest,
         NEW q, q = (k * Second) \div time
  PROVE  q \in Nat /\ q * Shortest <= k * Second /\ k * Second < (q + 1) * Longest
<1>1. /\ Second \in Nat /\ Shortest \in Nat \ {0} /\ Longest \in Nat \ {0}
      /\ time \in Nat \ {0} /\ Shortest <= time /\ time <= Longest
  BY Numbers
<1> DEFINE x == k * Second
<1>2. x \in Nat
  BY <1>1
<1> HIDE DEF x
<1>3. q \in Nat /\ q * time <= x /\ x < (q + 1) * time
  BY <1>1, <1>2, DivBounds DEF x
<1>4. q * Shortest <= q * time /\ (q + 1) * time <= (q + 1) * Longest
  BY <1>1, <1>3, Scale
<1>5. /\ q * Shortest \in Int /\ q * time \in Int
      /\ (q + 1) * time \in Int /\ (q + 1) * Longest \in Int
  BY <1>1, <1>3
<1>6. q * Shortest <= x /\ x < (q + 1) * Longest
  BY <1>2, <1>3, <1>4, <1>5
<1> QED BY <1>3, <1>6 DEF x

World ==
  /\ {cases, threads, sample_num, accurate} \subseteq Nat
  /\ emptyRef \in BOOLEAN

\* The tests there are, the order in which they pass, and the search before and
\* after its test.
Course ==
  /\ stage \in {"setup", "result", "search", "response", "stability", "done", "stuck"}
  /\ stage \in {"setup", "result"} => phase = 0
  /\ phase # 2 => result = 0
  /\ passed \subseteq {"result", "search", "response", "stability"}
  /\ measured \subseteq passed
  /\ "search" \in passed => phase = 2 /\ stage \in {"response", "stability", "done", "stuck"}
  /\ stage \in {"response", "stability"} => "search" \in passed
  /\ stage = "stability" => "response" \in passed
  /\ "response" \in passed => "search" \in passed
  /\ "stability" \in passed => stage = "done"

Scored ==
  /\ result_score \in {NaN, 0, 50, 80, 100}
  /\ response_time_score \in {0, 25, 100}
  /\ service_score \in {0, 100}
  /\ response_time_score # 0 => "search" \in passed
  /\ service_score # 0 => "response" \in passed

\* The rate found: all but the late answers of its benchmark were completed, and
\* most of them successes, so that the rate reported is no less than those in the
\* longest time, and no more than all in the shortest.
Rated ==
  /\ max_qps \in Nat
  /\ max_qps * Shortest <= upper * Duration * Second
  /\ "search" \in passed =>
       SuccessTh * (result * Duration - Late) * Second < 1000 * (max_qps + 1) * Longest

Ordered == TypeOK /\ World /\ Course

\* The tests pass in their order (TestAll).
LEMMA CourseInvariant == TestSpec => []Ordered
<1>1. TestInit => World /\ Course
  <2> SUFFICES ASSUME TestInit PROVE World /\ Course
    OBVIOUS
  <2>1. PICK s \in Setups : /\ emptyRef = s.emptyRef
                            /\ cases = s.cases
                            /\ threads = s.threads
                            /\ sample_num = s.sample_num
                            /\ accurate = s.accurate
    BY DEF TestInit
  <2>2. World
    BY <2>1, TestAssumption DEF World
  <2> QED
    BY <2>2 DEF TestInit, Init, Course
<1>2. World /\ Course /\ TypeOK /\ [TestNext]_testVars => (World /\ Course)'
  <2> SUFFICES ASSUME World, Course, TypeOK, [TestNext]_testVars PROVE (World /\ Course)'
    OBVIOUS
  <2> USE DEF World, Course, world, Ends, Goes
  <2>1. CASE Setup
    BY <2>1 DEF Setup, vars
  <2>2. CASE TestResult
    BY <2>2 DEF TestResult, vars
  <2>3. CASE Search
    <3>1. phase \in 0..2
      BY DEF TypeOK
    <3> QED
      BY <2>3, <3>1 DEF Search, Next, Passes, Fails, Exhausted, Tries, Leave, config
  <2>4. CASE TestMaxQps
    BY <2>4 DEF TestMaxQps, vars
  <2>5. CASE TestResponseTime
    BY <2>5 DEF TestResponseTime, vars
  <2>6. CASE TestStability
    BY <2>6 DEF TestStability, vars
  <2>7. CASE Hangs
    BY <2>7 DEF Hangs, vars
  <2>8. CASE UNCHANGED testVars
    BY <2>8 DEF testVars, vars
  <2> QED
    BY <2>1, <2>2, <2>3, <2>4, <2>5, <2>6, <2>7, <2>8 DEF TestNext, Returns
<1> QED
  BY <1>1, <1>2, TestsSearch, PTL DEF TestSpec, Ordered

\* A steady service is judged at the rate found.
WellAnswered == \A score \in Score(resp, ref) : score >= ResultTh

Judged ==
  steady =>
    /\ "search" \in measured => result \in 1..accurate
    /\ stage = "done" /\ ~emptyRef /\ WellAnswered /\ "search" \notin passed =>
         result = 0 \/ result > accurate

LeftBehind == Scored /\ Rated /\ Judged /\ MeasuredUnlessFew

\* What the search took its summary from: a benchmark at the rate found, in which
\* all but the late answers were completed, most of them successes (TestMaxQps).
LEMMA SearchedShape ==
  ASSUME TypeOK, World, result # 0, NEW s \in SearchedSummaries
  PROVE  /\ ~Unsuccessful(s)
         /\ s.succeeded \in Nat /\ s.succeeded <= result * Duration
         /\ ~s.interupted => /\ s.completed \in Nat
                            /\ s.completed >= result * Duration - Late
                            /\ SuccessTh * s.completed <= 1000 * s.succeeded
         /\ \E score \in ScoresAt(result) : s.average = NaN \/ s.average = score
         /\ ~emptyRef => ~s.interupted
         /\ ~emptyRef => \/ s.average # NaN
                         \/ \E selection \in Selections : Compared(s.succeeded, selection) = {}
<1>1. PICK score \in ScoresAt(result) :
        s \in {t \in Summaries(Timed(result * Duration), Selections, score) :
                 ~Unsuccessful(t) /\ ~Less(t.average, 1)}
  BY DEF SearchedSummaries
<1>2. s \in Summaries(Timed(result * Duration), Selections, score) /\ ~Unsuccessful(s)
  BY <1>1
<1>3. result * Duration \in Nat /\ result * Duration # 0
  BY Numbers DEF TypeOK
<1>4. /\ s.succeeded \in 0..result * Duration
      /\ ~s.interupted => s.completed \in Nat /\ s.completed >= result * Duration - Late
  <2> DEFINE asked == result * Duration
  <2>1. /\ ~s.interupted => s.completed \in Timed(asked)
        /\ \E n \in Timed(asked) : s.succeeded \in 0..n
    BY <1>2, SummaryShape
  <2>2. asked \in Nat /\ asked # 0
    BY <1>3
  <2> HIDE DEF asked
  <2>3. Timed(asked) = Waited(asked, Late)
    BY <2>2 DEF Timed
  <2>4. \A n \in Timed(asked) : n \in 0..asked /\ n >= asked - Late
    BY <2>2, <2>3, WaitedRange, Numbers
  <2>5. s.succeeded \in 0..asked
    <3>1. PICK n \in Timed(asked) : s.succeeded \in 0..n
      BY <2>1
    <3>2. n \in 0..asked
      BY <2>4
    <3> QED
      BY <2>2, <3>1, <3>2
  <2>6. ~s.interupted => s.completed \in Nat /\ s.completed >= asked - Late
    BY <2>1, <2>2, <2>4
  <2> QED
    BY <2>5, <2>6 DEF asked
<1>5. score # NaN
  BY ScoreRange, Numbers DEF ScoresAt, NaN, Poor
<1>6. /\ s.average = NaN \/ s.average = score
      /\ ~emptyRef => ~s.interupted
      /\ ~emptyRef => \/ s.average = score
                      \/ \E selection \in Selections : Compared(s.succeeded, selection) = {}
      /\ s.success = PerMille(s.succeeded, s.completed)
  BY <1>2, SummaryShape
<1>7. s.succeeded \in Nat /\ s.succeeded <= result * Duration
  BY <1>3, <1>4
<1>8. ~s.interupted => SuccessTh * s.completed <= 1000 * s.succeeded
  BY <1>2, <1>4, <1>6, <1>7, MostSucceeded DEF Unsuccessful
<1> QED
  BY <1>2, <1>4, <1>5, <1>6, <1>7, <1>8

\* The rate such a benchmark is reported with (RunBenchmark, TestMaxQpsCalcStat).
LEMMA RateReported ==
  ASSUME TypeOK, World, result # 0, NEW s \in SearchedSummaries,
         NEW time \in Shortest..Longest, NEW q, q = (s.succeeded * Second) \div time
  PROVE  /\ q \in Nat
         /\ q * Shortest <= upper * Duration * Second
         /\ ~s.interupted =>
              SuccessTh * (result * Duration - Late) * Second < 1000 * (q + 1) * Longest
<1> DEFINE k == s.succeeded
           n == s.completed
           asked == result * Duration
           most == upper * Duration
<1>1. /\ k \in Nat /\ k <= asked
      /\ ~s.interupted => n \in Nat /\ n >= asked - Late /\ SuccessTh * n <= 1000 * k
  BY SearchedShape
<1>2. q \in Nat /\ q * Shortest <= k * Second /\ k * Second < (q + 1) * Longest
  BY <1>1, RateBounds
<1>3. /\ SuccessTh \in Nat /\ Second \in Nat /\ Shortest \in Nat /\ Longest \in Nat
      /\ Late \in Nat
  BY Numbers
<1>4. asked \in Nat /\ most \in Nat /\ asked <= most
  <2>1. /\ result \in Nat /\ upper \in Nat /\ result <= upper /\ Duration \in Nat
    BY Numbers DEF TypeOK, Positive
  <2> QED BY <2>1, Scale
<1> HIDE DEF k, n, asked, most
<1>5. q * Shortest <= most * Second
  <2>1. k * Second <= most * Second
    <3>1. k <= most
      BY <1>1, <1>4
    <3> QED BY <1>1, <1>3, <1>4, <3>1, Scale
  <2>2. q * Shortest \in Int /\ k * Second \in Int /\ most * Second \in Int
    BY <1>1, <1>2, <1>3, <1>4
  <2> QED BY <1>2, <2>1, <2>2
<1>6. ASSUME ~s.interupted
      PROVE  SuccessTh * (asked - Late) * Second < 1000 * (q + 1) * Longest
  <2> DEFINE a == SuccessTh * (asked - Late)
             b == k * Second
             c == (q + 1) * Longest
  <2>1. a \in Int /\ SuccessTh * n \in Int /\ a <= SuccessTh * n
    BY <1>1, <1>3, <1>4, <1>6, Scale
  <2>2. a <= 1000 * k
    BY <1>1, <1>6, <2>1
  <2>3. a * Second <= (1000 * k) * Second
    BY <1>1, <1>3, <2>1, <2>2, Scale
  <2>4. (1000 * k) * Second = 1000 * b /\ b \in Nat
    BY <1>1, <1>3
  <2>5. 1000 * (q + 1) * Longest = 1000 * c /\ c \in Nat
    BY <1>2, <1>3
  <2>6. b < c
    BY <1>2
  <2> HIDE DEF a, b, c
  <2>7. a * Second \in Int
    BY <1>3, <2>1
  <2>8. a * Second < 1000 * c
    BY <2>3, <2>4, <2>5, <2>6, <2>7
  <2> QED BY <2>5, <2>8 DEF a
<1> QED BY <1>2, <1>5, <1>6 DEF asked, most

\* A test under load that passes without an answer compared asked for few
\* (SearchServiceComparatorSample).
LEMMA LoadShape ==
  ASSUME NEW asked \in Nat, NEW lost \in Nat,
         NEW counts, \A n \in counts : n \in Nat /\ n >= asked - lost,
         NEW score \in Score(resp, ref) \cup {Poor},
         NEW s \in Summaries(counts, Selections, score), ~Unsuccessful(s),
         SamplePercent * SampleStep >= 100, ~emptyRef, s.average = NaN
  PROVE  Few(asked, lost)
<1>1. score # NaN
  BY ScoreRange, Numbers DEF NaN, Poor
<1>2. PICK selection \in Selections : Compared(s.succeeded, selection) = {}
  BY <1>1, SummaryShape
<1>3. s.completed \in Nat /\ s.completed >= asked - lost
  <2>1. ~s.interupted
    BY SummaryShape
  <2> QED
    BY <2>1, SummaryShape
<1>4. s.succeeded \in Nat
  <2>1. PICK n \in counts : s.succeeded \in 0..n
    BY SummaryShape
  <2> QED BY <2>1
<1>5. s.succeeded < SampleStep
  BY <1>2, <1>4, EnoughCompared
<1>6. SuccessTh * s.completed <= 1000 * s.succeeded
  BY <1>3, <1>4, SummaryShape, MostSucceeded DEF Unsuccessful
<1> QED
  BY <1>3, <1>4, <1>5, <1>6, FewSucceeded

\* A step that passes no test and leaves the world, the rates and the summaries
\* of the tests alone keeps what they left behind.
LEMMA NothingPassed ==
  ASSUME LeftBehind, UNCHANGED <<world, upper, steady, max_qps, passed, measured>>,
         UNCHANGED result \/ "search" \notin passed, Ordered,
         Scored', Judged'
  PROVE  LeftBehind'
<1>1. Rated'
  BY DEF LeftBehind, Rated
<1>2. MeasuredUnlessFew'
  BY DEF LeftBehind, MeasuredUnlessFew, world, AskedOf, Ordered, Course
<1> QED
  BY <1>1, <1>2 DEF LeftBehind

\* TestResulCalcStat passes without a comparison only if it asked for no more
\* than the clients may lose.
LEMMA ResultStep == LeftBehind /\ Ordered /\ TestResult => LeftBehind'
<1> SUFFICES ASSUME LeftBehind, Ordered, TestResult PROVE LeftBehind'
  OBVIOUS
<1> USE DEF world
<1>1. PICK score \in Score(resp, ref) :
      \E s \in IF threads = 0 THEN {NoSummary}
               ELSE Summaries(Waited(sample_num, threads), Everything, score) :
        \/ Unsuccessful(s) /\ result_score' = 0 /\ Ends /\ UNCHANGED <<passed, measured>>
        \/ /\ ~Unsuccessful(s)
           /\ result_score' = s.average
           /\ IF Less(s.average, ResultTh) THEN Ends /\ UNCHANGED <<passed, measured>>
              ELSE Goes("search", s)
  BY DEF TestResult
<1>2. PICK s \in IF threads = 0 THEN {NoSummary}
                 ELSE Summaries(Waited(sample_num, threads), Everything, score) :
        \/ Unsuccessful(s) /\ result_score' = 0 /\ Ends /\ UNCHANGED <<passed, measured>>
        \/ /\ ~Unsuccessful(s)
           /\ result_score' = s.average
           /\ IF Less(s.average, ResultTh) THEN Ends /\ UNCHANGED <<passed, measured>>
              ELSE Goes("search", s)
  BY <1>1
<1>3. /\ stage = "result"
      /\ UNCHANGED <<vars, world, response_time_score, service_score, max_qps>>
  BY DEF TestResult
<1>4. result = 0 /\ "search" \notin passed /\ "response" \notin passed
  BY <1>3 DEF Ordered, Course
<1>5. s.average \in {NaN, 0, 50, 80, 100}
  BY <1>2, SummaryShape, ScoreRange DEF NoSummary
<1>6. Scored'
  BY <1>2, <1>3, <1>4, <1>5 DEF LeftBehind, Scored, Goes
<1>7. Judged' /\ Rated'
  <2>1. "search" \notin passed'
    BY <1>2, <1>3, <1>4 DEF Goes
  <2>2. measured' \subseteq passed'
    BY <1>2 DEF Goes, Ordered, Course
  <2> QED
    BY <1>3, <1>4, <2>1, <2>2 DEF LeftBehind, Judged, Rated, vars, config
<1>8. MeasuredUnlessFew'
  <2>1. CASE UNCHANGED <<passed, measured>>
    BY <1>3, <2>1 DEF LeftBehind, MeasuredUnlessFew, vars, AskedOf
  <2>2. CASE Goes("search", s) /\ ~Unsuccessful(s)
    <3>1. ASSUME SamplePercent * SampleStep >= 100, ~emptyRef, s.average = NaN
          PROVE  sample_num <= threads
      <4>1. threads # 0
        <5>1. Unsuccessful(NoSummary)
          BY Numbers DEF Unsuccessful, NoSummary, Less, NaN
        <5> QED BY <1>2, <2>2, <5>1
      <4>2. /\ sample_num \in Nat /\ threads \in Nat
            /\ s \in Summaries(Waited(sample_num, threads), Everything, score)
        BY <1>2, <4>1 DEF Ordered, World
      <4>3. s.completed \in Waited(sample_num, threads)
        <5>1. ~s.interupted
          BY <3>1, <4>2, SummaryShape
        <5> QED
          BY <4>2, <5>1, SummaryShape
      <4>4. s.completed \in Nat /\ s.completed >= sample_num - threads
        BY <4>2, <4>3, WaitedRange
      <4>5. score # NaN
        BY ScoreRange DEF NaN
      <4>6. Compared(s.succeeded, 0..SampleStep - 1) = {}
        <5>1. PICK selection \in Everything :
                s.average = score \/ Compared(s.succeeded, selection) = {}
          <6>1. s \in Summaries(Waited(sample_num, threads), Everything, score)
            BY <4>2
          <6>2. ~emptyRef => \/ s.average = score
                            \/ \E selection \in Everything : Compared(s.succeeded, selection) = {}
            BY <6>1, SummaryShape
          <6>3. Everything # {}
            BY DEF Everything
          <6> QED
            BY <3>1, <6>2, <6>3
        <5> QED
          BY <3>1, <4>5, <5>1 DEF Everything
      <4>7. s.succeeded = 0
        <5>1. PICK n \in Waited(sample_num, threads) : s.succeeded \in 0..n
          BY <4>2, SummaryShape
        <5>2. s.succeeded \in Nat
          BY <4>2, <5>1, WaitedRange
        <5> QED
          BY <4>6, <5>2, AllCompared
      <4>8. s.completed = 0
        <5>1. SuccessTh * s.completed <= 1000 * s.succeeded
          BY <2>2, <4>2, <4>4, <4>7, SummaryShape, MostSucceeded DEF Unsuccessful
        <5> QED
          BY <4>4, <4>7, <5>1, Numbers
      <4> QED
        BY <4>2, <4>4, <4>8
    <3>2. passed' \ measured' \subseteq
            (passed \ measured) \cup {test \in {"result"} : s.average = NaN}
      BY <1>3, <2>2 DEF Goes
    <3> QED
      BY <1>3, <3>1, <3>2 DEF LeftBehind, MeasuredUnlessFew, vars, AskedOf
  <2> QED
    BY <1>2, <2>1, <2>2
<1> QED
  BY <1>6, <1>7, <1>8 DEF LeftBehind

\* TestMaxQpsCalcStat judges the rate found by a benchmark at that rate.
LEMMA MaxQpsStep == LeftBehind /\ Ordered /\ TestMaxQps => LeftBehind'
<1> SUFFICES ASSUME LeftBehind, Ordered, TestMaxQps PROVE LeftBehind'
  OBVIOUS
<1> USE DEF world
<1>1. PICK s \in SearchedSummaries :
        \/ /\ s.interupted \/ Unsuccessful(s)
           /\ max_qps' = 0
           /\ Ends
           /\ UNCHANGED <<passed, measured>>
        \/ /\ ~(s.interupted \/ Unsuccessful(s))
           /\ max_qps' \in {(s.succeeded * Second) \div time : time \in Shortest..Longest}
           /\ IF Less(s.average, ResultTh) THEN Ends /\ UNCHANGED <<passed, measured>>
              ELSE Goes("response", s)
  BY DEF TestMaxQps
<1>2. stage = "search" /\ UNCHANGED <<vars, world, scores>>
  BY DEF TestMaxQps
<1>3. "search" \notin passed /\ "response" \notin passed /\ "search" \notin measured
  BY <1>2 DEF Ordered, Course
<1>4. result \in Nat /\ Duration \in Nat \ {0}
  BY Numbers DEF Ordered, TypeOK
<1>5. ASSUME result = 0
      PROVE  UNCHANGED <<passed, measured>> /\ max_qps' = 0
  <2>1. s = NoSummary
    BY <1>5 DEF SearchedSummaries
  <2>2. Unsuccessful(s)
    BY <2>1, Numbers DEF Unsuccessful, NoSummary, Less, NaN
  <2> QED
    BY <1>1, <2>2
<1>6. ASSUME result # 0
      PROVE  /\ ~Unsuccessful(s)
             /\ s.succeeded \in Nat /\ s.succeeded <= result * Duration
             /\ ~s.interupted => /\ s.completed \in Nat
                                /\ s.completed >= result * Duration - Late
                                /\ SuccessTh * s.completed <= 1000 * s.succeeded
             /\ \E score \in ScoresAt(result) : s.average = NaN \/ s.average = score
             /\ ~emptyRef => ~s.interupted
             /\ ~emptyRef => \/ s.average # NaN
                             \/ \E selection \in Selections : Compared(s.succeeded, selection) = {}
  <2>1. TypeOK /\ World
    BY DEF Ordered
  <2>2. result # 0
    BY <1>6
  <2> QED BY <2>1, <2>2, SearchedShape, Zenon
<1>7. Scored'
  BY <1>1, <1>2, <1>3 DEF LeftBehind, Scored, Goes, scores
<1>8. Rated'
  <2> SUFFICES /\ max_qps' \in Nat
               /\ max_qps' * Shortest <= upper * Duration * Second
               /\ "search" \in passed' =>
                    SuccessTh * (result * Duration - Late) * Second < 1000 * (max_qps' + 1) * Longest
    BY <1>2 DEF Rated, vars, config
  <2>1. CASE max_qps' = 0 /\ "search" \notin passed'
    <3>1. upper * Duration * Second \in Nat /\ Shortest \in Nat
      <4>1. upper \in Nat /\ Duration \in Nat /\ Second \in Nat /\ Shortest \in Nat
        BY Numbers DEF Ordered, TypeOK, Positive
      <4> QED BY <4>1
    <3>2. 0 * Shortest = 0
      BY <3>1
    <3> QED BY <2>1, <3>1, <3>2
  <2>2. CASE ~(max_qps' = 0 /\ "search" \notin passed')
    <3>1. result # 0
      BY <1>3, <1>5, <2>2
    <3>2. ~s.interupted /\ \E time \in Shortest..Longest :
                              max_qps' = (s.succeeded * Second) \div time
      BY <1>1, <1>3, <2>2
    <3> QED
      BY <3>1, <3>2, RateReported DEF Ordered
  <2> QED
    BY <2>1, <2>2
<1>9. Judged'
  <2> USE DEF Less
  <2>1. CASE result = 0
    BY <1>2, <1>3, <1>5, <2>1 DEF Judged, vars
  <2>2. CASE result # 0
    <3>1. PICK score \in ScoresAt(result) : s.average = NaN \/ s.average = score
      BY <1>6, <2>2
    <3>2. /\ accurate \in Nat /\ ResultTh \in Nat /\ ResultTh >= 1
          /\ Score(resp, ref) \subseteq Nat
      BY ScoreRange, Numbers DEF Ordered, World
    <3>7. score \in Nat
      BY <3>1, <3>2 DEF ScoresAt, Poor
    <3>3. steady /\ result > accurate => score < ResultTh /\ score # NaN
      BY <1>4, <3>1, <3>2 DEF ScoresAt, Poor, NaN
    <3>4. steady /\ result <= accurate /\ WellAnswered => score >= ResultTh
      BY <1>4, <3>1, <3>2 DEF ScoresAt, WellAnswered
    <3>5. ASSUME "search" \in measured', steady PROVE result \in 1..accurate
      <4>1. Goes("response", s) /\ ~Less(s.average, ResultTh)
        BY <1>1, <1>3, <3>5
      <4>2. s.average # NaN
        BY <1>3, <3>5, <4>1 DEF Goes
      <4> QED
        BY <1>4, <2>2, <3>1, <3>2, <3>3, <3>5, <4>1, <4>2
    <3>6. ASSUME "search" \notin passed', steady, ~emptyRef, WellAnswered
          PROVE  result > accurate
      <4>1. ~s.interupted /\ ~Unsuccessful(s)
        BY <1>6, <2>2, <3>6
      <4>2. Less(s.average, ResultTh)
        BY <1>1, <1>2, <3>6, <4>1 DEF Goes
      <4> QED
        BY <1>4, <3>1, <3>2, <3>4, <3>6, <3>7, <4>2
    <3>8. WellAnswered' = WellAnswered
      BY <1>2 DEF WellAnswered, Score
    <3>9. UNCHANGED <<result, accurate, steady, emptyRef>>
      BY <1>2 DEF vars, config
    <3> QED
      BY <3>5, <3>6, <3>8, <3>9, Zenon DEF Judged
  <2> QED
    BY <2>1, <2>2
<1>10. MeasuredUnlessFew'
  <2>1. CASE UNCHANGED <<passed, measured>>
    <3>1. passed \ measured \subseteq {"result"}
      BY <1>2 DEF Ordered, Course
    <3> QED
      BY <1>2, <2>1, <3>1 DEF LeftBehind, MeasuredUnlessFew
  <2>2. CASE Goes("response", s)
    <3>1. ASSUME SamplePercent * SampleStep >= 100, ~emptyRef, s.average = NaN
          PROVE  Few(result * Duration, Late)
      <4>1. result # 0
        BY <1>3, <1>5, <2>2, <1>2 DEF Goes
      <4>2. /\ s.completed \in Nat /\ s.completed >= result * Duration - Late
            /\ s.succeeded \in Nat /\ SuccessTh * s.completed <= 1000 * s.succeeded
        BY <1>6, <3>1, <4>1
      <4>3. PICK selection \in Selections : Compared(s.succeeded, selection) = {}
        BY <1>6, <3>1, <4>1
      <4>4. s.succeeded < SampleStep
        BY <3>1, <4>2, <4>3, EnoughCompared
      <4>5. result * Duration \in Nat /\ Late \in Nat
        BY <1>4, Numbers
      <4> QED
        BY <4>2, <4>4, <4>5, FewSucceeded
    <3>2. passed' \ measured' \subseteq
            {"result"} \cup {test \in {"search"} : s.average = NaN}
      BY <1>2, <2>2 DEF Goes, Ordered, Course
    <3>3. "result" \in passed' \ measured' => "result" \in passed \ measured
      BY <1>2, <2>2 DEF Goes
    <3> QED
      BY <1>2, <3>1, <3>2, <3>3 DEF LeftBehind, MeasuredUnlessFew, vars
  <2> QED
    BY <1>1, <2>1, <2>2
<1> QED
  BY <1>7, <1>8, <1>9, <1>10 DEF LeftBehind

\* TestResponseTimeCalcStat asks each case once, of which it may lose one.
LEMMA ResponseStep == LeftBehind /\ Ordered /\ TestResponseTime => LeftBehind'
<1> SUFFICES ASSUME LeftBehind, Ordered, TestResponseTime PROVE LeftBehind'
  OBVIOUS
<1> USE DEF world
<1>1. PICK score \in Score(resp, ref) \cup {Poor} :
      \E s \in Summaries(Waited(cases, 1), Selections, score) :
        \/ ~Fine(s) /\ response_time_score' = 0 /\ Ends /\ UNCHANGED <<passed, measured>>
        \/ /\ Fine(s)
           /\ response_time_score' \in IF s.succeeded = 0 THEN {100} ELSE {0, 25}
           /\ Goes("stability", s)
  BY DEF TestResponseTime
<1>2. PICK s \in Summaries(Waited(cases, 1), Selections, score) :
        \/ ~Fine(s) /\ response_time_score' = 0 /\ Ends /\ UNCHANGED <<passed, measured>>
        \/ /\ ~Unsuccessful(s)
           /\ response_time_score' \in {0, 25, 100}
           /\ Goes("stability", s)
  BY <1>1 DEF Fine
<1>3. stage = "response" /\ UNCHANGED <<vars, world, result_score, service_score, max_qps>>
  BY DEF TestResponseTime
<1>4. "search" \in passed /\ measured \subseteq passed
  BY <1>3 DEF Ordered, Course
<1>5. Scored'
  BY <1>2, <1>3, <1>4 DEF LeftBehind, Scored, Goes
<1>6. Rated'
  BY <1>3, <1>4 DEF LeftBehind, Rated, vars, config
<1>7. Judged'
  <2>1. /\ "search" \in passed'
        /\ "search" \in measured' => "search" \in measured
    BY <1>2, <1>3, <1>4 DEF Goes
  <2>2. UNCHANGED <<result, accurate, steady>>
    BY <1>3 DEF vars, config
  <2> QED
    BY <2>1, <2>2 DEF LeftBehind, Judged
<1>8. MeasuredUnlessFew'
  <2>1. ASSUME SamplePercent * SampleStep >= 100, ~emptyRef, s.average = NaN, ~Unsuccessful(s)
        PROVE  Few(cases, 1)
    <3>1. cases \in Nat
      BY DEF Ordered, World
    <3>2. \A n \in Waited(cases, 1) : n \in Nat /\ n >= cases - 1
      BY <3>1, WaitedRange
    <3> QED
      BY <2>1, <3>1, <3>2, LoadShape
  <2>2. passed' \ measured' \subseteq
          (passed \ measured) \cup {test \in {"response"} : s.average = NaN /\ ~Unsuccessful(s)}
    BY <1>2, <1>3 DEF Goes
  <2> QED
    BY <1>3, <2>1, <2>2 DEF LeftBehind, MeasuredUnlessFew, vars, AskedOf
<1> QED
  BY <1>5, <1>6, <1>7, <1>8 DEF LeftBehind

\* TestServiceStabilityCalcStat has late answers, too.
LEMMA StabilityStep == LeftBehind /\ Ordered /\ TestStability => LeftBehind'
<1> SUFFICES ASSUME LeftBehind, Ordered, TestStability PROVE LeftBehind'
  OBVIOUS
<1> USE DEF world
<1>1. PICK score \in Score(resp, ref) \cup {Poor} :
      \E s \in Summaries(Timed(AskedOf(max_qps)), Selections, score) :
        \/ ~Fine(s) /\ service_score' = 0 /\ Ends /\ UNCHANGED <<passed, measured>>
        \/ Fine(s) /\ service_score' = 100 /\ Goes("done", s)
  BY DEF TestStability
<1>2. PICK s \in Summaries(Timed(AskedOf(max_qps)), Selections, score) :
        \/ ~Fine(s) /\ service_score' = 0 /\ Ends /\ UNCHANGED <<passed, measured>>
        \/ ~Unsuccessful(s) /\ service_score' = 100 /\ Goes("done", s)
  BY <1>1 DEF Fine
<1>3. stage = "stability" /\ UNCHANGED <<vars, world, result_score, response_time_score, max_qps>>
  BY DEF TestStability
<1>4. "search" \in passed /\ "response" \in passed /\ measured \subseteq passed
  BY <1>3 DEF Ordered, Course
<1>5. Scored'
  BY <1>2, <1>3, <1>4 DEF LeftBehind, Scored, Goes
<1>6. Rated'
  BY <1>3, <1>4 DEF LeftBehind, Rated, vars, config
<1>7. Judged'
  <2>1. /\ "search" \in passed'
        /\ "search" \in measured' => "search" \in measured
    BY <1>2, <1>3, <1>4 DEF Goes
  <2>2. UNCHANGED <<result, accurate, steady>>
    BY <1>3 DEF vars, config
  <2> QED
    BY <2>1, <2>2 DEF LeftBehind, Judged
<1>8. MeasuredUnlessFew'
  <2> DEFINE asked == AskedOf(max_qps)
  <2>1. asked \in Nat
    <3>1. LoadPercent * max_qps * Duration \in Nat
      <4>1. LoadPercent \in Nat /\ Duration \in Nat
        BY Numbers
      <4>2. max_qps \in Nat
        BY DEF LeftBehind, Rated
      <4> QED BY <4>1, <4>2
    <3> QED
      BY <3>1, DivBounds DEF AskedOf
  <2> HIDE DEF asked
  <2>2. ASSUME SamplePercent * SampleStep >= 100, ~emptyRef, s.average = NaN, ~Unsuccessful(s)
        PROVE  Few(asked, Late)
    <3>1. Late \in Nat /\ SampleStep \in Nat
      BY ComparatorAssumption, Numbers
    <3>2. \A n \in Timed(asked) : n \in Nat /\ n >= asked - Late
      <4>1. CASE asked = 0
        BY <3>1, <4>1 DEF Timed
      <4>2. CASE asked # 0
        BY <2>1, <3>1, <4>2, WaitedRange DEF Timed
      <4> QED BY <4>1, <4>2
    <3>3. s \in Summaries(Timed(asked), Selections, score)
      BY DEF asked
    <3> QED
      BY <2>1, <2>2, <3>1, <3>2, <3>3, LoadShape
  <2>3. passed' \ measured' \subseteq
          (passed \ measured) \cup {test \in {"stability"} : s.average = NaN /\ ~Unsuccessful(s)}
    BY <1>2, <1>3 DEF Goes
  <2>4. max_qps' = max_qps
    BY <1>3
  <2> QED
    BY <1>3, <2>2, <2>3, <2>4 DEF LeftBehind, MeasuredUnlessFew, vars, AskedOf, asked
<1> QED
  BY <1>5, <1>6, <1>7, <1>8 DEF LeftBehind

\* What the tests leave behind holds in every state (TestAll).
LEMMA LeftBehindInvariant == TestSpec => [](Ordered /\ LeftBehind)
<1>1. TestInit => LeftBehind
  <2> SUFFICES ASSUME TestInit PROVE LeftBehind
    OBVIOUS
  <2>1. max_qps = 0 /\ passed = {} /\ measured = {} /\ stage = "setup"
    BY DEF TestInit
  <2>2. upper * Duration * Second \in Nat /\ 0 * Shortest = 0
    <3>1. upper \in Nat /\ Duration \in Nat /\ Second \in Nat /\ Shortest \in Nat
      BY Numbers, MaxQpsAssumption DEF TestInit, Init, Positive
    <3> QED BY <3>1
  <2>3. Rated
    BY <2>1, <2>2 DEF Rated
  <2>4. Scored /\ Judged /\ MeasuredUnlessFew
    BY <2>1 DEF TestInit, Scored, Judged, MeasuredUnlessFew
  <2> QED BY <2>3, <2>4 DEF LeftBehind
<1>2. LeftBehind /\ Ordered /\ [TestNext]_testVars => LeftBehind'
  <2> SUFFICES ASSUME LeftBehind, Ordered, [TestNext]_testVars PROVE LeftBehind'
    OBVIOUS
  <2>1. CASE Setup
    <3>1. /\ stage = "setup"
          /\ UNCHANGED <<vars, world, scores, max_qps, passed, measured>>
      BY <2>1 DEF Setup
    <3>2. result = 0 /\ "search" \notin passed /\ measured \subseteq passed
      BY <3>1 DEF Ordered, Course
    <3>3. Scored' /\ Judged'
      BY <3>1, <3>2 DEF LeftBehind, Scored, Judged, scores, vars
    <3> QED
      BY <3>1, <3>3, NothingPassed DEF vars, config
  <2>2. CASE Search
    <3>1. /\ stage = "search" /\ stage' = stage
          /\ UNCHANGED <<config, world, scores, max_qps, passed, measured>>
      BY <2>2 DEF Search, Next, Passes, Fails, Exhausted
    <3>2. "search" \notin passed /\ measured \subseteq passed
      BY <3>1 DEF Ordered, Course
    <3>3. Scored' /\ Judged'
      BY <3>1, <3>2 DEF LeftBehind, Scored, Judged, scores
    <3> QED
      BY <3>1, <3>2, <3>3, NothingPassed DEF config
  <2>3. CASE Hangs
    <3>1. /\ stage # "done" /\ stage' = "stuck"
          /\ UNCHANGED <<vars, world, scores, max_qps, passed, measured>>
      BY <2>3 DEF Hangs
    <3>2. Scored' /\ Judged'
      BY <3>1 DEF LeftBehind, Scored, Judged, scores, vars, config, world
    <3> QED
      BY <3>1, <3>2, NothingPassed DEF vars, config
  <2>4. CASE UNCHANGED testVars
    <3>1. UNCHANGED <<vars, world, stage, scores, max_qps, passed, measured>>
      BY <2>4 DEF testVars
    <3>2. Scored'
      BY <3>1 DEF LeftBehind, Scored, scores
    <3>3. WellAnswered' = WellAnswered
      BY <3>1 DEF WellAnswered, Score, world
    <3>4. UNCHANGED <<result, accurate, steady, emptyRef>>
      BY <3>1 DEF vars, config, world
    <3>5. Judged'
      BY <3>1, <3>3, <3>4, Zenon DEF LeftBehind, Judged
    <3> QED
      BY <3>1, <3>2, <3>5, NothingPassed DEF vars, config
  <2> QED
    BY <2>1, <2>2, <2>3, <2>4, ResultStep, MaxQpsStep, ResponseStep, StabilityStep
    DEF TestNext, Returns
<1> QED
  BY <1>1, <1>2, CourseInvariant, PTL DEF TestSpec

-----------------------------------------------------------------------------
\* The types of TestAll's variables; a score is that of a test that was reached.
THEOREM TestTypeCorrect == TestSpec => []TestTypeOK
<1>1. Ordered /\ LeftBehind => TestTypeOK
  <2> SUFFICES ASSUME Ordered, LeftBehind PROVE TestTypeOK
    OBVIOUS
  <2> QED
    BY DEF Ordered, LeftBehind, Course, Scored, Rated, TestTypeOK, TypeOK
<1> QED
  BY <1>1, LeftBehindInvariant, PTL

\* A steady service is judged at the rate found, for every scale of the rates
\* and every threshold (TestMaxQps, TestMaxQpsCalcStat).
THEOREM JudgedAtCapacity == TestSpec => []CapacityScored
<1>1. Ordered /\ LeftBehind => CapacityScored
  BY DEF LeftBehind, Judged, WellAnswered, CapacityScored
<1> QED
  BY <1>1, LeftBehindInvariant, PTL

\* Only a test that asked for few passes without a comparison (IsLess, the four
\* CalcStat functions).
THEOREM MeasuredOrFew == TestSpec => []MeasuredUnlessFew
<1>1. Ordered /\ LeftBehind => MeasuredUnlessFew
  BY DEF LeftBehind
<1> QED
  BY <1>1, LeftBehindInvariant, PTL

\* The stability test floods a service only if the rate found was low
\* (TestServiceStabilityScore).
THEOREM FloodedIfLow == TestSpec => []NeverFlooded
<1>1. Ordered /\ LeftBehind => NeverFlooded
  <2> SUFFICES ASSUME Ordered, LeftBehind, stage = "stability", LoadOf(max_qps) = 0
               PROVE  SuccessTh * (result * Duration - Late) * Second
                        < 1000 * (100 \div LoadPercent + 1) * Longest
    BY DEF NeverFlooded
  <2> DEFINE k == 100 \div LoadPercent
  <2>1. /\ max_qps \in Nat /\ result \in Nat
        /\ SuccessTh * (result * Duration - Late) * Second < 1000 * (max_qps + 1) * Longest
        /\ LoadPercent \in Nat \ {0} /\ Longest \in Nat
    BY Numbers DEF Ordered, Course, TypeOK, LeftBehind, Rated
  <2>2. k \in Nat /\ 100 < (k + 1) * LoadPercent
    BY <2>1, DivBounds
  <2>3. max_qps * LoadPercent < 100
    <3>1. LoadPercent * max_qps \in Nat /\ LoadPercent * max_qps = max_qps * LoadPercent
      BY <2>1
    <3>2. LoadPercent * max_qps < ((LoadPercent * max_qps) \div 100 + 1) * 100
      BY <3>1, DivBounds
    <3> QED
      BY <3>1, <3>2 DEF LoadOf
  <2> HIDE DEF k
  <2>4. max_qps <= k
    <3>1. /\ max_qps * LoadPercent \in Int /\ (k + 1) * LoadPercent \in Int
          /\ max_qps * LoadPercent < (k + 1) * LoadPercent
      BY <2>1, <2>2, <2>3
    <3>2. ~((k + 1) * LoadPercent <= max_qps * LoadPercent)
      BY <3>1
    <3>3. ~(k + 1 <= max_qps)
      BY <2>1, <2>2, <3>2, Cancel
    <3> QED
      BY <2>1, <2>2, <3>3
  <2>5. 1000 * (max_qps + 1) * Longest <= 1000 * (k + 1) * Longest
    <3>1. /\ 1000 * (max_qps + 1) \in Int /\ 1000 * (k + 1) \in Int
          /\ 1000 * (max_qps + 1) <= 1000 * (k + 1)
      BY <2>1, <2>2, <2>4
    <3> QED
      BY <2>1, <3>1, Scale
  <2>6. /\ SuccessTh * (result * Duration - Late) * Second \in Int
        /\ 1000 * (max_qps + 1) * Longest \in Int /\ 1000 * (k + 1) * Longest \in Int
    <3>1. /\ SuccessTh \in Int /\ Duration \in Int /\ Late \in Int /\ Second \in Int
      BY Numbers
    <3> QED BY <2>1, <2>2, <3>1
  <2>7. SuccessTh * (result * Duration - Late) * Second < 1000 * (k + 1) * Longest
    BY <2>1, <2>5, <2>6
  <2> QED
    BY <2>7 DEF k
<1> QED
  BY <1>1, LeftBehindInvariant, PTL

-----------------------------------------------------------------------------
(* The correctness score *)

\* The first ads of one list are those of the other in some order.
Renumbered(s, t, n) ==
  \E f \in [1..n -> 1..n] :
    /\ {f[i] : i \in 1..n} = 1..n
    /\ \A i \in 1..n : s[f[i]] = t[i]

\* Where x occurs among the first.
Places(s, x, n) == {j \in 1..n : s[j] = x}

LEMMA FirstPlaces ==
  ASSUME NEW n \in Nat, NEW s, NEW x
  PROVE  /\ IsFiniteSet(1..n) /\ IsFiniteSet(Places(s, x, n)) /\ Places(s, x, n) \subseteq 1..n
<1>1. IsFiniteSet(1..n)
  BY FS_Interval
<1>2. Places(s, x, n) \subseteq 1..n
  BY DEF Places
<1> QED BY <1>1, <1>2, FS_Subset

\* Lists with each ad as often can be renumbered, the places of each ad by
\* themselves (std::is_permutation).
LEMMA PermutedIsRenumbered ==
  ASSUME NEW n \in Nat, NEW s, NEW t, Permuted(s, t, n)
  PROVE  Renumbered(s, t, n)
<1> DEFINE g(x) == CHOOSE b \in Bijection(Places(t, x, n), Places(s, x, n)) : TRUE
           f == [i \in 1..n |-> g(t[i])[i]]
<1>1. ASSUME NEW i \in 1..n
      PROVE  g(t[i]) \in Bijection(Places(t, t[i], n), Places(s, t[i], n))
  <2>1. Cardinality(Places(t, t[i], n)) = Cardinality(Places(s, t[i], n))
    BY DEF Permuted, Places
  <2>2. ExistsBijection(Places(t, t[i], n), Places(s, t[i], n))
    BY <2>1, FirstPlaces, FS_SameCardinalityBij
  <2> QED BY <2>2 DEF ExistsBijection
<1> HIDE DEF g
<1>2. ASSUME NEW i \in 1..n PROVE f[i] \in 1..n /\ s[f[i]] = t[i]
  <2>1. i \in Places(t, t[i], n)
    BY DEF Places
  <2>2. f[i] \in Places(s, t[i], n)
    BY <1>1, <2>1 DEF Bijection, Injection
  <2> QED BY <2>2 DEF Places
<1>3. ASSUME NEW i \in 1..n, NEW j \in 1..n, f[i] = f[j] PROVE i = j
  <2>1. t[i] = t[j]
    BY <1>2, <1>3
  <2>2. g(t[i]) = g(t[j]) /\ g(t[i])[i] = g(t[i])[j]
    BY <1>3, <2>1
  <2>3. i \in Places(t, t[i], n) /\ j \in Places(t, t[i], n)
    BY <2>1 DEF Places
  <2>4. g(t[i]) \in Bijection(Places(t, t[i], n), Places(s, t[i], n))
    BY <1>1
  <2> QED BY <2>2, <2>3, <2>4 DEF Bijection, Injection, IsInjective
<1> HIDE DEF f
<1>4. f \in [1..n -> 1..n]
  BY <1>2 DEF f
<1>5. f \in Injection(1..n, 1..n)
  BY <1>3, <1>4 DEF Injection, IsInjective
<1>6. f \in Surjection(1..n, 1..n)
  BY <1>5, FirstPlaces, FS_Injection
<1>7. {f[i] : i \in 1..n} = 1..n
  BY <1>4, <1>6 DEF Surjection
<1> QED BY <1>2, <1>4, <1>7 DEF Renumbered

LEMMA RenumberedIsPermuted ==
  ASSUME NEW n \in Nat, NEW s, NEW t, Renumbered(s, t, n)
  PROVE  Permuted(s, t, n)
<1>1. PICK f \in [1..n -> 1..n] :
        {f[i] : i \in 1..n} = 1..n /\ \A i \in 1..n : s[f[i]] = t[i]
  BY DEF Renumbered
<1>2. f \in Surjection(1..n, 1..n)
  BY <1>1 DEF Surjection
<1>3. \A i, j \in 1..n : f[i] = f[j] => i = j
  <2>1. f \in Injection(1..n, 1..n)
    BY <1>2, FirstPlaces, FS_SurjSameCardinalityImpliesInj
  <2> QED BY <2>1 DEF Injection, IsInjective
<1>4. ASSUME NEW x PROVE Cardinality(Places(s, x, n)) = Cardinality(Places(t, x, n))
  <2> DEFINE g == [i \in Places(t, x, n) |-> f[i]]
  <2>1. g \in [Places(t, x, n) -> Places(s, x, n)]
    BY <1>1 DEF Places
  <2>2. g \in Injection(Places(t, x, n), Places(s, x, n))
    BY <1>3, <2>1 DEF Injection, IsInjective, Places
  <2>3. \A j \in Places(s, x, n) : \E i \in Places(t, x, n) : g[i] = j
    <3> TAKE j \in Places(s, x, n)
    <3>1. j \in 1..n /\ s[j] = x
      BY DEF Places
    <3>2. PICK i \in 1..n : f[i] = j
      <4>1. j \in {f[i] : i \in 1..n}
        BY <1>1, <3>1
      <4> QED BY <4>1
    <3>3. i \in Places(t, x, n)
      BY <1>1, <3>1, <3>2 DEF Places
    <3> QED BY <3>2, <3>3
  <2>4. g \in Surjection(Places(t, x, n), Places(s, x, n))
    BY <2>1, <2>3 DEF Surjection
  <2>5. ExistsBijection(Places(t, x, n), Places(s, x, n))
    BY <2>2, <2>4 DEF ExistsBijection, Bijection
  <2> QED BY <2>5, FirstPlaces, FS_Bijection
<1> QED BY <1>4 DEF Permuted, Places

Answers == [ids : Seq(Nat), prices : Seq(Nat)]

\* What is looked at is part of the reference.
LEMMA NeededRange ==
  ASSUME NEW correct \in Answers
  PROVE  Needed(correct) \in Nat /\ Needed(correct) <= Len(correct.ids)
<1> DEFINE l == Len(correct.ids)
           x == AccuracyPercent * l
<1>1. l \in Nat /\ AccuracyPercent \in 0..100
  BY ComparatorAssumption DEF Answers
<1> HIDE DEF l
<1>2. x \in Nat /\ x <= 100 * l
  BY <1>1, Z3
<1>3. Needed(correct) = (x + 99) \div 100
  BY DEF Needed, l
<1> HIDE DEF x
<1>4. (x + 99) \div 100 \in Nat /\ (x + 99) \div 100 <= l
  BY <1>1, <1>2
<1> QED BY <1>3, <1>4 DEF l

LEMMA SameBeginning ==
  ASSUME NEW n \in Nat, NEW s \in Seq(Nat), NEW t \in Seq(Nat), n <= Len(s), n <= Len(t)
  PROVE  SubSeq(s, 1, n) = SubSeq(t, 1, n) <=> SameOrder(s, t, n)
<1>1. /\ SubSeq(s, 1, n) = [i \in 1..n |-> s[i]]
      /\ SubSeq(t, 1, n) = [i \in 1..n |-> t[i]]
  OBVIOUS
<1> QED BY <1>1 DEF SameOrder

\* Compare gives the score of the rule, and no other (Compare).
LEMMA ScoreIsRule ==
  ASSUME NEW answer \in Answers, NEW correct \in Answers,
         Len(answer.prices) >= Len(answer.ids), Len(correct.prices) >= Len(correct.ids)
  PROVE  Score(answer, correct) = {RuleScore(answer, correct)}
<1> DEFINE n == Needed(correct)
           long == Len(answer.ids) >= n
           inOrder == long /\ SameOrder(answer.ids, correct.ids, n)
           permuted == long /\ Permuted(answer.ids, correct.ids, n)
           same == SameOrder(answer.prices, correct.prices, n)
<1>1. n \in Nat /\ n <= Len(correct.ids)
  BY NeededRange
<1>2. /\ answer.ids \in Seq(Nat) /\ answer.prices \in Seq(Nat)
      /\ correct.ids \in Seq(Nat) /\ correct.prices \in Seq(Nat)
      /\ Len(answer.ids) \in Nat /\ Len(answer.prices) \in Nat
      /\ Len(correct.ids) \in Nat /\ Len(correct.prices) \in Nat
  BY DEF Answers
<1>3. long => PricesAgree(answer, correct, n) = {same}
  <2> SUFFICES ASSUME long PROVE PricesAgree(answer, correct, n) = {same}
    OBVIOUS
  <2> DEFINE T == {n, Len(answer.prices), Len(correct.prices)}
             read == Min(T)
  <2>1. n <= Len(answer.prices) /\ n <= Len(correct.prices)
    <3>1. Len(answer.ids) >= n
      OBVIOUS
    <3>2. /\ Len(answer.ids) \in Nat /\ Len(answer.prices) \in Nat
          /\ Len(correct.ids) \in Nat /\ Len(correct.prices) \in Nat
      BY <1>2
    <3> HIDE DEF n
    <3> QED BY <1>1, <3>1, <3>2, SMTT(30)
  <2>2. read = n
    <3> HIDE DEF n
    <3>1. n \in T /\ (\A m \in T : n <= m) /\ \A m \in T : m \in Nat
      BY <1>1, <1>2, <2>1
    <3>2. read = CHOOSE x \in T : \A m \in T : x <= m
      BY DEF Min
    <3> HIDE DEF T, read
    <3>3. read \in T /\ \A m \in T : read <= m
      BY <3>1, <3>2
    <3>4. read \in Nat /\ n \in Nat /\ read <= n /\ n <= read
      BY <3>1, <3>3
    <3> QED BY <3>4
  <2>3. PricesAgree(answer, correct, n) =
          IF n <= Len(answer.prices) /\ n <= Len(correct.prices)
          THEN {SameOrder(answer.prices, correct.prices, read)}
          ELSE {FALSE, SameOrder(answer.prices, correct.prices, read)}
    BY DEF PricesAgree
  <2> HIDE DEF T, read, n
  <2> QED BY <2>1, <2>2, <2>3
<1>4. Permuted(answer.ids, correct.ids, n) <=> Renumbered(answer.ids, correct.ids, n)
  <2> HIDE DEF n
  <2> QED BY <1>1, PermutedIsRenumbered, RenumberedIsPermuted
<1>5. inOrder => permuted
  BY DEF SameOrder, Permuted
<1>6. RuleScore(answer, correct) =
        (IF permuted THEN 50 ELSE 0) + (IF inOrder THEN 30 ELSE 0)
           + (IF inOrder /\ same THEN 20 ELSE 0)
  <2> DEFINE ads == long /\ Renumbered(answer.ids, correct.ids, n)
             order == ads /\ SubSeq(answer.ids, 1, n) = SubSeq(correct.ids, 1, n)
             prices == order /\ SubSeq(answer.prices, 1, n) = SubSeq(correct.prices, 1, n)
  <2>1. RuleScore(answer, correct) =
          (IF ads THEN 50 ELSE 0) + (IF order THEN 30 ELSE 0) + (IF prices THEN 20 ELSE 0)
    BY DEF RuleScore, Renumbered
  <2>2. ads <=> permuted
    BY <1>4
  <2>3. order <=> inOrder
    <3>1. long => (SubSeq(answer.ids, 1, n) = SubSeq(correct.ids, 1, n)
                     <=> SameOrder(answer.ids, correct.ids, n))
      BY <1>1, <1>2, SameBeginning
    <3> QED BY <1>5, <2>2, <3>1
  <2>4. prices <=> inOrder /\ same
    <3>1. long => n <= Len(answer.prices) /\ n <= Len(correct.prices)
      <4> HIDE DEF n
      <4> QED BY <1>1, <1>2
    <3>2. long => (SubSeq(answer.prices, 1, n) = SubSeq(correct.prices, 1, n) <=> same)
      BY <1>1, <1>2, <3>1, SameBeginning
    <3> QED BY <2>3, <3>2
  <2> HIDE DEF ads, order, prices, inOrder, permuted, same
  <2> QED BY <2>1, <2>2, <2>3, <2>4
<1>7. Score(answer, correct) =
        {x \in {0, 50, 80, 100} :
           \/ x = 100 /\ inOrder /\ same
           \/ x = 80 /\ inOrder /\ ~same
           \/ x = 50 /\ ~inOrder /\ permuted
           \/ x = 0 /\ ~permuted}
  <2>1. Score(answer, correct) =
          {x \in {0, 50, 80, 100} :
             \/ x = 100 /\ inOrder /\ TRUE \in PricesAgree(answer, correct, n)
             \/ x = 80 /\ inOrder /\ FALSE \in PricesAgree(answer, correct, n)
             \/ x = 50 /\ ~inOrder /\ permuted
             \/ x = 0 /\ ~permuted}
    BY DEF Score
  <2>2. same \in BOOLEAN
    BY DEF SameOrder
  <2>3. inOrder => (TRUE \in PricesAgree(answer, correct, n) <=> same)
                   /\ (FALSE \in PricesAgree(answer, correct, n) <=> ~same)
    BY <1>3, <2>2
  <2> HIDE DEF inOrder, permuted, same, n
  <2> QED BY <2>1, <2>3
<1> HIDE DEF inOrder, permuted, same
<1> QED BY <1>5, <1>6, <1>7

\* The score kept is that of the answer, or none.
Ruled ==
  /\ resp \in Answers /\ ref \in Answers
  /\ stage \in {"setup", "result"} => result_score = 0
  /\ result_score \in {NaN, 0} \cup Score(resp, ref)
  /\ "result" \in passed => result_score # 0
  /\ stage \in {"setup", "result"} => "result" \notin passed

\* No test but the first touches the correctness score.
LEMMA RuledInvariant == TestSpec => []Ruled
<1>1. TestInit => Ruled
  <2> SUFFICES ASSUME TestInit PROVE Ruled
    OBVIOUS
  <2>1. PICK s \in Setups : resp = s.resp /\ ref = s.ref
    BY DEF TestInit
  <2>2. resp \in Answers /\ ref \in Answers
    BY <2>1, TestAssumption DEF Answers
  <2> QED BY <2>2 DEF TestInit, Ruled
<1>2. Ruled /\ [TestNext]_testVars => Ruled'
  <2> SUFFICES ASSUME Ruled, [TestNext]_testVars PROVE Ruled'
    OBVIOUS
  <2>1. resp' = resp /\ ref' = ref
    BY DEF TestNext, Returns, Hangs, testVars, world, Setup, TestResult, Search, TestMaxQps,
           TestResponseTime, TestStability
  <2>2. Score(resp, ref)' = Score(resp, ref)
    BY <2>1
  <2>3. CASE TestResult
    <3> DEFINE Summary(score) ==
                 IF threads = 0 THEN {NoSummary}
                 ELSE Summaries(Waited(sample_num, threads), Everything, score)
               Outcome(s) ==
                 \/ result_score' = 0 /\ Ends /\ UNCHANGED passed
                 \/ /\ result_score' = s.average
                    /\ IF Less(s.average, ResultTh) THEN Ends /\ UNCHANGED passed
                       ELSE Goes("search", s)
    <3>p. PICK score \in Score(resp, ref) : \E s \in Summary(score) : Outcome(s)
      BY <2>3 DEF TestResult
    <3>1. PICK s \in Summary(score) : Outcome(s)
      BY <3>p
    <3>2. s.average \in {NaN, score}
      <4>1. CASE threads = 0
        BY <4>1 DEF NoSummary
      <4>2. CASE threads # 0
        BY <4>2, SummaryShape
      <4> QED BY <4>1, <4>2
    <3>3. stage = "result" /\ stage' # "result" /\ stage' # "setup" /\ "result" \notin passed
      BY <2>3, <3>1 DEF TestResult, Ends, Goes, Ruled
    <3>4. result_score' \in {NaN, 0} \cup Score(resp, ref)
      BY <3>1, <3>2
    <3>5. "result" \in passed' => result_score' = s.average /\ ~Less(s.average, ResultTh)
      BY <3>1, <3>3 DEF Ends
    <3>6. ~Less(s.average, ResultTh) => s.average # 0
      BY Numbers DEF Less, NaN
    <3> QED BY <2>1, <2>2, <3>3, <3>4, <3>5, <3>6 DEF Ruled
  <2>4. ASSUME Setup \/ Search \/ TestMaxQps \/ TestResponseTime \/ TestStability
                \/ Hangs \/ UNCHANGED testVars
        PROVE  /\ result_score' = result_score
               /\ stage' \in {"setup", "result"} => stage \in {"setup", "result"}
               /\ "result" \in passed' => "result" \in passed
    BY <2>4 DEF testVars, scores, Setup, Search, TestMaxQps, TestResponseTime, TestStability,
                Hangs, Ends, Goes
  <2> QED BY <2>1, <2>2, <2>3, <2>4 DEF TestNext, Returns, Ruled
<1> QED BY <1>1, <1>2, PTL DEF TestSpec

\* The correctness score is the contest's for every answer, every reference with
\* a price for each of its ads, and every threshold (Compare, TestResulCalcStat).
THEOREM ScoredByRule == TestSpec => []ScoreByRule
<1>1. Ruled => ScoreByRule
  <2> SUFFICES ASSUME Ruled, Len(resp.prices) >= Len(resp.ids), Len(ref.prices) >= Len(ref.ids)
               PROVE  /\ result_score \in {NaN, 0, RuleScore(resp, ref)}
                      /\ "result" \in passed => result_score # 0
    BY DEF ScoreByRule
  <2>1. Score(resp, ref) = {RuleScore(resp, ref)}
    BY ScoreIsRule DEF Ruled
  <2> QED BY <2>1 DEF Ruled
<1> QED BY <1>1, RuledInvariant, PTL
=============================================================================
