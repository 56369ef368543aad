--------------------------- MODULE BenchmarkProofs ---------------------------
(***************************************************************************)
(* Proofs about GrpcBenchmark, for any number of clients and requests.     *)
(*                                                                         *)
(* The counters of the benchmark say how many requests are at the steps    *)
(* between the increments and the decrements (Accounts), so that each      *)
(* property becomes a statement about where requests can stand.  Their     *)
(* number changes with a request that moves as MoveCount states.           *)
(***************************************************************************)
EXTENDS Benchmark, FiniteSetTheorems, TLAPS

Stages == {"unsent", "queued", "held", "sent", "refused", "responded", "dropped", "done"}
            \cup InCollector \cup InCalculator

Places == {"requesting", "polling", "testing", "asleep", "summing", "sumsleep",
           "sumasleep", "closing", "reading", "copying", "returned", "joining", "joined"}

Numbers == [completed : Int, outcomes : Int]

\* TypeOK without the bounds of the counters, which follow from Accounts.
Types ==
  /\ <<mode, client>> \in Setups
  /\ main \in Places
  /\ asked \in 0..MaxRequests
  /\ where \in [Requests -> Stages]
  /\ worker \in [Clients -> {"popping", "sending", "gone"}]
  /\ ended \subseteq Clients
  /\ calculator \in {"running", "gone"}
  /\ missed \subseteq Waiters
  /\ enable \in BOOLEAN /\ waited \in BOOLEAN /\ slipped \in BOOLEAN
  /\ pending \in Int
  /\ comparing \in Int
  /\ tally \in Numbers
  /\ reported \in Numbers

\* Every step keeps the types (GrpcBenchmark, RunBenchmark).
LEMMA TypesStep == Types /\ [Next]_vars => Types'
<1> SUFFICES ASSUME Types, [Next]_vars PROVE Types'
  OBVIOUS
<1> USE BenchmarkAssumption
<1> USE DEF Types, driver, threads, counters, result
<1>1. CASE Main
  <2> USE DEF Places, Numbers
  <2>1. CASE Request
    BY <2>1 DEF Request, Move, Requests, Stages
  <2>2. CASE EndRequests
    BY <2>2 DEF EndRequests
  <2>3. CASE WaitAll \/ WaitEnds \/ WaitTimesOut
    <3>1. waited' \in BOOLEAN
      BY <2>3, Zenon DEF WaitAll, WaitEnds, WaitTimesOut, Stop
    <3>2. Stop
      BY <2>3 DEF WaitAll, WaitEnds, WaitTimesOut
    <3>3. /\ main' = "summing" /\ enable' = FALSE /\ pending' = 0
          /\ UNCHANGED <<mode, client, asked, where, comparing, tally, slipped, reported, threads>>
      BY <3>2 DEF Stop
    <3>4. enable' \in BOOLEAN /\ slipped' \in BOOLEAN
      BY <3>3, Zenon
    <3> QED
      BY <3>1, <3>3, <3>4
  <2>4. CASE WaitSleeps \/ SummaryStarts \/ SummarySleeps \/ Join
    BY <2>4 DEF WaitSleeps, SummaryStarts, SummarySleeps, Join, MainMoves
  <2>5. CASE ReadCompleted \/ ReadOutcomes
    BY <2>5 DEF ReadCompleted, ReadOutcomes
  <2>6. CASE CloseResponses
    <3>1. missed' \subseteq Waiters
      BY <2>6 DEF CloseResponses, Close, Waiters
    <3> QED
      BY <2>6, <3>1 DEF CloseResponses
  <2>7. CASE Destroy
    <3>1. missed' \subseteq Waiters
      BY <2>7 DEF Destroy, Close, WorkersWaiting, CollectorsWaiting, WorkerOf, CollectorOf, Waiters
    <3> QED
      BY <2>7, <3>1 DEF Destroy
  <2> QED
    BY <1>1, <2>1, <2>2, <2>3, <2>4, <2>5, <2>6, <2>7 DEF Main
<1>2. CASE WakeSpuriously
  BY <1>2 DEF WakeSpuriously, MainMoves, Places
<1>3. CASE Calculator
  <2> USE DEF Move, Stages, InCalculator, Numbers
  <2>1. CASE CalculatorEnds
    BY <2>1 DEF CalculatorEnds
  <2>2. ASSUME NEW r \in Requests,
               PopResponse(r) \/ CountCompleted(r) \/ CountOutcome(r)
        PROVE  Types'
    BY <2>2 DEF PopResponse, CountCompleted, CountOutcome
  <2>3. ASSUME NEW r \in Requests, CompareDown(r) PROVE Types'
    BY <2>3 DEF CompareDown
  <2>5. ASSUME NEW r \in Requests, Interrupt(r) PROVE Types'
    BY <2>5 DEF Interrupt
  <2>4. ASSUME NEW r \in Requests, NotifySummary(r) PROVE Types'
    <3>1. slipped' \in BOOLEAN
      BY <2>4, Zenon DEF NotifySummary
    <3>2. /\ \E stage \in {"done", "judged"} : Move(r, "compared", stage)
          /\ main' = main \/ main' = "summing"
          /\ UNCHANGED <<mode, client, asked, enable, tally, waited, reported, threads, counters>>
      BY <2>4 DEF NotifySummary
    <3> QED
      BY <3>1, <3>2 DEF Places
  <2> QED
    BY <1>3, <2>1, <2>2, <2>3, <2>4, <2>5 DEF Calculator
<1>4. ASSUME NEW c \in Clients, Worker(c) PROVE Types'
  BY <1>4 DEF Worker, TakeRequest, RequestsClosed, Send, Taken, WorkerMoves, Move, Stages
<1>5. ASSUME NEW c \in Clients, Collector(c) PROVE Types'
  <2> USE DEF Move, Stages, InCollector
  <2>1. CASE Receive(c) \/ CollectorEnds(c)
    BY <2>1 DEF Receive, CollectorEnds
  <2>2. ASSUME NEW r \in Requests, CountDown(r) \/ CompareUp(r) \/ PushResponse(r)
        PROVE  Types'
    BY <2>2 DEF CountDown, CompareUp, PushResponse, Places
  <2> QED
    BY <1>5, <2>1, <2>2 DEF Collector
<1>6. CASE UNCHANGED vars
  BY <1>6 DEF vars
<1> QED
  BY <1>1, <1>2, <1>3, <1>4, <1>5, <1>6 DEF Next

\* A benchmark starts with the right types (GrpcBenchmark).
LEMMA TypesInit == Init => Types
<1> SUFFICES ASSUME Init PROVE Types
  OBVIOUS
<1>1. PICK setup \in Setups : mode = setup[1] /\ client = setup[2]
  BY DEF Init
<1>2. <<mode, client>> \in Setups
  BY <1>1 DEF Setups
<1>3. /\ main \in Places
      /\ asked \in 0..MaxRequests
      /\ where \in [Requests -> Stages]
      /\ worker \in [Clients -> {"popping", "sending", "gone"}]
      /\ ended \subseteq Clients
      /\ calculator \in {"running", "gone"}
      /\ missed \subseteq Waiters
      /\ pending \in Int /\ comparing \in Int
  BY BenchmarkAssumption DEF Init, Places, Stages
<1>4. enable \in BOOLEAN /\ waited \in BOOLEAN /\ slipped \in BOOLEAN
  BY DEF Init
<1>5. tally \in Numbers /\ reported \in Numbers
  BY DEF Init, Zero, Numbers
<1> QED
  BY <1>2, <1>3, <1>4, <1>5 DEF Types

-----------------------------------------------------------------------------
(* Counting requests *)

Count(stages) == Cardinality(At(stages))

\* A request that moves takes its one from the stages it leaves to those it
\* enters.
LEMMA MoveCount ==
  ASSUME Types, NEW r \in Requests, NEW from, NEW to, Move(r, from, to), NEW stages
  PROVE  Count(stages)' = Count(stages) + (IF to \in stages THEN 1 ELSE 0)
                                        - (IF from \in stages THEN 1 ELSE 0)
<1> DEFINE here == At(stages)
           there == {q \in Requests : where'[q] \in stages}
<1>1. /\ where[r] = from
      /\ where'[r] = to
      /\ \A q \in Requests : q # r => where'[q] = where[q]
  BY DEF Types, Move
<1>2. IsFiniteSet(Requests)
  BY FS_Interval, BenchmarkAssumption DEF Requests
<1>3. IsFiniteSet(here) /\ IsFiniteSet(there)
  BY <1>2, FS_Subset DEF At
<1>4. Cardinality(here) \in Nat /\ Cardinality(there) \in Nat
  BY <1>3, FS_CardinalityType
<1>5. Count(stages) = Cardinality(here) /\ Count(stages)' = Cardinality(there)
  BY DEF Count, At
<1>6. CASE from \in stages /\ to \in stages
  <2>1. here = there
    BY <1>1, <1>6 DEF At
  <2> QED
    BY <2>1, <1>4, <1>5, <1>6
<1>7. CASE from \notin stages /\ to \notin stages
  <2>1. here = there
    BY <1>1, <1>7 DEF At
  <2> QED
    BY <2>1, <1>4, <1>5, <1>7
<1>8. CASE from \notin stages /\ to \in stages
  <2>1. there = here \cup {r} /\ r \notin here
    BY <1>1, <1>8 DEF At
  <2>2. Cardinality(there) = Cardinality(here) + 1
    BY <2>1, <1>3, FS_AddElement
  <2> QED
    BY <2>2, <1>4, <1>5, <1>8
<1>9. CASE from \in stages /\ to \notin stages
  <2>1. here = there \cup {r} /\ r \notin there
    BY <1>1, <1>9 DEF At
  <2>2. Cardinality(here) = Cardinality(there) + 1
    BY <2>1, <1>3, FS_AddElement
  <2> QED
    BY <2>2, <1>4, <1>5, <1>9
<1> QED
  BY <1>6, <1>7, <1>8, <1>9

\* No more requests than there are stand anywhere.
LEMMA CountBound ==
  ASSUME NEW stages
  PROVE  Count(stages) \in 0..MaxRequests /\ Count(stages)' \in 0..MaxRequests
<1> DEFINE there == {q \in Requests : where'[q] \in stages}
<1>1. IsFiniteSet(Requests) /\ Cardinality(Requests) = MaxRequests
  BY FS_Interval, BenchmarkAssumption DEF Requests
<1>2. Cardinality(At(stages)) <= Cardinality(Requests) /\ IsFiniteSet(At(stages))
  BY <1>1, FS_Subset DEF At
<1>3. Cardinality(there) <= Cardinality(Requests) /\ IsFiniteSet(there)
  BY <1>1, FS_Subset
<1>4. Count(stages) = Cardinality(At(stages)) /\ Count(stages)' = Cardinality(there)
  BY DEF Count, At
<1> QED
  BY <1>1, <1>2, <1>3, <1>4, FS_CardinalityType, BenchmarkAssumption

\* The stages a response is at while pending_compare_num_ counts it, those
\* after pending_num_ was decremented, those after completed_requests and the
\* outcomes were incremented, and those after the responses' queue.
Announced == {"comparing", "responded", "dropped", "popped", "completed", "tallied"}
Judged == {"tallied", "compared", "judged", "done"}
Completed == {"completed"} \cup Judged
Popped == {"popped"} \cup Completed
Counted == {"counted", "compared", "judged", "done"} \cup Announced

\* Before the wait ends.
Requesting == {"requesting", "polling", "testing", "asleep"}

Accounts ==
  /\ comparing = Count(Announced)
  /\ tally.completed = Count(Completed)
  /\ tally.outcomes = Count(Judged)
  /\ main \in Requesting => pending = asked - Count(Counted)
  /\ main \notin Requesting => pending \in -Count(Counted)..0

\* What a request that moves does to the counts that Accounts is about.
LEMMA MoveCounts ==
  ASSUME Types, NEW r \in Requests, NEW from, NEW to, Move(r, from, to)
  PROVE  /\ Count(Announced)' = Count(Announced) + (IF to \in Announced THEN 1 ELSE 0)
                                                 - (IF from \in Announced THEN 1 ELSE 0)
         /\ Count(Completed)' = Count(Completed) + (IF to \in Completed THEN 1 ELSE 0)
                                                 - (IF from \in Completed THEN 1 ELSE 0)
         /\ Count(Judged)' = Count(Judged) + (IF to \in Judged THEN 1 ELSE 0)
                                           - (IF from \in Judged THEN 1 ELSE 0)
         /\ Count(Counted)' = Count(Counted) + (IF to \in Counted THEN 1 ELSE 0)
                                             - (IF from \in Counted THEN 1 ELSE 0)
         /\ Count(Popped)' = Count(Popped) + (IF to \in Popped THEN 1 ELSE 0)
                                           - (IF from \in Popped THEN 1 ELSE 0)
<1>1. \A stages : Count(stages)' = Count(stages) + (IF to \in stages THEN 1 ELSE 0)
                                               - (IF from \in stages THEN 1 ELSE 0)
  BY MoveCount
<1> QED
  BY <1>1, Zenon

\* The counters are those of the requests at the steps in between
\* (processRequestWorker, collectResponseWorker, calculateStatsWorker).
LEMMA AccountsStep == Types /\ Accounts /\ [Next]_vars => Accounts'
<1> SUFFICES ASSUME Types, Accounts, [Next]_vars PROVE Accounts'
  OBVIOUS
<1> DEFINE A == Count(Announced)
           C == Count(Completed)
           J == Count(Judged)
           D == Count(Counted)
<1>1. /\ A \in Nat /\ C \in Nat /\ J \in Nat /\ D \in Nat
      /\ A' \in Nat /\ C' \in Nat /\ J' \in Nat /\ D' \in Nat
  BY CountBound, BenchmarkAssumption
<1>2. /\ comparing \in Int /\ pending \in Int /\ asked \in Int
      /\ tally \in Numbers
  BY DEF Types
<1>3. /\ comparing = A /\ tally.completed = C /\ tally.outcomes = J
      /\ main \in Requesting => pending = asked - D
      /\ main \notin Requesting => pending \in -D..0
  BY DEF Accounts
<1>4. ASSUME /\ comparing' = A' /\ tally'.completed = C' /\ tally'.outcomes = J'
             /\ main' \in Requesting => pending' = asked' - D'
             /\ main' \notin Requesting => pending' \in -D'..0
      PROVE  Accounts'
  BY <1>4 DEF Accounts
<1>5. ASSUME UNCHANGED where
      PROVE  A' = A /\ C' = C /\ J' = J /\ D' = D
  BY <1>5 DEF Count, At
<1>6. ASSUME NEW r \in Requests, NEW from, NEW to, Move(r, from, to)
      PROVE  /\ A' = A + (IF to \in Announced THEN 1 ELSE 0)
                       - (IF from \in Announced THEN 1 ELSE 0)
             /\ C' = C + (IF to \in Completed THEN 1 ELSE 0)
                       - (IF from \in Completed THEN 1 ELSE 0)
             /\ J' = J + (IF to \in Judged THEN 1 ELSE 0)
                       - (IF from \in Judged THEN 1 ELSE 0)
             /\ D' = D + (IF to \in Counted THEN 1 ELSE 0)
                       - (IF from \in Counted THEN 1 ELSE 0)
  BY <1>6, MoveCounts
<1> HIDE DEF A, C, J, D
<1> USE <1>1, <1>2, <1>3
<1> USE DEF Requesting, Numbers, driver, threads, counters, result
<1>7. CASE Main
  <2>1. CASE Request
    <3>1. asked \in Requests /\ Move(asked, "unsent", "queued")
      BY <2>1, BenchmarkAssumption DEF Types, Request, Requests
    <3>2. A' = A /\ C' = C /\ J' = J /\ D' = D
      BY <3>1, <1>6 DEF Announced, Completed, Judged, Counted
    <3> QED
      BY <1>4, <2>1, <3>2 DEF Request
  <2>2. CASE EndRequests
    BY <1>4, <1>5, <2>2 DEF EndRequests
  <2>3. CASE WaitAll \/ WaitEnds \/ WaitTimesOut
    BY <1>4, <1>5, <2>3 DEF WaitAll, WaitEnds, WaitTimesOut, Stop
  <2>4. CASE WaitSleeps \/ SummaryStarts \/ SummarySleeps \/ CloseResponses \/ Join
    BY <1>4, <1>5, <2>4
    DEF WaitSleeps, SummaryStarts, SummarySleeps, CloseResponses, Join, MainMoves
  <2>5. CASE ReadCompleted \/ ReadOutcomes \/ Destroy
    BY <1>4, <1>5, <2>5 DEF ReadCompleted, ReadOutcomes, Destroy
  <2> QED
    BY <1>7, <2>1, <2>2, <2>3, <2>4, <2>5 DEF Main
<1>8. CASE WakeSpuriously
  BY <1>4, <1>5, <1>8 DEF WakeSpuriously, MainMoves
<1>9. CASE Calculator
  <2> USE DEF Announced, Completed, Judged, Counted
  <2>1. CASE CalculatorEnds
    BY <1>4, <1>5, <2>1 DEF CalculatorEnds
  <2>2. ASSUME NEW r \in Requests, PopResponse(r) PROVE Accounts'
    <3>1. A' = A /\ C' = C /\ J' = J /\ D' = D
      BY <1>6, <2>2 DEF PopResponse
    <3> QED
      BY <1>4, <2>2, <3>1 DEF PopResponse
  <2>3. ASSUME NEW r \in Requests, CountCompleted(r) PROVE Accounts'
    <3>1. A' = A /\ C' = C + 1 /\ J' = J /\ D' = D
      BY <1>6, <2>3 DEF CountCompleted
    <3> QED
      BY <1>4, <2>3, <3>1 DEF CountCompleted
  <2>4. ASSUME NEW r \in Requests, CountOutcome(r) PROVE Accounts'
    <3>1. A' = A /\ C' = C /\ J' = J + 1 /\ D' = D
      BY <1>6, <2>4 DEF CountOutcome
    <3> QED
      BY <1>4, <2>4, <3>1 DEF CountOutcome
  <2>5. ASSUME NEW r \in Requests, CompareDown(r) PROVE Accounts'
    <3>1. A' = A - 1 /\ C' = C /\ J' = J /\ D' = D
      BY <1>6, <2>5 DEF CompareDown
    <3> QED
      BY <1>4, <2>5, <3>1 DEF CompareDown
  <2>6. ASSUME NEW r \in Requests, NotifySummary(r) PROVE Accounts'
    <3>1. A' = A /\ C' = C /\ J' = J /\ D' = D
      BY <1>6, <2>6 DEF NotifySummary
    <3>2. /\ main' = main \/ (main = "sumasleep" /\ main' = "summing")
          /\ UNCHANGED <<asked, tally, counters>>
      BY <2>6, Zenon DEF NotifySummary
    <3> QED
      BY <1>4, <3>1, <3>2
  <2>7. ASSUME NEW r \in Requests, Interrupt(r) PROVE Accounts'
    <3>1. A' = A /\ C' = C /\ J' = J /\ D' = D
      BY <1>6, <2>7 DEF Interrupt
    <3> QED
      BY <1>4, <2>7, <3>1 DEF Interrupt
  <2> QED
    BY <1>9, <2>1, <2>2, <2>3, <2>4, <2>5, <2>6, <2>7 DEF Calculator
<1>10. ASSUME NEW c \in Clients, Worker(c) PROVE Accounts'
  <2>1. UNCHANGED <<driver, counters, result>>
    BY <1>10 DEF Worker, TakeRequest, RequestsClosed, Send, Taken, WorkerMoves
  <2>2. \/ UNCHANGED where
        \/ \E r \in Requests : \/ Move(r, "queued", "held")
                               \/ Move(r, "held", "refused")
                               \/ Move(r, "held", "sent")
    BY <1>10, Zenon DEF Worker, TakeRequest, RequestsClosed, Send, Taken
  <2>3. A' = A /\ C' = C /\ J' = J /\ D' = D
    BY <1>5, <1>6, <2>2 DEF Announced, Completed, Judged, Counted
  <2> QED
    BY <1>4, <2>1, <2>3
<1>11. ASSUME NEW c \in Clients, Collector(c) PROVE Accounts'
  <2> USE DEF Announced, Completed, Judged, Counted
  <2>1. CASE Receive(c)
    <3>1. A' = A /\ C' = C /\ J' = J /\ D' = D
      BY <1>6, <2>1 DEF Receive
    <3> QED
      BY <1>4, <2>1, <3>1 DEF Receive
  <2>2. CASE CollectorEnds(c)
    BY <1>4, <1>5, <2>2 DEF CollectorEnds
  <2>3. ASSUME NEW r \in Requests, CountDown(r) PROVE Accounts'
    <3>1. A' = A /\ C' = C /\ J' = J /\ D' = D + 1
      BY <1>6, <2>3 DEF CountDown
    <3>2. /\ main' = main \/ (main = "asleep" /\ main' = "testing")
          /\ pending' = pending - 1
          /\ UNCHANGED <<asked, tally, comparing>>
      BY <2>3, Zenon DEF CountDown
    <3> QED
      BY <1>4, <3>1, <3>2
  <2>4. ASSUME NEW r \in Requests, CompareUp(r) PROVE Accounts'
    <3>1. A' = A + 1 /\ C' = C /\ J' = J /\ D' = D
      BY <1>6, <2>4 DEF CompareUp
    <3> QED
      BY <1>4, <2>4, <3>1 DEF CompareUp
  <2>5. ASSUME NEW r \in Requests, PushResponse(r) PROVE Accounts'
    <3>1. A' = A /\ C' = C /\ J' = J /\ D' = D
      BY <1>6, <2>5 DEF PushResponse
    <3> QED
      BY <1>4, <2>5, <3>1 DEF PushResponse
  <2> QED
    BY <1>11, <2>1, <2>2, <2>3, <2>4, <2>5 DEF Collector
<1>12. CASE UNCHANGED vars
  BY <1>4, <1>5, <1>12 DEF vars
<1> QED
  BY <1>7, <1>8, <1>9, <1>10, <1>11, <1>12 DEF Next

\* The counters add up in every state (GrpcBenchmark).
LEMMA AccountsInvariant == Spec => [](Types /\ Accounts)
<1>1. Init => Accounts
  <2> SUFFICES ASSUME Init PROVE Accounts
    OBVIOUS
  <2>1. \A stages : "unsent" \notin stages => Count(stages) = 0
    BY FS_EmptySet DEF Init, Count, At
  <2>2. /\ Count(Announced) = 0 /\ Count(Completed) = 0
        /\ Count(Judged) = 0 /\ Count(Counted) = 0
    BY <2>1 DEF Announced, Completed, Judged, Counted
  <2> QED
    BY <2>2 DEF Init, Accounts, Requesting, Zero
<1>2. (Types /\ Accounts) /\ [Next]_vars => (Types /\ Accounts)'
  BY TypesStep, AccountsStep
<1> QED
  BY <1>1, <1>2, TypesInit, PTL DEF Spec

-----------------------------------------------------------------------------
\* The step that would put the summary to sleep with nothing left to wait for
\* does not exist, and the one that ends its wait notifies (Summary,
\* calculateStatsWorker).
THEOREM SleepIsLeft == Spec => []SummaryWoken
<1>1. Init => SummaryWoken
  BY DEF Init, SummaryWoken
<1>2. SummaryWoken /\ Types /\ Accounts /\ [Next]_vars => SummaryWoken'
  <2> SUFFICES ASSUME SummaryWoken, Types, Accounts, [Next]_vars,
                      main' \in {"sumsleep", "sumasleep"}, comparing' <= 0,
                      At({"compared"})' = {}
               PROVE  slipped'
    BY DEF SummaryWoken
  <2> USE DEF driver, threads, counters, result
  <2>1. ASSUME main \in {"sumsleep", "sumasleep"}, comparing <= 0, At({"compared"}) = {}
        PROVE  slipped
    BY <2>1 DEF SummaryWoken
  <2>2. comparing \in Int /\ pending \in Int /\ where \in [Requests -> Stages]
    BY DEF Types
  <2>3. ASSUME UNCHANGED where
        PROVE  At({"compared"}) = {}
    BY <2>3 DEF At
  <2>4. ASSUME NEW r \in Requests, NEW from, NEW to, Move(r, from, to), from # "compared"
        PROVE  At({"compared"}) = {} /\ to # "compared"
    BY <2>4, <2>2 DEF At, Move
  <2>5. CASE Main
    <3>1. CASE Request \/ EndRequests \/ WaitAll \/ WaitEnds \/ WaitTimesOut
      BY <3>1 DEF Request, EndRequests, WaitAll, WaitEnds, WaitTimesOut, Stop
    <3>2. CASE WaitSleeps \/ SummaryStarts \/ CloseResponses \/ Join
      BY <3>2 DEF WaitSleeps, SummaryStarts, CloseResponses, Join, MainMoves
    <3>3. CASE SummarySleeps
      <4>1. main = "summing" => pending <= 0
        BY CountBound, <2>2, BenchmarkAssumption DEF Accounts, Requesting
      <4> QED
        BY <2>1, <2>2, <2>3, <3>3, <4>1 DEF SummarySleeps, MainMoves
    <3>4. CASE ReadCompleted \/ ReadOutcomes \/ Destroy
      BY <3>4 DEF ReadCompleted, ReadOutcomes, Destroy
    <3> QED
      BY <2>5, <3>1, <3>2, <3>3, <3>4 DEF Main
  <2>6. CASE WakeSpuriously
    BY <2>1, <2>3, <2>6 DEF WakeSpuriously, MainMoves
  <2>7. CASE Calculator
    <3>1. CASE CalculatorEnds
      BY <2>1, <2>3, <3>1 DEF CalculatorEnds
    <3>2. ASSUME NEW r \in Requests, PopResponse(r) \/ CountCompleted(r) \/ CountOutcome(r)
                                       \/ Interrupt(r)
          PROVE  slipped'
      <4>1. At({"compared"}) = {}
        BY <2>4, <3>2 DEF PopResponse, CountCompleted, CountOutcome, Interrupt
      <4>2. UNCHANGED <<main, comparing, slipped>>
        BY <3>2 DEF PopResponse, CountCompleted, CountOutcome, Interrupt
      <4> QED
        BY <2>1, <4>1, <4>2
    <3>3. ASSUME NEW r \in Requests, CompareDown(r) PROVE slipped'
      BY <2>4, <3>3 DEF CompareDown
    <3>4. ASSUME NEW r \in Requests, NotifySummary(r) PROVE slipped'
      <4>1. /\ main' = IF comparing <= 0 /\ main = "sumasleep" THEN "summing" ELSE main
            /\ comparing' = comparing
        BY <3>4 DEF NotifySummary
      <4>2. comparing <= 0 /\ main = "sumsleep"
        BY <4>1
      <4> QED
        BY <3>4, <4>2, Zenon DEF NotifySummary
    <3> QED
      BY <2>7, <3>1, <3>2, <3>3, <3>4 DEF Calculator
  <2>8. ASSUME NEW c \in Clients, Worker(c) PROVE slipped'
    <3>1. \/ UNCHANGED where
          \/ \E r \in Requests : \/ Move(r, "queued", "held")
                                 \/ Move(r, "held", "refused")
                                 \/ Move(r, "held", "sent")
      BY <2>8, Zenon DEF Worker, TakeRequest, RequestsClosed, Send, Taken
    <3>2. UNCHANGED <<main, comparing, slipped>>
      BY <2>8 DEF Worker, TakeRequest, RequestsClosed, Send, Taken, WorkerMoves
    <3>3. At({"compared"}) = {}
      BY <2>3, <2>4, <3>1
    <3> QED
      BY <2>1, <3>2, <3>3
  <2>9. ASSUME NEW c \in Clients, Collector(c) PROVE slipped'
    <3>1. CASE Receive(c) \/ CollectorEnds(c)
      BY <2>1, <2>3, <2>4, <3>1 DEF Receive, CollectorEnds
    <3>2. ASSUME NEW r \in Requests, CountDown(r) PROVE slipped'
      <4>1. main' # main => main' = "testing"
        BY <3>2, Zenon DEF CountDown
      <4> QED
        BY <2>1, <2>4, <3>2, <4>1 DEF CountDown
    <3>3. ASSUME NEW r \in Requests, CompareUp(r) PROVE slipped'
      BY <2>1, <2>2, <2>4, <3>3 DEF CompareUp
    <3>4. ASSUME NEW r \in Requests, PushResponse(r) PROVE slipped'
      BY <2>1, <2>4, <3>4 DEF PushResponse
    <3> QED
      BY <2>9, <3>1, <3>2, <3>3, <3>4 DEF Collector
  <2>10. CASE UNCHANGED vars
    BY <2>1, <2>3, <2>10 DEF vars
  <2> QED
    BY <2>5, <2>6, <2>7, <2>8, <2>9, <2>10 DEF Next
<1> QED
  BY <1>1, <1>2, AccountsInvariant, PTL DEF Spec

-----------------------------------------------------------------------------
(* One request at a time *)

\* A collector and the calculator are each at one response.
OneEach ==
  /\ \A q, r \in At(InCollector) : ClientOf(q) = ClientOf(r) => q = r
  /\ \A q, r \in At(InCalculator) : q = r

\* A thread takes a response only when it is done with the last one
\* (collectResponseWorker, calculateStatsWorker).
LEMMA OneEachStep == Types /\ OneEach /\ [Next]_vars => OneEach'
<1> SUFFICES ASSUME Types, OneEach, [Next]_vars PROVE OneEach'
  OBVIOUS
<1>1. ASSUME UNCHANGED where PROVE OneEach'
  BY <1>1 DEF OneEach, At
<1>2. ASSUME NEW r \in Requests, NEW from, NEW to, Move(r, from, to),
             to \in InCollector => \/ from \in InCollector
                                   \/ \A q \in At(InCollector) : ClientOf(q) # ClientOf(r),
             to \in InCalculator => from \in InCalculator \/ At(InCalculator) = {}
      PROVE  OneEach'
  <2>1. /\ \A q \in Requests : q # r => where'[q] = where[q]
        /\ where[r] = from /\ where'[r] = to
    BY <1>2 DEF Types, Move
  <2>2. /\ \A q \in Requests : (q \in At(InCollector)) = (where[q] \in InCollector)
        /\ \A q \in Requests : (q \in At(InCalculator)) = (where[q] \in InCalculator)
        /\ \A q \in Requests : (q \in At(InCollector)') = (where'[q] \in InCollector)
        /\ \A q \in Requests : (q \in At(InCalculator)') = (where'[q] \in InCalculator)
        /\ At(InCollector)' \subseteq Requests
        /\ At(InCalculator)' \subseteq Requests
    BY DEF At
  <2>3. ASSUME NEW p \in At(InCollector)', NEW q \in At(InCollector)', ClientOf(p) = ClientOf(q)
        PROVE  p = q
    BY <1>2, <2>1, <2>2, <2>3 DEF OneEach
  <2>4. ASSUME NEW p \in At(InCalculator)', NEW q \in At(InCalculator)'
        PROVE  p = q
    BY <1>2, <2>1, <2>2, <2>4 DEF OneEach
  <2> QED
    BY <2>3, <2>4 DEF OneEach, ClientOf
<1> USE DEF InCollector, InCalculator, driver, threads
<1>3. CASE Main
  <2>1. CASE Request
    <3>1. asked \in Requests /\ Move(asked, "unsent", "queued")
      BY <2>1, BenchmarkAssumption DEF Types, Request, Requests
    <3> QED
      BY <1>2, <3>1
  <2>2. CASE ~Request
    BY <1>1, <1>3, <2>2
    DEF Main, EndRequests, WaitAll, WaitEnds, WaitTimesOut, Stop, WaitSleeps, SummaryStarts,
        SummarySleeps, CloseResponses, ReadCompleted, ReadOutcomes, Destroy, Join, MainMoves
  <2> QED
    BY <2>1, <2>2
<1>4. CASE WakeSpuriously
  BY <1>1, <1>4 DEF WakeSpuriously, MainMoves
<1>5. CASE Calculator
  <2>1. CASE CalculatorEnds
    BY <1>1, <2>1 DEF CalculatorEnds
  <2>2. ASSUME NEW r \in Requests, PopResponse(r) PROVE OneEach'
    BY <1>2, <2>2 DEF PopResponse, CalculatorIdle
  <2>3. ASSUME NEW r \in Requests, CountCompleted(r) \/ CountOutcome(r) \/ CompareDown(r)
                                     \/ NotifySummary(r) \/ Interrupt(r)
        PROVE  OneEach'
    BY <1>2, <2>3 DEF CountCompleted, CountOutcome, CompareDown, NotifySummary, Interrupt
  <2> QED
    BY <1>5, <2>1, <2>2, <2>3 DEF Calculator
<1>6. ASSUME NEW c \in Clients, Worker(c) PROVE OneEach'
  <2>1. \/ UNCHANGED where
        \/ \E r \in Requests : \/ Move(r, "queued", "held")
                               \/ Move(r, "held", "refused")
                               \/ Move(r, "held", "sent")
    BY <1>6, Zenon DEF Worker, TakeRequest, RequestsClosed, Send, Taken
  <2> QED
    BY <1>1, <1>2, <2>1
<1>7. ASSUME NEW c \in Clients, Collector(c) PROVE OneEach'
  <2>1. CASE Receive(c)
    <3>1. PICK r \in Requests : ClientOf(r) = c /\ Move(r, "sent", "received")
      BY <2>1 DEF Receive
    <3>2. \A q \in At(InCollector) : ClientOf(q) # ClientOf(r)
      BY <2>1, <3>1 DEF Receive, Idle, AtClient
    <3> QED
      BY <1>2, <3>1, <3>2
  <2>2. CASE CollectorEnds(c)
    BY <1>1, <2>2 DEF CollectorEnds
  <2>3. ASSUME NEW r \in Requests, CountDown(r) \/ CompareUp(r) \/ PushResponse(r)
        PROVE  OneEach'
    BY <1>2, <2>3 DEF CountDown, CompareUp, PushResponse
  <2> QED
    BY <1>7, <2>1, <2>2, <2>3 DEF Collector
<1>8. CASE UNCHANGED vars
  BY <1>1, <1>8 DEF vars
<1> QED
  BY <1>3, <1>4, <1>5, <1>6, <1>7, <1>8 DEF Next

\* The calculator's one response is all that lies between the responses' queue
\* and either counter.
LEMMA CalculatorsOne ==
  ASSUME OneEach
  PROVE  /\ Count(Popped) - Count(Completed) \in 0..1
         /\ Count(Popped) - Count(Judged) \in 0..1
<1>1. ASSUME NEW stages, stages \subseteq InCalculator, NEW rest
      PROVE  Count(rest \cup stages) - Count(rest) \in 0..1
  <2>1. IsFiniteSet(Requests)
    BY FS_Interval, BenchmarkAssumption DEF Requests
  <2>2. IsFiniteSet(At(rest)) /\ Cardinality(At(rest)) \in Nat
    BY <2>1, FS_Subset, FS_CardinalityType DEF At
  <2>3. At(rest \cup stages) = At(rest) \cup At(stages)
    BY DEF At
  <2>4. \A q, r \in At(stages) : q = r
    BY <1>1 DEF OneEach, At
  <2>5. CASE At(stages) = {}
    BY <2>2, <2>3, <2>5 DEF Count
  <2>6. CASE At(stages) # {}
    <3>1. PICK r : At(stages) = {r}
      BY <2>4, <2>6
    <3>2. \/ At(rest \cup stages) = At(rest)
          \/ At(rest \cup stages) = At(rest) \cup {r} /\ r \notin At(rest)
      BY <2>3, <3>1
    <3>3. \/ Cardinality(At(rest \cup stages)) = Cardinality(At(rest))
          \/ Cardinality(At(rest \cup stages)) = Cardinality(At(rest)) + 1
      BY <2>2, <3>2, FS_AddElement
    <3> QED
      BY <2>2, <3>3 DEF Count
  <2> QED
    BY <2>5, <2>6
<1>2. /\ Popped = Completed \cup {"popped"}
      /\ Popped = Judged \cup {"popped", "completed"}
  BY DEF Popped, Completed
<1>3. Count(Completed \cup {"popped"}) - Count(Completed) \in 0..1
  BY <1>1 DEF InCalculator
<1>4. Count(Judged \cup {"popped", "completed"}) - Count(Judged) \in 0..1
  BY <1>1 DEF InCalculator
<1> QED
  BY <1>2, <1>3, <1>4

\* Each collector is at one response between the countdown and its
\* announcement, and what is no longer compared is completed.
LEMMA CollectorsOne ==
  ASSUME Types, OneEach, Count(Announced) = 0
  PROVE  Count(Counted) <= Count(Completed) + NumClients
<1> DEFINE Between == At({"counted"})
           Client == [r \in Between |-> ClientOf(r)]
<1>1. IsFiniteSet(Requests)
  BY FS_Interval, BenchmarkAssumption DEF Requests
<1>2. /\ IsFiniteSet(Between) /\ IsFiniteSet(At(Counted))
      /\ IsFiniteSet(At(Completed)) /\ IsFiniteSet(At(Announced))
  BY <1>1, FS_Subset DEF At
<1>3. At(Announced) = {}
  BY <1>2, FS_EmptySet DEF Count
<1>4. At(Counted) \subseteq At(Completed) \cup Between
  BY <1>3 DEF At, Counted, Completed, Judged
<1>5. Cardinality(At(Counted)) <= Cardinality(At(Completed) \cup Between)
  BY <1>2, <1>4, FS_Subset, FS_Union
<1>6. Cardinality(At(Completed) \cup Between) <= Cardinality(At(Completed)) + Cardinality(Between)
  <2>1. Cardinality(At(Completed) \cap Between) \in Nat
    BY <1>2, FS_Subset, FS_CardinalityType
  <2>2. Cardinality(At(Completed)) \in Nat /\ Cardinality(Between) \in Nat
    BY <1>2, FS_CardinalityType
  <2>3. Cardinality(At(Completed) \cup Between)
          = Cardinality(At(Completed)) + Cardinality(Between)
              - Cardinality(At(Completed) \cap Between)
    BY <1>2, FS_Union
  <2> QED
    BY <2>1, <2>2, <2>3
<1>7. Cardinality(Between) <= NumClients
  <2>1. IsFiniteSet(Clients) /\ Cardinality(Clients) = NumClients
    BY FS_Interval, BenchmarkAssumption DEF Clients
  <2>2. Client \in [Between -> Clients]
    <3>1. \A r \in Requests : r % NumClients \in 0..NumClients - 1
      BY BenchmarkAssumption DEF Requests
    <3> QED
      BY <3>1 DEF At, ClientOf, Clients
  <2>3. \A q, r \in Between : Client[q] = Client[r] => q = r
    BY DEF OneEach, At, InCollector
  <2>4. Cardinality(Between) \in Nat
    BY <1>2, FS_CardinalityType
  <2>5. ~(NumClients < Cardinality(Between))
    <3> SUFFICES ASSUME NumClients < Cardinality(Between) PROVE FALSE
      OBVIOUS
    <3> HIDE DEF Between, Client
    <3>1. \E q, r \in Between : q # r /\ Client[q] = Client[r]
      BY <1>2, <2>1, <2>2, FS_PigeonHole
    <3> QED
      BY <2>3, <3>1
  <2> QED
    BY <2>4, <2>5, BenchmarkAssumption
<1>8. /\ Cardinality(At(Counted)) \in Nat /\ Cardinality(At(Completed)) \in Nat
      /\ Cardinality(Between) \in Nat
      /\ Cardinality(At(Completed) \cup Between) \in Nat
  BY <1>2, FS_CardinalityType, FS_Union
<1> QED
  BY <1>5, <1>6, <1>7, <1>8, BenchmarkAssumption DEF Count

-----------------------------------------------------------------------------
(* The summary *)

Summing == {"closing", "reading", "copying", "returned", "joining", "joined"}

\* What the wait has seen, and what is read of it: once it has seen every
\* request counted down that stays so, when the responses are closed only the
\* collectors' ones are missing, and what was popped by then is all there is.
Summed ==
  /\ waited => main \notin Requesting /\ asked <= Count(Counted)
  /\ waited /\ main \in Summing => asked - NumClients <= tally.completed
  /\ waited /\ (main = "copying" \/ Returned) => asked - NumClients <= reported.completed
  /\ main = "copying" => reported.completed \in Count(Popped) - 1..Count(Popped)
  /\ ReportWithinOne
  /\ reported.completed \in 0..MaxRequests
  /\ reported.outcomes \in 0..MaxRequests

\* What a step does to the counts that Summed is about.
Growth ==
  /\ Count(Counted) <= Count(Counted)'
  /\ tally.completed <= tally'.completed
  /\ ResponsesClosed => Count(Popped)' = Count(Popped)

\* No step takes a countdown or a completion back, and once the responses are
\* closed none is popped (calculateStatsWorker).
LEMMA CountsGrow ==
  ASSUME Types, [Next]_vars
  PROVE  Growth
<1> DEFINE D == Count(Counted)
           P == Count(Popped)
<1>1. /\ D \in Int /\ D' \in Int /\ P \in Int /\ P' \in Int
      /\ tally \in Numbers /\ tally.completed \in Int
  BY CountBound, BenchmarkAssumption DEF Types, Numbers
<1>2. ASSUME UNCHANGED <<where, tally>> PROVE Growth
  BY <1>1, <1>2 DEF Growth, Count, At
<1>3. ASSUME NEW r \in Requests, NEW from, NEW to, Move(r, from, to),
             from \in Counted => to \in Counted,
             tally.completed <= tally'.completed,
             (from \in Popped) = (to \in Popped) \/ ~ResponsesClosed
      PROVE  Growth
  <2>1. /\ D' = D + (IF to \in Counted THEN 1 ELSE 0) - (IF from \in Counted THEN 1 ELSE 0)
        /\ P' = P + (IF to \in Popped THEN 1 ELSE 0) - (IF from \in Popped THEN 1 ELSE 0)
    BY <1>3, MoveCounts
  <2> HIDE DEF D, P
  <2>2. D <= D'
    BY <1>1, <1>3, <2>1
  <2>3. ResponsesClosed => P' = P
    BY <1>1, <1>3, <2>1
  <2> QED
    BY <1>3, <2>2, <2>3 DEF Growth, D, P
<1>4. tally.completed <= tally.completed
  BY <1>1
<1> USE DEF Counted, Popped, Completed, Judged, Announced, driver, threads, counters, result
<1>5. CASE Main
  <2>1. CASE Request
    <3>1. asked \in Requests /\ Move(asked, "unsent", "queued") /\ UNCHANGED tally
      BY <2>1, BenchmarkAssumption DEF Types, Request, Requests
    <3> QED
      BY <1>3, <1>4, <3>1
  <2>2. CASE ~Request
    BY <1>2, <1>5, <2>2
    DEF Main, EndRequests, WaitAll, WaitEnds, WaitTimesOut, Stop, WaitSleeps, SummaryStarts,
        SummarySleeps, CloseResponses, ReadCompleted, ReadOutcomes, Destroy, Join, MainMoves
  <2> QED
    BY <2>1, <2>2
<1>6. CASE WakeSpuriously
  BY <1>2, <1>6 DEF WakeSpuriously, MainMoves
<1>7. CASE Calculator
  <2>1. CASE CalculatorEnds
    BY <1>2, <2>1 DEF CalculatorEnds
  <2>2. ASSUME NEW r \in Requests, PopResponse(r) PROVE Growth
    BY <1>3, <1>4, <2>2 DEF PopResponse
  <2>3. ASSUME NEW r \in Requests, CountCompleted(r) PROVE Growth
    BY <1>1, <1>3, <2>3 DEF CountCompleted, Numbers
  <2>4. ASSUME NEW r \in Requests, CountOutcome(r) PROVE Growth
    BY <1>1, <1>3, <1>4, <2>4 DEF CountOutcome, Numbers
  <2>5. ASSUME NEW r \in Requests, CompareDown(r) \/ NotifySummary(r) \/ Interrupt(r)
        PROVE  Growth
    BY <1>3, <1>4, <2>5 DEF CompareDown, NotifySummary, Interrupt
  <2> QED
    BY <1>7, <2>1, <2>2, <2>3, <2>4, <2>5 DEF Calculator
<1>8. ASSUME NEW c \in Clients, Worker(c) PROVE Growth
  <2>1. \/ UNCHANGED where
        \/ \E r \in Requests : \/ Move(r, "queued", "held")
                               \/ Move(r, "held", "refused")
                               \/ Move(r, "held", "sent")
    BY <1>8, Zenon DEF Worker, TakeRequest, RequestsClosed, Send, Taken
  <2>2. UNCHANGED tally
    BY <1>8 DEF Worker, TakeRequest, RequestsClosed, Send, Taken, WorkerMoves
  <2> QED
    BY <1>2, <1>3, <1>4, <2>1, <2>2
<1>9. ASSUME NEW c \in Clients, Collector(c) PROVE Growth
  <2>1. CASE Receive(c) \/ CollectorEnds(c)
    BY <1>2, <1>3, <1>4, <2>1 DEF Receive, CollectorEnds
  <2>2. ASSUME NEW r \in Requests, CountDown(r) \/ CompareUp(r) \/ PushResponse(r)
        PROVE  Growth
    BY <1>3, <1>4, <2>2 DEF CountDown, CompareUp, PushResponse
  <2> QED
    BY <1>9, <2>1, <2>2 DEF Collector
<1>10. CASE UNCHANGED vars
  BY <1>2, <1>10 DEF vars
<1> QED
  BY <1>5, <1>6, <1>7, <1>8, <1>9, <1>10 DEF Next

\* The steps of main and the counts they find are all that Summed depends on
\* (WaitAll, WaitAllUntilTimeout, Summary).
LEMMA SummedStep == Types /\ Accounts /\ OneEach /\ Summed /\ [Next]_vars => Summed'
<1> SUFFICES ASSUME Types, Accounts, OneEach, Summed, [Next]_vars PROVE Summed'
  OBVIOUS
<1> DEFINE D == Count(Counted)
           P == Count(Popped)
           C == Count(Completed)
           J == Count(Judged)
<1>1. /\ D \in 0..MaxRequests /\ P \in 0..MaxRequests
      /\ C \in 0..MaxRequests /\ J \in 0..MaxRequests
      /\ D' \in 0..MaxRequests /\ P' \in 0..MaxRequests
  BY CountBound
<1>2. /\ asked \in Int /\ pending \in Int /\ tally \in Numbers /\ reported \in Numbers
      /\ NumClients \in Nat /\ MaxRequests \in Nat
  BY BenchmarkAssumption DEF Types
<1>3. /\ tally.completed = C /\ tally.outcomes = J
      /\ P - C \in 0..1 /\ P - J \in 0..1
  BY CalculatorsOne DEF Accounts
<1>4. D <= D' /\ tally.completed <= tally'.completed /\ (ResponsesClosed => P' = P)
  BY CountsGrow DEF Growth
<1>5. tally'.completed \in Int
  BY TypesStep DEF Types, Numbers
<1> USE DEF Requesting, Summing, Returned, ResponsesClosed, Numbers
<1> USE DEF driver, threads, counters, result
\* The steps that leave alone what Summed is about.
<1>6. ASSUME UNCHANGED <<asked, waited, reported>>,
             main \notin Requesting => main' \notin Requesting,
             main' \in Summing => main \in Summing,
             main' = "copying" => main = "copying",
             Returned' => Returned
      PROVE  Summed'
  <2> HIDE DEF D, P, C, J
  <2>1. waited' => main' \notin Requesting /\ asked' <= D'
    BY <1>1, <1>2, <1>4, <1>6 DEF Summed, D
  <2>2. waited' /\ main' \in Summing => asked' - NumClients <= tally'.completed
    BY <1>2, <1>4, <1>5, <1>6 DEF Summed
  <2>3. waited' /\ (main' = "copying" \/ Returned') => asked' - NumClients <= reported'.completed
    BY <1>6 DEF Summed
  <2>4. main' = "copying" => reported'.completed \in P' - 1..P'
    BY <1>4, <1>6 DEF Summed, P
  <2>5. ReportWithinOne'
    BY <1>6 DEF Summed, ReportWithinOne
  <2> QED
    BY <1>6, <2>1, <2>2, <2>3, <2>4, <2>5 DEF Summed, D, P
<1>7. CASE Main
  <2>1. CASE Request
    <3>1. ~waited /\ waited' = waited /\ reported' = reported /\ main' = "requesting"
      BY <2>1, Zenon DEF Request, Summed, Requesting
    <3> QED
      BY <3>1 DEF Summed, ReportWithinOne
  <2>2. CASE EndRequests \/ WaitSleeps \/ SummarySleeps \/ CloseResponses \/ Join
    BY <1>6, <2>2 DEF EndRequests, WaitSleeps, SummarySleeps, CloseResponses, Join, MainMoves
  <2>3. CASE WaitAll \/ WaitEnds \/ WaitTimesOut
    <3>1. /\ main \in Requesting /\ main' = "summing"
          /\ waited' => pending <= 0
          /\ UNCHANGED <<asked, where, reported>>
      BY <2>3 DEF WaitAll, WaitEnds, WaitTimesOut, Stop
    <3>2. waited' => asked' <= D'
      BY <1>1, <1>2, <1>4, <3>1 DEF Accounts
    <3> QED
      BY <3>1, <3>2 DEF Summed, ReportWithinOne
  <2>4. CASE SummaryStarts
    <3>1. /\ main = "summing" /\ main' = "closing" /\ comparing <= 0
          /\ UNCHANGED <<asked, waited, where, tally, reported>>
      BY <2>4 DEF SummaryStarts, MainMoves
    <3>2. Count(Announced) = 0
      BY <3>1, CountBound, BenchmarkAssumption DEF Accounts
    <3>3. D <= C + NumClients
      BY <3>2, CollectorsOne
    <3>4. waited => asked - NumClients <= tally.completed
      BY <1>1, <1>2, <1>3, <3>3 DEF Summed
    <3>5. D' = D
      BY <3>1 DEF Count, At
    <3> QED
      BY <3>1, <3>4, <3>5 DEF Summed, ReportWithinOne
  <2>5. CASE ReadCompleted
    <3>1. /\ main = "reading" /\ main' = "copying"
          /\ reported'.completed = tally.completed /\ reported'.outcomes = reported.outcomes
          /\ UNCHANGED <<asked, waited, where, tally>>
      BY <1>2, <2>5 DEF ReadCompleted
    <3>2. D' = D /\ P' = P
      BY <3>1 DEF Count, At
    <3> HIDE DEF D, P, C, J
    <3>3. reported'.completed \in P - 1..P /\ reported'.completed \in 0..MaxRequests
      BY <1>1, <1>2, <1>3, <3>1
    <3> QED
      BY <3>1, <3>2, <3>3 DEF Summed, ReportWithinOne, D, P
  <2>6. CASE ReadOutcomes
    <3>1. /\ main = "copying" /\ main' = "returned"
          /\ reported'.completed = reported.completed /\ reported'.outcomes = tally.outcomes
          /\ UNCHANGED <<asked, waited, where, tally>>
      BY <1>2, <2>6 DEF ReadOutcomes
    <3>2. D' = D
      BY <3>1 DEF Count, At
    <3>3. reported.completed \in P - 1..P
      BY <3>1 DEF Summed
    <3> HIDE DEF D, P, C, J
    <3>4. /\ reported'.completed - reported'.outcomes \in -1..1
          /\ reported'.outcomes \in 0..MaxRequests
      BY <1>1, <1>2, <1>3, <3>1, <3>3
    <3> QED
      BY <3>1, <3>2, <3>4 DEF Summed, ReportWithinOne, D
  <2>7. CASE Destroy
    BY <1>6, <2>7 DEF Destroy
  <2> QED
    BY <1>7, <2>1, <2>2, <2>3, <2>4, <2>5, <2>6, <2>7 DEF Main
<1>8. CASE WakeSpuriously
  BY <1>6, <1>8 DEF WakeSpuriously, MainMoves
<1>9. CASE Calculator
  <2>1. CASE CalculatorEnds
    BY <1>6, <2>1 DEF CalculatorEnds
  <2>2. ASSUME NEW r \in Requests, PopResponse(r) \/ CountCompleted(r) \/ CountOutcome(r)
                                     \/ CompareDown(r) \/ Interrupt(r)
        PROVE  Summed'
    BY <1>6, <2>2 DEF PopResponse, CountCompleted, CountOutcome, CompareDown, Interrupt
  <2>3. ASSUME NEW r \in Requests, NotifySummary(r) PROVE Summed'
    <3>1. /\ main' = main \/ (main = "sumasleep" /\ main' = "summing")
          /\ UNCHANGED <<asked, waited, reported>>
      BY <2>3, Zenon DEF NotifySummary
    <3> QED
      BY <1>6, <3>1
  <2> QED
    BY <1>9, <2>1, <2>2, <2>3 DEF Calculator
<1>10. ASSUME NEW c \in Clients, Worker(c) PROVE Summed'
  BY <1>6, <1>10 DEF Worker, TakeRequest, RequestsClosed, Send, Taken, WorkerMoves
<1>11. ASSUME NEW c \in Clients, Collector(c) PROVE Summed'
  <2>1. CASE Receive(c) \/ CollectorEnds(c)
    BY <1>6, <2>1 DEF Receive, CollectorEnds
  <2>2. ASSUME NEW r \in Requests, CountDown(r) PROVE Summed'
    <3>1. /\ main' = main \/ (main = "asleep" /\ main' = "testing")
          /\ UNCHANGED <<asked, waited, reported>>
      BY <2>2, Zenon DEF CountDown
    <3> QED
      BY <1>6, <3>1
  <2>3. ASSUME NEW r \in Requests, CompareUp(r) \/ PushResponse(r) PROVE Summed'
    BY <1>6, <2>3 DEF CompareUp, PushResponse
  <2> QED
    BY <1>11, <2>1, <2>2, <2>3 DEF Collector
<1>12. CASE UNCHANGED vars
  BY <1>6, <1>12 DEF vars
<1> QED
  BY <1>7, <1>8, <1>9, <1>10, <1>11, <1>12 DEF Next

\* What the summary is taken from holds in every state (GrpcBenchmark).
LEMMA SummedInvariant == Spec => [](Types /\ Accounts /\ OneEach /\ Summed)
<1>1. Init => OneEach /\ Summed
  <2> SUFFICES ASSUME Init PROVE OneEach /\ Summed
    OBVIOUS
  <2>1. At(InCollector) = {} /\ At(InCalculator) = {}
    BY DEF Init, At, InCollector, InCalculator
  <2>2. OneEach
    BY <2>1 DEF OneEach
  <2>3. ~waited /\ main = "requesting" /\ reported.completed = 0 /\ reported.outcomes = 0
    BY Zenon DEF Init, Zero
  <2>4. Summed
    BY <2>3, BenchmarkAssumption DEF Summed, ReportWithinOne, Returned
  <2> QED
    BY <2>2, <2>4
<1>2. /\ (Types /\ Accounts /\ OneEach /\ Summed) /\ [Next]_vars
      => (Types /\ Accounts /\ OneEach /\ Summed)'
  BY TypesStep, AccountsStep, OneEachStep, SummedStep
<1> QED
  BY <1>1, <1>2, AccountsInvariant, PTL DEF Spec

\* The types of Benchmark's variables, the counters within the number of the
\* requests (GrpcBenchmark).
THEOREM TypeCorrect == Spec => []TypeOK
<1>1. Types /\ Accounts /\ OneEach /\ Summed => TypeOK
  <2> SUFFICES ASSUME Types, Accounts, Summed PROVE TypeOK
    OBVIOUS
  <2>1. \A stages : Count(stages) \in 0..MaxRequests
    BY CountBound
  <2>2. pending \in -MaxRequests..MaxRequests
    BY <2>1, BenchmarkAssumption DEF Types, Accounts
  <2>3. comparing \in 0..MaxRequests
    BY <2>1 DEF Accounts
  <2>4. tally \in [completed : 0..MaxRequests, outcomes : 0..MaxRequests]
    BY <2>1 DEF Types, Accounts, Numbers
  <2>5. reported \in [completed : 0..MaxRequests, outcomes : 0..MaxRequests]
    BY DEF Types, Summed, Numbers
  <2>6. {enable, waited, slipped} \subseteq BOOLEAN
    BY Zenon DEF Types
  <2> QED
    BY <2>2, <2>3, <2>4, <2>5, <2>6 DEF Types, TypeOK, Places, Stages
<1> QED
  BY <1>1, SummedInvariant, PTL

\* When the wait saw all requests counted down, the summary misses at most one
\* of each client, however the threads interleave (WaitAllUntilTimeout,
\* Summary).
THEOREM LossIsBounded == Spec => []LossBounded
<1>1. Types /\ Accounts /\ OneEach /\ Summed => LossBounded
  <2> SUFFICES ASSUME Types, Summed, Returned, waited
               PROVE  reported.completed >= asked - NumClients
    BY DEF LossBounded
  <2>1. asked - NumClients <= reported.completed
    BY DEF Summed
  <2>2. asked \in Int /\ reported.completed \in Int /\ NumClients \in Int
    BY BenchmarkAssumption DEF Types, Numbers
  <2> QED
    BY <2>1, <2>2
<1> QED
  BY <1>1, SummedInvariant, PTL

\* The counters of a summary differ by one response at most (Summary,
\* updateSummary).
THEOREM TornByOne == Spec => []ReportWithinOne
<1>1. Types /\ Accounts /\ OneEach /\ Summed => ReportWithinOne
  BY DEF Summed
<1> QED
  BY <1>1, SummedInvariant, PTL
=============================================================================
