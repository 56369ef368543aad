------------------------------ MODULE Benchmark ------------------------------
(***************************************************************************)
(* GrpcBenchmark of the testbench and RunBenchmark, which drives it: main  *)
(* hands requests to the clients' workers, waits for all of them, takes    *)
(* the summary and destroys the benchmark, while collectors count the      *)
(* answers down and a calculator counts them up.                           *)
(*                                                                         *)
(* A request is known by its number, and its place in the benchmark is     *)
(* where it stands; the collector and the calculator are at the step their *)
(* request is at.  The queues are used through what ConcurrentQueue shows  *)
(* of them, and sets stand for them: no property depends on the order.     *)
(***************************************************************************)
EXTENDS Integers, FiniteSets

CONSTANTS
  NumClients,    \* clients, each with a worker and a collector
  MaxRequests    \* bound on the requests of a run

ASSUME BenchmarkAssumption ==
  /\ NumClients \in Nat \ {0}
  /\ MaxRequests \in Nat

VARIABLES
  mode,         \* "all": WaitAll, for a timeout_sec of 0; "timed": WaitAllUntilTimeout
  client,       \* whether the clients are "sync" or "async"
  main,         \* where RunBenchmark stands
  asked,        \* requests handed over so far, req_idx_
  where,        \* where each request stands
  worker,       \* where the worker of each client stands
  ended,        \* clients whose collector has ended
  calculator,   \* whether the calculator still runs
  missed,       \* threads asleep on a queue whose Close slipped past them
  pending,      \* pending_num_
  comparing,    \* pending_compare_num_
  enable,       \* enable_
  tally,        \* summary_data_: completed_requests, and the counters of the outcomes in one
  waited,       \* whether the wait saw every request counted down
  slipped,      \* a notification fell between Summary's predicate and its sleep
  reported      \* the summary that was returned

vars == <<mode, client, main, asked, where, worker, ended, calculator, missed, pending,
          comparing, enable, tally, waited, slipped, reported>>

driver == <<mode, client, main, asked, waited, reported>>
threads == <<worker, ended, calculator, missed>>
counters == <<pending, comparing>>
result == <<enable, tally, slipped>>

Clients == 0..NumClients - 1
Requests == 0..MaxRequests - 1
ClientOf(r) == r % NumClients

\* The threads that wait at queues.
WorkerOf(c) == <<"worker", c>>
CollectorOf(c) == <<"collector", c>>
TheCalculator == <<"calculator", 0>>
Waiters == ({"worker", "collector"} \X Clients) \cup {TheCalculator}

At(stages) == {r \in Requests : where[r] \in stages}
AtClient(c, stages) == {r \in At(stages) : ClientOf(r) = c}
InCollector == {"received", "counted", "comparing"}
InCalculator == {"popped", "completed", "tallied", "compared", "judged"}
\* TestResultScore has sync clients and no timeout; the other tests have async
\* clients, and a timeout or none as their duration is configured.
Setups == {<<"all", "sync">>, <<"all", "async">>, <<"timed", "async">>}

\* A collector, and the calculator, between two turns of its loop.
Idle(c) == c \notin ended /\ AtClient(c, InCollector) = {}
CalculatorIdle == calculator = "running" /\ At(InCalculator) = {}

Zero == [completed |-> 0, outcomes |-> 0]

Move(r, from, to) == where[r] = from /\ where' = [where EXCEPT ![r] = to]

Returned == main \in {"returned", "joining", "joined"}
ResponsesClosed == Returned \/ main \in {"reading", "copying"}
ClientsClosed == main \in {"joining", "joined"}

Init ==
  /\ \E setup \in Setups : mode = setup[1] /\ client = setup[2]
  /\ main = "requesting"
  /\ asked = 0
  /\ where = [r \in Requests |-> "unsent"]
  /\ worker = [c \in Clients |-> "popping"]
  /\ ended = {}
  /\ calculator = "running"
  /\ missed = {}
  /\ pending = 0
  /\ comparing = 0
  /\ enable = TRUE
  /\ tally = Zero
  /\ waited = FALSE
  /\ slipped = FALSE
  /\ reported = Zero

-----------------------------------------------------------------------------
(* main: requesting and waiting *)

Request ==
  /\ main = "requesting"
  /\ asked < MaxRequests
  /\ Move(asked, "unsent", "queued")
  /\ asked' = asked + 1
  /\ pending' = pending + 1
  /\ UNCHANGED <<mode, client, main, comparing, waited, reported, threads, result>>

\* The number of requests is reached, or the reader has no more.
EndRequests ==
  /\ main = "requesting"
  /\ main' = IF mode = "all" THEN "polling" ELSE "testing"
  /\ UNCHANGED <<mode, client, asked, where, waited, reported, threads, counters, result>>

\* Both waits end with enable_ and pending_num_ cleared; the queue they close
\* is one that nobody uses.
Stop ==
  /\ main' = "summing"
  /\ waited' = (enable /\ pending <= 0)
  /\ enable' = FALSE
  /\ pending' = 0
  /\ UNCHANGED <<mode, client, asked, where, comparing, tally, slipped, reported, threads>>

WaitAll ==
  /\ main = "polling"
  /\ pending <= 0 \/ ~enable
  /\ Stop

WaitEnds ==
  /\ main = "testing"
  /\ pending = 0 \/ ~enable
  /\ Stop

WaitTimesOut ==
  /\ main = "asleep"
  /\ Stop

MainMoves(from, to) ==
  /\ main = from
  /\ main' = to
  /\ UNCHANGED <<mode, client, asked, where, waited, reported, threads, counters, result>>

\* A notification missed between this predicate and the sleep costs no more
\* than the timeout.
WaitSleeps ==
  /\ pending # 0 /\ enable
  /\ MainMoves("testing", "asleep")

-----------------------------------------------------------------------------
(* main: the summary and the destructor *)

\* Mutant of SummaryStarts: what is still being compared is not waited for.
Bug_SummaryIgnoresComparing ==
  /\ pending <= 0
  /\ MainMoves("summing", "closing")

SummaryStarts ==
  /\ pending <= 0 /\ comparing <= 0
  /\ MainMoves("summing", "closing")

SummarySleeps ==
  \/ ~(pending <= 0 /\ comparing <= 0) /\ MainMoves("summing", "sumsleep")
  \/ MainMoves("sumsleep", "sumasleep")

\* ConcurrentQueue::Close sets its flag and notifies without the mutex: it
\* slips past a thread that has found the queue empty and open and has not
\* gone to sleep yet.  Nothing wakes that thread afterwards, as a Push into a
\* closed queue does not notify.
Close(waiting) == \E late \in SUBSET waiting : missed' = missed \cup late

CloseResponses ==
  /\ main = "closing"
  /\ main' = "reading"
  /\ Close(IF CalculatorIdle /\ At({"responded"}) = {} THEN {TheCalculator} ELSE {})
  /\ UNCHANGED <<mode, client, asked, where, waited, reported, worker, ended, calculator,
                 counters, result>>

\* The counters are read one after the other while the calculator may still
\* be at its last response.
ReadCompleted ==
  /\ main = "reading"
  /\ main' = "copying"
  /\ reported' = [reported EXCEPT !.completed = tally.completed]
  /\ UNCHANGED <<mode, client, asked, where, waited, threads, counters, result>>

ReadOutcomes ==
  /\ main = "copying"
  /\ main' = "returned"
  /\ reported' = [tally EXCEPT !.completed = reported.completed]
  /\ UNCHANGED <<mode, client, asked, where, waited, threads, counters, result>>

\* Threads that find nothing in the queues that the destructor closes; that of
\* an async client is gRPC's, whose Shutdown is not missed.
WorkersWaiting == {c \in Clients : worker[c] = "popping" /\ AtClient(c, {"queued"}) = {}}
CollectorsWaiting ==
  {c \in Clients : client = "sync" /\ Idle(c) /\ AtClient(c, {"sent"}) = {}}

\* ~GrpcBenchmark closes the queues of requests and the clients, and then
\* joins every thread.
Destroy ==
  /\ main = "returned"
  /\ main' = "joining"
  /\ enable' = FALSE
  /\ Close({WorkerOf(c) : c \in WorkersWaiting} \cup {CollectorOf(c) : c \in CollectorsWaiting})
  /\ UNCHANGED <<mode, client, asked, where, tally, waited, slipped, reported,
                 worker, ended, calculator, counters>>

Join ==
  /\ \A c \in Clients : worker[c] = "gone"
  /\ ended = Clients
  /\ calculator = "gone"
  /\ MainMoves("joining", "joined")

Main ==
  \/ Request \/ EndRequests \/ WaitAll \/ WaitEnds \/ WaitTimesOut \/ WaitSleeps
  \/ SummaryStarts \/ SummarySleeps \/ CloseResponses \/ ReadCompleted \/ ReadOutcomes
  \/ Destroy \/ Join

WakeSpuriously ==
  \/ MainMoves("asleep", "testing") \/ MainMoves("sumasleep", "summing")
  \/ /\ \E t \in missed : missed' = missed \ {t}
     /\ UNCHANGED <<where, worker, ended, calculator, driver, counters, result>>

-----------------------------------------------------------------------------
(* processRequestWorker of client c *)

WorkerMoves(c, stage) ==
  /\ worker' = [worker EXCEPT ![c] = stage]
  /\ UNCHANGED <<ended, calculator, missed, driver, counters, result>>

\* A worker told to stop still takes the request it is waiting for.
TakeRequest(c) ==
  /\ worker[c] = "popping"
  /\ ~ClientsClosed
  /\ \E r \in Requests : ClientOf(r) = c /\ Move(r, "queued", "held")
  /\ WorkerMoves(c, "sending")

RequestsClosed(c) ==
  /\ worker[c] = "popping"
  /\ ClientsClosed
  /\ WorkerOf(c) \notin missed
  /\ WorkerMoves(c, "gone")
  /\ UNCHANGED where

\* Request of a client: one that is closed takes nothing.
Taken == IF ClientsClosed THEN "refused" ELSE "sent"

\* Whether it was taken or not the worker goes round its loop, which ends once
\* enable_ is cleared.
Send(c) ==
  /\ worker[c] = "sending"
  /\ \E r \in Requests : ClientOf(r) = c /\ Move(r, "held", Taken)
  /\ WorkerMoves(c, IF enable THEN "popping" ELSE "gone")

Worker(c) == TakeRequest(c) \/ RequestsClosed(c) \/ Send(c)

-----------------------------------------------------------------------------
(* collectResponseWorker of client c *)

\* WaitResponse of a client: once closed a sync client drops what it holds, and
\* an async one gives it out before it has no more.
GivesOut == ~(client = "sync" /\ ClientsClosed)
HasNoMore(c) ==
  ClientsClosed /\ (client = "async" => AtClient(c, {"sent"}) = {})

\* An answer arrives by the deadline of its call at the latest.
Receive(c) ==
  /\ Idle(c)
  /\ GivesOut
  /\ \E r \in Requests : ClientOf(r) = c /\ Move(r, "sent", "received")
  /\ UNCHANGED <<driver, threads, counters, result>>

CollectorEnds(c) ==
  /\ Idle(c)
  /\ HasNoMore(c)
  /\ CollectorOf(c) \notin missed
  /\ ended' = ended \cup {c}
  /\ UNCHANGED <<where, worker, calculator, missed, driver, counters, result>>

\* The last response counted down wakes the wait.
CountDown(r) ==
  /\ Move(r, "received", "counted")
  /\ pending' = pending - 1
  /\ main' = IF pending' <= 0 /\ main = "asleep" THEN "testing" ELSE main
  /\ UNCHANGED <<mode, client, asked, comparing, waited, reported, threads, result>>

\* Mutant of CompareUp: the response is pushed without being announced.
Bug_NotAnnounced(r) ==
  /\ Move(r, "counted", "comparing")
  /\ UNCHANGED <<driver, threads, counters, result>>

CompareUp(r) ==
  /\ Move(r, "counted", "comparing")
  /\ comparing' = comparing + 1
  /\ UNCHANGED <<pending, driver, threads, result>>

\* A closed queue takes no response.
PushResponse(r) ==
  /\ Move(r, "comparing", IF ResponsesClosed THEN "dropped" ELSE "responded")
  /\ UNCHANGED <<driver, threads, counters, result>>

Collector(c) ==
  \/ Receive(c) \/ CollectorEnds(c)
  \/ \E r \in Requests :
       ClientOf(r) = c /\ (CountDown(r) \/ CompareUp(r) \/ PushResponse(r))

-----------------------------------------------------------------------------
(* calculateStatsWorker *)

\* Mutant of PopResponse: a closed queue is emptied.
Bug_PopAfterClose(r) ==
  /\ CalculatorIdle
  /\ Move(r, "responded", "popped")
  /\ UNCHANGED <<driver, threads, counters, result>>

PopResponse(r) ==
  /\ CalculatorIdle
  /\ ~ResponsesClosed
  /\ Move(r, "responded", "popped")
  /\ UNCHANGED <<driver, threads, counters, result>>

CalculatorEnds ==
  /\ CalculatorIdle
  /\ ResponsesClosed
  /\ TheCalculator \notin missed
  /\ calculator' = "gone"
  /\ UNCHANGED <<where, worker, ended, missed, driver, counters, result>>

CountCompleted(r) ==
  /\ Move(r, "popped", "completed")
  /\ tally' = [tally EXCEPT !.completed = @ + 1]
  /\ UNCHANGED <<enable, slipped, driver, threads, counters>>

\* A success, an error or a timeout; a success is compared with its reference.
CountOutcome(r) ==
  /\ Move(r, "completed", "tallied")
  /\ tally' = [tally EXCEPT !.outcomes = @ + 1]
  /\ UNCHANGED <<enable, slipped, driver, threads, counters>>

\* Mutant of CompareDown: the response is counted down twice.
Bug_CompareDownTwice(r) ==
  /\ Move(r, "tallied", "compared")
  /\ comparing' = comparing - 2
  /\ UNCHANGED <<pending, driver, threads, result>>

CompareDown(r) ==
  /\ Move(r, "tallied", "compared")
  /\ comparing' = comparing - 1
  /\ UNCHANGED <<pending, driver, threads, result>>

\* Mutant of NotifySummary: the last response does not notify.
Bug_NotifyBelowZero(r) ==
  /\ \E stage \in {"done", "judged"} : Move(r, "compared", stage)
  /\ main' = IF comparing < 0 /\ main = "sumasleep" THEN "summing" ELSE main
  /\ slipped' = (slipped \/ (comparing < 0 /\ main = "sumsleep"))
  /\ UNCHANGED <<mode, client, asked, enable, tally, waited, reported, threads, counters>>

\* The notification comes without the mutex.  A comparison may have failed.
NotifySummary(r) ==
  /\ \E stage \in {"done", "judged"} : Move(r, "compared", stage)
  /\ main' = IF comparing <= 0 /\ main = "sumasleep" THEN "summing" ELSE main
  /\ slipped' = (slipped \/ (comparing <= 0 /\ main = "sumsleep"))
  /\ UNCHANGED <<mode, client, asked, enable, tally, waited, reported, threads, counters>>

\* A comparison that failed interrupts the run, only after the notification.
Interrupt(r) ==
  /\ Move(r, "judged", "done")
  /\ enable' = FALSE
  /\ UNCHANGED <<tally, slipped, driver, threads, counters>>

Calculator ==
  \/ CalculatorEnds
  \/ \E r \in Requests : PopResponse(r) \/ CountCompleted(r) \/ CountOutcome(r)
                           \/ CompareDown(r) \/ NotifySummary(r) \/ Interrupt(r)

-----------------------------------------------------------------------------
Next ==
  \/ Main \/ WakeSpuriously \/ Calculator
  \/ \E c \in Clients : Worker(c) \/ Collector(c)

Spec == Init /\ [][Next]_vars

\* Main goes on, calls are answered and the timeout passes; and some other thread
\* that can run does: their steps are bounded, so that no fairness among them is
\* needed.
FairSpec ==
  /\ Spec
  /\ WF_vars(Main)
  /\ WF_vars(Calculator \/ \E c \in Clients : Worker(c) \/ Collector(c))

-----------------------------------------------------------------------------
\* Types; the counters of GrpcBenchmark are those of the requests at the steps
\* between their increments and decrements.
TypeOK ==
  /\ <<mode, client>> \in Setups
  /\ main \in {"requesting", "polling", "testing", "asleep", "summing", "sumsleep",
               "sumasleep", "closing", "reading", "copying", "returned", "joining", "joined"}
  /\ asked \in 0..MaxRequests
  /\ where \in [Requests -> {"unsent", "queued", "held", "sent", "refused", "responded",
                             "dropped", "done"} \cup InCollector \cup InCalculator]
  /\ worker \in [Clients -> {"popping", "sending", "gone"}]
  /\ ended \subseteq Clients
  /\ calculator \in {"running", "gone"}
  /\ missed \subseteq Waiters
  /\ {enable, waited, slipped} \subseteq BOOLEAN
  /\ pending \in -MaxRequests..MaxRequests
  /\ comparing \in 0..MaxRequests
  /\ tally \in [completed : 0..MaxRequests, outcomes : 0..MaxRequests]
  /\ reported \in [completed : 0..MaxRequests, outcomes : 0..MaxRequests]

\* When the wait saw every request counted down (WaitAll, WaitAllUntilTimeout),
\* the summary misses at most one response of each collector: the one between
\* the countdown and its announcement.
LossBounded ==
  Returned /\ waited => reported.completed >= asked - NumClients

\* Summary closes the responses before it reads the counters, which bounds the
\* tear of the reading to the one response the calculator is at (Summary,
\* updateSummary).
ReportWithinOne ==
  Returned =>
    reported.completed - reported.outcomes \in -1..1

\* Summary sleeps on with nothing left to wait for only if the notification
\* fell between its predicate and its sleep, as it is sent without the mutex
\* (calculateStatsWorker, Summary).
SummaryWoken ==
  main \in {"sumsleep", "sumasleep"} /\ comparing <= 0 /\ At({"compared"}) = {} => slipped

\* A run, the destructor's joins included, comes to its end, and there are two
\* things only that can keep it from it: Summary sleeps on because that
\* notification was missed, or the destructor joins a thread that slept on
\* because Close slipped past it (RunBenchmark, ~GrpcBenchmark).
RunEnds ==
  <>[](\/ main = "joined"
       \/ main = "sumasleep" /\ slipped
       \/ main = "joining" /\ missed # {})
=============================================================================
