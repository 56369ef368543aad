---------------------------- MODULE LoadGenerator ----------------------------
(***************************************************************************)
(* What feeds the benchmark: a test case reader reads the file (CsvReader) *)
(* and gives its rows out in rounds, RunBenchmark makes requests of them,  *)
(* and a worker of the benchmark sends its requests at the pace of its     *)
(* TokenBucket.                                                            *)
(*                                                                         *)
(* The tests use TestCaseReaderPreload.  TestCaseReaderAsync reads rows in *)
(* a thread of its own, which is modelled by what CsvReader shows of it.   *)
(* The requests are those of one client; what becomes of them once sent is *)
(* in Benchmark, and what a wait waits for is left open here.              *)
(***************************************************************************)
EXTENDS TokenBucket, CsvReader

CONSTANTS
  Setups,       \* [file, reader, enable_repeat, req_times, rate]
  Capacity,     \* of the queue of TestCaseReaderAsync
  MaxRequests   \* bound on the requests of a run without an end of its own

ASSUME LoadAssumption ==
  /\ Setups \subseteq [file : Files, reader : {"preload", "async"}, enable_repeat : BOOLEAN,
                       req_times : Nat, rate : Rates]
  /\ Capacity \in Nat \ {0}

VARIABLES
  reader,         \* "preload" or "async"
  enable_repeat,  \* whether a run goes on into the second round
  req_times,      \* requests of the run, 0 for no limit
  main,           \* where the test stands
  read_num,       \* rows read in this round: read_num_, or where the async reader is
  reapeat,        \* reapeat_: a second round has begun
  producer,       \* the thread of TestCaseReaderAsync: "reading", "pushing", "missed" or "gone"
  held,           \* the case it has read
  queue,          \* the cases in its queue
  requested       \* the cases the run has made requests of

config == <<reader, enable_repeat, req_times>>
async == <<producer, held, queue>>
loadVars == <<csvVars, bucketVars, config, main, read_num, reapeat, async, requested>>

Case(row, repeat) == [row |-> row, repeat |-> repeat]

\* The rows of the file, in order.
NumRows == Cardinality(Starts)
RowAt(k) == LineAt(CHOOSE s \in Starts : Cardinality({t \in Starts : t <= s}) = k)

LoadInit ==
  /\ \E s \in Setups :
       /\ file = s.file
       /\ reader = s.reader
       /\ enable_repeat = s.enable_repeat
       /\ req_times = s.req_times
       /\ rate = s.rate
  /\ CsvInit
  /\ BucketInit
  /\ main = IF reader = "preload" THEN "loading" ELSE "requesting"
  /\ read_num = 0
  /\ reapeat = FALSE
  /\ producer = IF reader = "async" THEN "reading" ELSE "gone"
  /\ held = Case(<<>>, FALSE)
  /\ queue = <<>>
  /\ requested = <<>>

-----------------------------------------------------------------------------
(* TestCaseReaderPreload *)

\* Start reads the whole file; a row that throws ends the program.
Load ==
  /\ main = "loading"
  /\ Read
  /\ main' = IF caller' = "ended" THEN "requesting" ELSE "loading"
  /\ UNCHANGED <<bucketVars, config, read_num, reapeat, async, requested>>

\* The case of a Pop: a new round begins once all rows have been given out.
Round(count) == IF read_num >= count THEN 0 ELSE read_num

\* Mutant of Repeats: the flag is that of the case before.
Bug_RepeatsLate(count) == reapeat

Repeats(count) == reapeat \/ read_num >= count

-----------------------------------------------------------------------------
(* TestCaseReaderAsync *)

\* The end of the file reloads it.  A file without rows gives empty requests.
ReadCase ==
  /\ producer = "reading"
  /\ held' = Case(IF NumRows = 0 THEN <<>> ELSE RowAt(Round(NumRows) + 1), Repeats(NumRows))
  /\ read_num' = IF NumRows = 0 THEN 0 ELSE Round(NumRows) + 1
  /\ reapeat' = Repeats(NumRows)
  /\ producer' = "pushing"
  /\ UNCHANGED <<csvVars, bucketVars, config, main, queue, requested>>

PushCase ==
  /\ producer = "pushing"
  /\ main \notin {"stopping", "stopped"}
  /\ Len(queue) < Capacity
  /\ queue' = Append(queue, held)
  /\ producer' = "reading"
  /\ UNCHANGED <<csvVars, bucketVars, config, main, read_num, reapeat, held, requested>>

\* Mutant of PushClosed: a Push that waits for room does not see the queue closed.
Bug_WaitsForRoom ==
  /\ producer = "pushing"
  /\ main = "stopping"
  /\ Len(queue) < Capacity
  /\ producer' = "gone"
  /\ UNCHANGED <<csvVars, bucketVars, config, main, read_num, reapeat, held, queue, requested>>

\* Stop closes the queue, which ends a Push that sees it.
PushClosed ==
  /\ producer = "pushing"
  /\ main = "stopping"
  /\ producer' = "gone"
  /\ UNCHANGED <<csvVars, bucketVars, config, main, read_num, reapeat, held, queue, requested>>

-----------------------------------------------------------------------------
(* RunBenchmark *)

AsksOn == main = "requesting" /\ (req_times = 0 \/ Len(requested) < req_times)

\* A case of the second round ends a run that is not to repeat.
Ask(case) ==
  IF ~enable_repeat /\ case.repeat
  THEN main' = "requested" /\ UNCHANGED requested
  ELSE requested' = Append(requested, case) /\ UNCHANGED main

PopPreload ==
  /\ AsksOn
  /\ reader = "preload"
  /\ rows # <<>>
  /\ Len(requested) < MaxRequests
  /\ Ask(Case(rows[Round(Len(rows)) + 1], Repeats(Len(rows))))
  /\ read_num' = Round(Len(rows)) + 1
  /\ reapeat' = Repeats(Len(rows))
  /\ UNCHANGED <<csvVars, bucketVars, config, async>>

\* Without a single row Pop reads out of the bounds of testcase_.
PopNothing ==
  /\ AsksOn
  /\ reader = "preload"
  /\ rows = <<>>
  /\ main' = "undefined"
  /\ UNCHANGED <<csvVars, bucketVars, config, read_num, reapeat, async, requested>>

PopAsync ==
  /\ AsksOn
  /\ reader = "async"
  /\ queue # <<>>
  /\ Len(requested) < MaxRequests
  /\ Ask(Head(queue))
  /\ queue' = Tail(queue)
  /\ UNCHANGED <<csvVars, bucketVars, config, read_num, reapeat, producer, held>>

EndRequests ==
  /\ main = "requesting"
  /\ req_times # 0 /\ Len(requested) >= req_times
  /\ main' = "requested"
  /\ UNCHANGED <<csvVars, bucketVars, config, read_num, reapeat, async, requested>>

\* The wait and the summary are over, and reader.Stop() is called.  Its Close
\* takes no mutex: it slips past a Push that has found the queue full and open
\* and has not gone to sleep yet.  Nobody pops any more, and so nobody wakes it.
StopReader ==
  /\ main = "requested"
  /\ main' = "stopping"
  /\ \/ UNCHANGED producer
     \/ producer = "pushing" /\ Len(queue) >= Capacity /\ producer' = "missed"
  /\ UNCHANGED <<csvVars, bucketVars, config, read_num, reapeat, held, queue, requested>>

JoinProducer ==
  /\ main = "stopping"
  /\ producer = "gone"
  /\ main' = "stopped"
  /\ UNCHANGED <<csvVars, bucketVars, config, read_num, reapeat, async, requested>>

\* The reader is destroyed at the end of the test, and its CSV reader with it.
DestroyReader ==
  /\ main = "stopped"
  /\ Close
  /\ UNCHANGED <<bucketVars, config, main, read_num, reapeat, async, requested>>

Main ==
  \/ Load \/ PopPreload \/ PopNothing \/ PopAsync \/ EndRequests \/ StopReader \/ JoinProducer
  \/ DestroyReader

-----------------------------------------------------------------------------
(* The other threads *)

Producer == ReadCase \/ PushCase \/ PushClosed

\* A spurious wake-up, while Stop waits in its join.
WakeProducer ==
  /\ producer = "missed"
  /\ main = "stopping"
  /\ producer' = "pushing"
  /\ UNCHANGED <<csvVars, bucketVars, config, main, read_num, reapeat, held, queue, requested>>

CsvWorker ==
  /\ reader = "preload"
  /\ Worker
  /\ UNCHANGED <<bucketVars, config, main, read_num, reapeat, async, requested>>

\* processRequestWorker, for as long as the benchmark lives.
Send ==
  /\ main \in {"requesting", "requested"}
  /\ Len(sends) < Len(requested)
  /\ ConsumeAtOnce \/ ConsumeLater
  /\ UNCHANGED <<csvVars, config, main, read_num, reapeat, async, requested>>

Clock ==
  /\ main # "loading"
  /\ WakeUp \/ Tick
  /\ UNCHANGED <<csvVars, config, main, read_num, reapeat, async, requested>>

LoadNext == Main \/ Producer \/ WakeProducer \/ CsvWorker \/ Send \/ Clock

LoadSpec == LoadInit /\ [][LoadNext]_loadVars

\* Every thread goes on running; nothing has to wake up spuriously.
FairLoadSpec ==
  /\ LoadSpec
  /\ WF_loadVars(Main)
  /\ WF_loadVars(Producer)
  /\ WF_loadVars(CsvWorker)

-----------------------------------------------------------------------------
\* Types of the reader and of the run, and those of their parts.
LoadTypeOK ==
  /\ CsvTypeOK
  /\ BucketTypeOK
  /\ reader \in {"preload", "async"}
  /\ enable_repeat \in BOOLEAN
  /\ req_times \in Nat
  /\ main \in {"loading", "requesting", "requested", "stopping", "stopped", "undefined"}
  /\ read_num \in 0..Len(file)
  /\ reapeat \in BOOLEAN
  /\ producer \in {"reading", "pushing", "missed", "gone"}
  /\ Len(queue) <= Capacity
  /\ Len(sends) <= Len(requested)

\* The requests are the rows of the file in order, round after round, marked
\* from the second round on; a run that is not to repeat asks each row exactly
\* once, or the first ones as often as it is to (Pop, RunBenchmark).
AskedInRounds ==
  NumRows # 0 =>
    /\ \A i \in 1..Len(requested) :
         requested[i] = Case(RowAt(((i - 1) % NumRows) + 1), i > NumRows)
    /\ main \in {"requested", "stopping", "stopped"} =>
         Len(requested) = IF enable_repeat \/ req_times \in 1..NumRows THEN req_times ELSE NumRows

\* A run that has an end comes to it, and so do the threads of its reader,
\* wherever they stand when it does; only a Push that Stop's Close slips past
\* sleeps on, and Stop with it in its join (Stop, ~AsynchronousReader).
LoadEnds ==
  <>[](\/ main = "stopped" /\ producer = "gone" /\ (reader = "preload" => worker # "waiting")
       \/ main = "stopping" /\ producer = "missed"
       \/ caller = "failed" \/ main = "undefined"
       \/ req_times = 0 /\ enable_repeat
       \/ req_times > MaxRequests \/ NumRows = 0)
=============================================================================
