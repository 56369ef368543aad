# Formal model of the distributed ad search and its testbench

TLA+ modules, TLC configurations and TLAPS proofs for the code under `src/`: an
ad search service that runs on two nodes (`src/code/alimama`) and the testbench
that finds it, loads it and scores it (`src/testbench/src`).

A node is told its number and holds the ads of the keywords congruent to it
modulo 2. A `Search` request goes to node 0, which searches its own shard, asks
node 1 for its share over gRPC, merges the two ranked lists and bills each ad
the price its follower sets. The nodes and the testbench meet through two keys
in etcd.

## 1. Inventory

| Component | State | Operations | What is hard | What makes it correct |
|---|---|---|---|---|
| Hand-off of node 1's share: `AyncSearchResult` (utils.h:235), `SearchServiceClient` (search_service_client.h), `SearchServiceImpl::Search` (service.cc:314) | result object with flags, mutex and condition variable; completion queue | `Search`, `wait`, `Finish`, `Cancel`, `HandleResponse`, background thread | flags read without the mutex, a raw pointer used after `delete`, memory reuse, lost calls | a request gets its own reply and no other; writes reach a live object; wakeups are not lost |
| Distributed search: `searchTopNByKeyword`, `InernalSearch`, `mergeResult`, billing | the two indexes; per request only locals | recall, score, de-duplicate, sort, cut, merge, bill | each node cuts its own list; an ad is offered under several keywords and on both nodes; failed calls; empty lists | the answer is that of one node holding every row; nobody pays more than the bid |
| Loading: `load_csv_data`, `parserRawData`, `init` | array of rows, map of ranges | read a line, sort, index | sign of a keyword, array bound, first and last range, empty shard | a keyword finds exactly its active lines |
| Start-up: `RunServer`, `init`, `registerOrFoundService`, destructors, `SetupSearchService` | two keys in etcd, stage of each node | load, find, connect, register, serve, exit | circular waiting, stale keys, crashes and restarts, removal by any destructor | what is published leads to a node that works; starts end |
| `ConcurrentQueue` (concurent_queue.h) | queue, capacity, closed flag, two condition variables | `Push`, `WaitAndPop`, `TryPop`, `Close` | `notify_one` with overtaking, `Close` without the mutex | no wakeup is lost, no thread sleeps for ever |
| `GrpcBenchmark`, `RunBenchmark` | counters of pending work, summary, queues, threads | `Request`, `WaitAll`, `WaitAllUntilTimeout`, `Summary`, destructor | counters and notifications without their mutex, responses after the timeout, joins | the summary has every response; a run ends |
| `TestMaxQps` | rate, limit, summaries | two phases of benchmarks | boundaries, zero rates, fluctuating service | the rate found is the one the service stands |
| `csv.h`: `LineReader`, `AsynchronousReader`, `CSVReader` | three blocks, the window on two of them, a reading thread | `next_line`, `read_row`, `start_read`, `finish_read`, destructor | lines cut by blocks, a block copied while the next is read, a last line without an end | the rows are the lines of the file |
| Test case readers (preload, async) | rows read, place in the round, repeat flag, bounded queue and its thread | `Start`, `Pop`, `Stop` | rounds, `Stop` while the thread waits for room | each case is asked in its turn; a run ends |
| `TokenBucket` | time of the last token | `Consume` | late wake-ups, the burst, a rate of zero | requests keep the pace |
| Comparators | counter and selection of the sample | `Compare`, `RandomSelect` | repeated ads, lists of different lengths | the scores are those of the contest's rule |
| Scoring pipeline: `TestAll`, four `CalcStat` functions | scores, rate found | the four tests | quotients of zero, roundings, summaries of interrupted runs | a test passed was a test made |
| Configuration, logging, timers, `json.hpp`, protocol, build files | none of interest | | | not modelled |

Components call each other directly, except that handler and background thread
share the result object, benchmark threads share counters and queues, and the
nodes and the testbench share etcd.

## 2. Modules

| Module | Models | Extends / uses |
|---|---|---|
| `SearchPromise` | the abstract promise of `Search` about node 1's share | |
| `SearchHandoff` | the hand-off, one access to shared memory per step | refines `SearchPromise` (`Promise`, `PromiseKept`) |
| `Ranking` | the algorithms of the search as operators | |
| `DistributedSearch` | one request across both nodes, against a centralised reference | `Ranking` |
| `AdIndex` | loading and indexing a shard | |
| `Startup` | both nodes, etcd and the testbench's discovery | |
| `ConcurrentQueue` | the queue | |
| `Benchmark` | `GrpcBenchmark` and `RunBenchmark`, both clients | uses the queue through what `ConcurrentQueue` shows |
| `MaxQps` | the search for the highest rate | |
| `Comparator` | scores and samples as operators | |
| `TestAll` | the four tests around the search | `MaxQps`, `Comparator`; uses what a benchmark loses, and that it may hang, shown in `Benchmark`; refines `MaxQps` |
| `TokenBucket` | the pace of a worker | |
| `CsvReader` | reading lines through three blocks with a thread | |
| `LoadGenerator` | readers, rounds, requests and their pace | `CsvReader`, `TokenBucket`; refines both |
| `MC...` | instances for TLC | the module named |
| `...Proofs` | theorems and proofs | the module named, `TLAPS` |

### SearchHandoff

Memory is a set of `Slots`; `new AyncSearchResult()` takes any free one and
`delete` frees it, so that a pointer kept too long falls on free memory or on a
later request's object. A handler's `pc` follows `Search`: `send`
(`SearchServiceClient::Search`), `local` (its own search), `check` (flags read
without the mutex), `lock`, `pred`, `sleep`, `asleep`, `relock`, `leave` (the
rounds of `cv.wait`), `merge`, `free`. The background thread's `bgpc` follows
`init` and `HandleResponse`: `next`, `fill`, `lock`, `set`, `unlock`, `notify`.
After `set` the handler may merge and delete: `unlock` and `notify` are then late.

A plain mutex unlocked by a thread that does not hold it becomes free: that is
what a normal pthread mutex of the build does. The history variable `trampled`
records whose mutex a late unlock released. The flags are plain `bool`s: their
racy read yields the value before or after the write, as on x86-64, where the
store of the results cannot overtake the later store of the flag.

`PromiseKept` says that every run of the hand-off, seen through the mapping
`Promise`, is one of `SearchPromise`: an answer comes after its share is settled
and holds that share and nothing else.

### Ranking and DistributedSearch

`Ranking` has one operator per function. The click-through rate of a row is
given with it as a positive integer, so scores and rounded prices are exact; the
cosine of the vectors is left out. `topn` is narrowed as `int` narrows it, whose
values are `2 * IntHalf`. A loop of the code is a fold over its list, with one
turn as an operator of its own (`AddRow`, `AddKeyword`), or a recursive function
(`MergeStep` in `MergeResult`); `std::sort` puts each result behind those that
outrank it (`Ranked`). `DistributedSearch` runs `Split`, both searches, the
call's success or failure, `Merge` and `Bill`. The reference (`Offers`, `BestOf`,
`ReferencePrice`) is written without lists, sorting or nodes: the best offer of
each ad among all rows of the nodes that answered, in the place that the number
of ads ranked ahead gives it. It counts ads, not offers, because two offers of an
ad at a bid of zero tie at any rate, and neither replaces the other.

### AdIndex

A line is a keyword and a status; a keyword is unsigned in the file and `int64`
in `RawData`, with `Half` standing for 2^63. `LoadLine` is one turn of the
`getline` loop; `Overrun` is the line parsed behind the end of the array;
`SortRows` is `std::sort`, which orders rows of one keyword as it likes;
`NextKeyword`, `SameKeyword` and `LastKeyword` are the indexing loop and the
range after it, and `PhantomKeyword` is that last range with no row kept.

### Startup

Each node's `stage` goes `down`, `loading`, then on node 0 `finding`,
`connecting`, `registering`, and on node 1 `registering`; then `starting`,
`serving`. A failed `init` leads to `exiting` and to a removal on its way
(`removing`), which etcd carries out later or never. `Crash` runs no destructor.
A restart takes any address no running node has. A removal does not outlast the
restart of its node: the operator starts a node again well after its last process
is gone. Node 0's client has a background thread from `Connect` on, which
`~SearchServiceClient` joins and which never ends, so that a node 0 that gives
up afterwards stays in `exiting`.

History variables tell what the keys do not: `met` has the lives of node 0 that
reached a serving node 1 at the address they found, `publisher` is the life that
set the public key, `found` the one whose address the testbench found, and
`removed` says that the key was removed since. `AdvertisedHadPeer` is about the
life that published: one that puts its key up on a stale key of node 1, without
connecting, violates it, however many lives connected before.

### ConcurrentQueue

A critical section is one step. Going to sleep takes two, because `Close` does
not take the mutex: a thread whose predicate was false still holds the mutex
(`sleep`) and then sleeps (`asleep`). `slipped` records threads for which a
`notify_all` of `Close` came between. `Push` notifies in a step of its own, after
its unlock.

### Benchmark

`where` gives the place of each request: `queued`, `held` (by the worker, before
it is sent), `sent`, `received`, `counted` (down, line 168), `comparing`
(announced, line 172), `responded` (pushed), `popped`, `completed`, `tallied`,
`compared`, `judged`, `done`. Collector and calculator are sequential, so the
place of their request is their program counter. `mode` is `all` (`WaitAll`) or
`timed` (`WaitAllUntilTimeout`), `client` is `sync` or `async`: `TestResultScore`
has sync clients and waits for all, the other tests have async clients and wait
either way, as their duration is configured. A closed sync client drops its
answers, a closed async one still gives them out (`GivesOut`, `HasNoMore`). The
timeout can fire whenever main sleeps. `reported` is the summary as `Summary`
copies it, in two reads. The `enable_` a worker reads after `Send` is read in
the same step; one that reads it later and finds it cleared leaves behind what a
worker leaves that stays at its queue until the queue is closed.

A `Close` wakes whoever waits at its queue, unless the thread is between its
predicate and its sleep: `Close` takes no mutex and may slip past any set of them
(`Close`, `missed`). These are the workers (line 248), the calculator (line 311)
and the collectors of sync clients (search_service_sync_client.h:114). A missed
thread sleeps until a spurious wake-up (`WakeSpuriously`), and the destructor's
join waits for it. So `RunEnds` says that in the end a run is joined, or is left at
one of two places: in `Summary`, whose notification was missed, or in the joins,
with a thread that a `Close` slipped past.

Errors, timeouts and successes of calls are one counter, `outcomes`: no property
tells them apart. `interupted` is part of the summaries of `TestAll`.

### MaxQps, Comparator and TestAll

A summary is the rate it was taken at, 0 being the empty one. `steady` services
pass exactly up to `capacity`; the others pass or fail at will.

`TestAll` puts `SetupSearchService`, the other three tests and what
`TestMaxQpsCalcStat` makes of the search around it. A benchmark is its summary:
how many requests were completed, how many succeeded, its time, the average
score and the interruption. Only answers that succeeded are compared. They are at
least `SuccessTh` of a thousand of the completed ones, or the search takes the
benchmark for a failure (`PerMille`); the time is between `Shortest` and
`Longest`, in parts of which `Second` make a second, and `max_qps` is the
successes by the seconds, as the code divides them. How many may be missing is
what `Benchmark` shows: one per client when the benchmark waits for all
(`Waited`), those that are late when it has a timeout (`Timed`, `Late`). A quotient of zeros is `NaN`, for which
`Less` is false, as `IsLess` is. A service answers every case alike, rightly or
not, and badly above `accurate`. The response time test is the configured one: no
duration, each case once, one client. A test case without a reference interrupts
its benchmark (`emptyRef`), after the summary was taken if it came last. A
benchmark returns (`Returns`) or hangs in one of the ways `Benchmark` shows
(`Hangs`), which leaves `TestAll` at the stage `stuck`. `PricesAgree` may come out
either way when it reads past the end of a list, as the code does.

### CsvReader, TokenBucket and LoadGenerator

A cell of the buffer holds the position of the byte it was filled with, so that
a byte lost, repeated or overwritten shows. Reading a block, copying it and
asking for the next are steps of their own: the critical sections of
`AsynchronousReader`. `FinishRead` is `finish_read`, the copy and `start_read`:
nothing else touches the blocks between them. Lines that make no row throw, which
ends the program (`failed`).

`TokenBucket` has a clock that ticks between any two steps and a worker that
wakes any time after it is due. `LoadGenerator` is one run with one client:
`Load` reads the file through `CsvReader`, `PopPreload` and `PopAsync` give the
cases out, `Send` is `processRequestWorker` at its bucket, `StopReader` to
`DestroyReader` take it all down. The thread of `TestCaseReaderAsync` reads rows
as `CsvReader` shows they are read; a round of it is reading one row and pushing
it, and a `Push` into a full queue waits until there is room or the queue closes.
`Stop` closes the queue without its mutex: a `Push` between its predicate and its
sleep may miss that (`missed`) and sleep on, and then `Stop` never returns from
its join.

## 3. Runs

`pass` runs check every listed property on the whole state space; `violation`
runs show that something the repository says of itself is not what the code does.

| Run | Instance | States | Shows |
|---|---|---|---|
| `handoff_safety` | 3 requests, 2 slots, every call losable, 1 spurious wakeup, symmetric | 117,169 | replies, writes and wakeups across the reuse of memory |
| `handoff_promise` | 2 requests, 2 slots, one call losable | 34,033 | refinement of `SearchPromise`; a request is answered unless its call is lost or its mutex was trampled |
| `handoff_stranded` (violation) | 2 requests, 1 slot | | `Finish` unlocks and notifies an object its waiter may have deleted; a later request in the same memory then sleeps for ever |
| `search_centralised` | 3 offers per ad, up to 3 ads, ties, bids of nothing, keywords on both nodes, `topn` 0 to 2 and 5, which `int` of three bits makes negative | 464,216 | the distributed answer is the centralised one, prices included; Search only crashes with nothing to list |
| `search_empty` (violation) | keywords without ads | | an empty list is written to at index -1 |
| `index_exact` | all files of up to 4 lines over 5 keywords, 3 rows of memory, 3-bit keywords | 31,156 | a keyword finds its active lines, on its own node only |
| `startup` | 3 addresses, 2 lives per node | 88,514 | the life of node 0 that is published, or was found, itself reached a serving node 1; it stays registered unless a destructor removed the key; nobody waits in a circle |
| `startup_unregistered` (violation) | the same | | a failing node 1 removes node 0's key |
| `queue` | 2 producers, 2 consumers, `TryPop`, capacities 0, 1, 2, two pushes each, 1 spurious wakeup | 78,995 | no lost wakeup while open; only threads `Close` slipped past are stuck |
| `benchmark` | 2 clients, sync and async, 3 requests, both waits | 1,228,091 | at most one response per collector is missing, the summary is torn by one at most, a run ends unless Summary's notification or a `Close` is missed |
| `load` | all files of up to 10 bytes with line feeds and of up to 6 with carriage returns and malformed bytes, blocks of 3; rounds of three files by both readers; five rates | 185,265 | rows are lines, cases are asked in rounds, requests keep the pace, a run and its threads end unless the `Close` of `Stop` slips past a `Push` |
| `test_all` | 594 configurations and services of the search, answered well up to either of two rates, 3,360 pairs of answer and reference through the scores, small runs of all tests with missing references, failed answers within the threshold and benchmarks shorter and longer than configured | 392,326 | the search is never unthrottled, no worse than its first phase and exact to a step; scores follow the rule; tests passed were made; `TestAll` ends or hangs in a benchmark |

### Why the bounds are enough

- Hand-off: two slots with three requests let an object be freed, taken again
  and hit by the late steps of the first, while a third runs. One slot is enough
  to strand a request, so that run uses one.
- Search: the cut keeps `topn + 1` ads, so a node needs three to lose one at
  `topn` 1; the offers contain a tie in score and a worse offer of the same ad;
  keywords repeat and stand in either order; bids of zero tie at different rates.
- Index: four lines with three rows of memory reach the overrun, several ranges
  and an empty shard; 3-bit keywords have both signs.
- Start-up: two lives show a key left by the first; three addresses let neither
  node meet its old one.
- Queue: overtaking takes a thread awake and one asleep on each side.
- Benchmark: with three requests on two clients one client has two, so that the
  loss of one response per collector is less than all of them. A `Close` may slip
  past any of the five threads that wait at queues.
- Load: ten bytes are three blocks and one more, so that the thread is asked
  for a block, a part of one and nothing, while every place of a line's end in a
  block occurs. A queue of one is full as soon as the thread runs ahead. Five
  requests in eight ticks hold a late wake-up and its making up at every rate.
- Tests: searches start below, at and above the upper limit, and first steps
  lead to zero and below it; three places for ads give repetitions and all
  orders, and lists of prices shorter than the ads; numbers of cases and
  requests stand on both sides of `SampleStep` and of the number of clients. At a
  threshold of 800 of a thousand one answer of five may fail; the benchmarks
  configured for two seconds take 2 to 5 half seconds, so that `max_qps` is above, at
  and below the rate asked for, and is rounded.
- `TLC` deadlock checking is off in every run: the systems stop by themselves when
  their bounded work is done, and what has to be reached is a liveness property.

### Fairness

Every thread that can run is run (weak fairness per thread): they are
operating-system threads that share no lock for long. A call that is not `lost`
completes, as TCP delivers or reports an error; `Losable` calls have no fairness,
because no deadline is set on them. In the testbench every call has a deadline,
so each is answered. Starts, crashes, removals and spurious wakeups have none,
nor has the slip of a `Close`, which may or may not happen.
`queue` leaves the calls of `Close` to the owner, but requires one begun to be
completed. `load` is fair to main, to the reader's thread and to the reading
thread, not to the clock or the worker: a run that ends does so without them, as
what a wait waits for is left open there. `benchmark` is fair to main and to the
other threads taken together: their steps are bounded, so that no fairness among
them is needed. `test_all` assumes what `RunEnds` shows, that a benchmark returns or
hangs: it is fair to `Returns`, which hanging disables for good.

## 4. Disagreements found

| Run | Code | What is said |
|---|---|---|
| `handoff_stranded` | utils.h:264: `Finish` still unlocks and notifies after its flag lets the waiter delete the object | every request waits for node 1's reply and is answered |
| `search_empty` | service.cc:353: `final_results[n - 1]` with `n` = 0 | the protocol file: fewer than `topn` ads are all returned |
| `startup_unregistered` | service.cc:54: every destructor removes the public key | service.cc:103: the address is registered in etcd |

The exact quotations are in `PROJECT.json`. Others were met and have no run:
`topn` is narrowed to `int` (service.cc:191), which does no harm below 2^32 and
cuts the answer short above; an odd keyword of
2^63 and more belongs to neither node while loading (utils.h:119, against
`keywrod(uint64)` in Readme.md); node 1 reports success when its registration
fails, by `return -1` from a `bool` function (service.cc:180, the step
`RegisterNode1Fails`);
`~SearchServiceClient` joins a thread that never ends (search_service_client.h:38),
which `StartsEnd` excepts;
the average score is compared with `success_percent_th`
(test_search_service.h:111), so that the search may end at a rate that is
refused although a lower one would pass (`CapacityScored` says when); a response
is counted down before it is announced (grpc_benchmark.h:168, against "wait all
request" at line 290), so that the summary may miss one of each collector
(`LossBounded` says how many); a test that compared nothing passes, its average
being no number (`MeasuredUnlessFew` says when that can be); a low rate makes
the stability test unlimited (`NeverFlooded` says how low).

## 5. Proofs

Every theorem is about the module's `Spec` for all values of its constants that
satisfy the module's named assumption.

| Module | Theorems | Argument |
|---|---|---|
| `SearchHandoffProofs` | `TypeCorrect`, `OwnReply`, `WritesSafe`, `NoOtherLostWakeup`, `Implementation` | `IInv`: a live handler owns its slot (`OwnershipInv`); a call that has not set its flag has a handler still waiting (`DeliveryInv`), so that writes find a live object; results are empty until the reply is stored (`ResultsInv`); the mutex excludes as long as nobody trampled it (`MutexInv`). One lemma per action. `Implementation` maps each step to `Ask`, `Resolve`, `Answer` or a stutter, using `IInv` |
| `DistributedSearchProofs` | `StrictOrder`, `BilledWithinBid`, `TypeCorrect`, `WithinBid`, `CrashOnlyEmpty`, `Centralised` | the comparator is irreflexive, transitive and decides between any two ads, without which `std::sort` is undefined. `SearchInv` says what each list is: the best offer of every ad of its node, ranked and cut. A cut list lacks only ads with `topn + 1` better ones, which are all ahead of it in the merged list, too (`NothingLost`). The merge of two ranked lists without repetition is ranked and holds the better offer of each ad, so that an ad stands where the reference counts it. A rounded quotient is at most the bid when the follower scores no more. `Centralised` has the hypothesis that no request asks for `2 * IntHalf` ads or more (section 6). For any index, request and order of keywords |
| `AdIndexProofs` | `TypeCorrect`, `Exactness` | `IInv`: the rows are the kept lines (`LoadInv`), sorted (`SortedInv`), each range holds its keyword's rows and no others (`RangesInv`), the scan stands inside one run (`ScanInv`). Neither the file's length nor the number of keywords is bounded |
| `StartupProofs` | `TypeCorrect`, `HadPeer`, `Registered` | `IInv` adds to the properties that a node 0 past `Connect` has reached its peer in this life (`PeerInv`), so that the life it publishes is one of `met`; an earlier life's key stays that life's, as `publisher` names it. For any addresses and number of lives |
| `ConcurrentQueueProofs` | `TypeCorrect`, `WakeupsKept`, `StuckThreads` | `NoLostWakeup` counts elements against wakeups under way and is inductive together with the mutex (`SleepInv`), for any number of threads and any capacity |
| `BenchmarkProofs` | `TypeCorrect`, `SleepIsLeft`, `LossIsBounded`, `TornByOne` | `AccountsInvariant`: `pending` and `comparing` count the requests at the places between their increments and decrements, moved one place at a time (`MoveCounts`); each collector and the calculator hold one request (`CollectorsOne`, `CalculatorsOne`). Then a summary lacks only requests held by a collector (`SummedInvariant`), and is torn by the one at the calculator. For any number of clients and requests |
| `TestAllProofs` | `TypeCorrect`, `Throttled`, `NeverWorse`, `Exact` of `MaxQps`; `ImplementsSearch`, `TestsSearch`, `TestTypeCorrect`, `JudgedAtCapacity`, `MeasuredOrFew`, `FloodedIfLow`, `ScoredByRule` of `TestAll` | the rate tried is one step above the last that passed, and a lowered limit is a rate that failed; `TestAll` implements `MaxQps`, so that this holds of it, too. `Ordered` is the order of the tests; `LeftBehind` what each leaves: the rate reported is the successes of a benchmark that missed the late answers only, by its time (`Rated`); most of its answers succeeded (`MostSucceeded`, `FewSucceeded`), so that a test passed unmeasured had few answers (`EnoughCompared`) |
| `LoadGeneratorProofs` | `ReaderTypeCorrect`, `RowsExactAlways` of `CsvReader`; `TypeCorrect`, `PacedAlways`, `SleepsBrieflyAlways` of `TokenBucket`; `ImplementsReader`, `ImplementsBucket`, `RunRowsExact`, `RunPaced`, `LoadTypeCorrect`, `InRounds` of `LoadGenerator` | Reader: the window holds successive bytes of the file and the third block those that follow (`WindowInv`), whichever of the thread's steps has been made; the rows read are the lines that start before the position reached (`RowsInv`). Bucket: `Ahead`, that the time of the last token, and what a sleeping worker waits for, leave every earlier request its token times, so that the next request does too (`AppendPaced`). `LoadGenerator` implements both, so that what holds of them holds of it. Rounds: what was given out, what waits in the queue and what the thread has read are successive cases of the repeated file (`GivenOut`, `Successive`). For any file, size of block, queue, rate and number of requests |

In the row of `TestAllProofs`, `ScoredByRule` is about the comparator: that each
ad occurs equally often in two lists, which is how the code counts, means that
one list is the other in another order, which is the rule. The bijection is put
together from one for each ad.

Every listed property was model-checked on the instance of its run before it was
proved, and `LoadInv`, the largest inductive invariant, on `load`, too. What loops, folds and recursive
functions compute is proved by contradiction: if it were false of some length,
it would be false of a least one, which is not zero and whose predecessor it
holds of.

Every invariant and every safety property that a passing run checks is a theorem.
Only model-checked are the liveness properties, because the prover has neither
`ENABLED` nor rules for fairness: `AnsweredUnlessLostOrTrampled`, `StartsEnd`,
`PushReturns`, `Emptied`, `RunEnds`, `LoadEnds` and `TestEnds`.

## 6. Not modelled

- Floating point, parsing and formatting of numbers; latencies and percentiles;
  the capacity score and the weights of the final score, which are arithmetic on
  what is modelled.
- gRPC inside: a call completes, fails or is lost; a completion queue is a set.
  The store behind etcd: a set of keys changed one at a time. Memory models
  weaker than x86-64's.
- `topn` of 2^32 and more, of which the low half is what the search cuts at: the
  answer is then too short, so that no passing search has one, and the theorem
  `Centralised` excludes it.
- Of `csv.h`: the byte order mark, headers, quoting, comments, errors of the
  file. It is a vendored library, modelled because every test case passes through
  its thread; the rest of it is not used or keeps no state.
- `json.hpp` (nlohmann/json) is a vendored parser and writer. Its 24,596 lines
  are seven eighths of the lines in the repository and its use here is
  reading one file of settings and writing one of scores, so that a large part of
  the repository's lines stands for no behaviour of this system. Of the project's
  own sources everything that changes state is modelled.
- `config.h` copies the settings into a structure; `log.h`, `timer.h` and the
  message types keep nothing; the example client and the build files are not part
  of the system.

## 7. Plan

Done: hand-off and its refinement; search; loading; start-up; queue; benchmark;
load generation; comparators and the four tests; the proofs of section 5.

What is left is not worth its cost, or out of reach: start-up and a hand-off in
one module would multiply two state spaces that meet only in whether node 1
answers; liveness has no proofs.
