--------------------------- MODULE ConcurrentQueue ---------------------------
(***************************************************************************)
(* ConcurrentQueue of the testbench: a queue with an optional capacity,    *)
(* one mutex and two condition variables.  Producers Push, consumers       *)
(* WaitAndPop until they are told Closed, drainers TryPop, and the owner   *)
(* closes the queue at some time, which drops what is left in it.          *)
(*                                                                         *)
(* A critical section is one step, except that going to sleep takes two:   *)
(* with its predicate found false a thread still holds the mutex, and only *)
(* then sleeps and releases it.  Close does not take the mutex.            *)
(***************************************************************************)
EXTENDS Integers, Sequences, FiniteSets

CONSTANTS
  Producers, Consumers,   \* the threads
  Drainers,               \* threads that only TryPop
  Capacities,             \* capacities a queue may have; 0 is unbounded
  Quota,                  \* bound on the pushes of a producer
  MaxSpurious             \* bound on spurious wakeups

ASSUME QueueAssumption ==
  /\ IsFiniteSet(Producers)
  /\ IsFiniteSet(Consumers)
  /\ Producers \cap Consumers = {}
  /\ Capacities \subseteq Nat
  /\ Quota \in Nat
  /\ MaxSpurious \in Nat

VARIABLES
  capacity,     \* capacity_
  q,            \* q_, each element by its producer
  closed,       \* closed_
  pc,           \* where each producer and consumer stands
  pushed,       \* pushes of each producer
  closer,       \* where the owner stands in Close
  spurious,     \* spurious wakeups so far
  slipped       \* threads that Close notified between predicate and sleep

vars == <<capacity, q, closed, pc, pushed, closer, spurious, slipped>>
rest == <<capacity, closer, spurious, slipped>>

Threads == Producers \cup Consumers
At(threads, stage) == {t \in threads : pc[t] = stage}

Init ==
  /\ capacity \in Capacities
  /\ q = <<>>
  /\ closed = FALSE
  /\ pc = [t \in Threads |-> "outside"]
  /\ pushed = [p \in Producers |-> 0]
  /\ closer = "open"
  /\ spurious = 0
  /\ slipped = {}

\* A thread holds the mutex across steps only while it is about to sleep.
MutexFree == At(Threads, "sleep") = {}

\* Mutant of PushReady: a full queue takes one more.
Bug_PushReadyOneMore == capacity = 0 \/ Len(q) <= capacity \/ closed

\* The predicates of the two waits.
PushReady == capacity = 0 \/ Len(q) < capacity \/ closed
PopReady == q # <<>> \/ closed

\* notify_one called by t, which moves on to stage: wakes one of the
\* sleepers, if there are any.
NotifyOne(sleepers, t, stage) ==
  IF sleepers = {} THEN pc' = [pc EXCEPT ![t] = stage]
  ELSE \E w \in sleepers : pc' = [pc EXCEPT ![t] = stage, ![w] = "awake"]

\* A thread outside, or just woken, gets the mutex.
Enters(t) == pc[t] \in {"outside", "awake"} /\ MutexFree

-----------------------------------------------------------------------------
(* Push *)

PushWaits(p) ==
  /\ Enters(p)
  /\ pushed[p] < Quota
  /\ ~PushReady
  /\ pc' = [pc EXCEPT ![p] = "sleep"]
  /\ UNCHANGED <<q, closed, pushed, rest>>

\* The element is in and the mutex released; the notification is to come.
Push(p) ==
  /\ Enters(p)
  /\ pushed[p] < Quota
  /\ PushReady /\ ~closed
  /\ q' = Append(q, p)
  /\ pushed' = [pushed EXCEPT ![p] = @ + 1]
  /\ pc' = [pc EXCEPT ![p] = "notify"]
  /\ UNCHANGED <<closed, rest>>

PushClosed(p) ==
  /\ Enters(p)
  /\ pushed[p] < Quota
  /\ closed
  /\ pc' = [pc EXCEPT ![p] = "refused"]
  /\ UNCHANGED <<q, closed, pushed, rest>>

\* Mutant of PushNotify: the other condition variable is notified.
Bug_PushNotifiesProducers(p) ==
  /\ pc[p] = "notify"
  /\ NotifyOne(At(Producers, "asleep"), p, "outside")
  /\ UNCHANGED <<q, closed, pushed, rest>>

PushNotify(p) ==
  /\ pc[p] = "notify"
  /\ NotifyOne(At(Consumers, "asleep"), p, "outside")
  /\ UNCHANGED <<q, closed, pushed, rest>>

-----------------------------------------------------------------------------
(* WaitAndPop and TryPop *)

PopWaits(c) ==
  /\ Enters(c)
  /\ ~PopReady
  /\ pc' = [pc EXCEPT ![c] = "sleep"]
  /\ UNCHANGED <<q, closed, pushed, rest>>

Pop(c) ==
  /\ Enters(c)
  /\ q # <<>> /\ ~closed
  /\ q' = Tail(q)
  /\ NotifyOne(At(Producers, "asleep"), c, "outside")
  /\ UNCHANGED <<closed, pushed, rest>>

\* A consumer that is told Closed does not come back.
PopClosed(c) ==
  /\ Enters(c)
  /\ closed
  /\ pc' = [pc EXCEPT ![c] = "refused"]
  /\ UNCHANGED <<q, closed, pushed, rest>>

\* TryPop never waits, and changes nothing when it finds the queue empty or
\* closed.
TryPop ==
  /\ MutexFree
  /\ q # <<>> /\ ~closed
  /\ q' = Tail(q)
  /\ IF At(Producers, "asleep") = {} THEN UNCHANGED pc
     ELSE \E w \in At(Producers, "asleep") : pc' = [pc EXCEPT ![w] = "awake"]
  /\ UNCHANGED <<closed, pushed, rest>>

-----------------------------------------------------------------------------
(* wait *)

Sleep(t) ==
  /\ pc[t] = "sleep"
  /\ pc' = [pc EXCEPT ![t] = "asleep"]
  /\ UNCHANGED <<q, closed, pushed, rest>>

WakeSpuriously(t) ==
  /\ pc[t] = "asleep"
  /\ spurious < MaxSpurious
  /\ spurious' = spurious + 1
  /\ pc' = [pc EXCEPT ![t] = "awake"]
  /\ UNCHANGED <<capacity, q, closed, pushed, closer, slipped>>

-----------------------------------------------------------------------------
(* Close *)

Close ==
  /\ closer = "open"
  /\ closed' = TRUE
  /\ closer' = "stored"
  /\ UNCHANGED <<capacity, q, pc, pushed, spurious, slipped>>

\* notify_all: every sleeper wakes, and whoever is about to sleep is missed.
NotifyAll(threads) ==
  /\ pc' = [t \in Threads |-> IF t \in At(threads, "asleep") THEN "awake" ELSE pc[t]]
  /\ slipped' = slipped \cup At(threads, "sleep")
  /\ UNCHANGED <<capacity, q, closed, pushed, spurious>>

\* Mutant of CloseNotifiesPush: the consumers are notified twice.
Bug_CloseNotifiesPopTwice ==
  /\ closer = "stored"
  /\ NotifyAll(Consumers)
  /\ closer' = "notified"

CloseNotifiesPush ==
  /\ closer = "stored"
  /\ NotifyAll(Producers)
  /\ closer' = "notified"

\* Mutant of CloseNotifiesPop: the producers are notified twice.
Bug_CloseNotifiesPushTwice ==
  /\ closer = "notified"
  /\ NotifyAll(Producers)
  /\ closer' = "done"

CloseNotifiesPop ==
  /\ closer = "notified"
  /\ NotifyAll(Consumers)
  /\ closer' = "done"

-----------------------------------------------------------------------------
Producer(p) == PushWaits(p) \/ Push(p) \/ PushClosed(p) \/ PushNotify(p) \/ Sleep(p)
Consumer(c) == PopWaits(c) \/ Pop(c) \/ PopClosed(c) \/ Sleep(c)

Next ==
  \/ \E p \in Producers : Producer(p)
  \/ \E c \in Consumers : Consumer(c)
  \/ \E t \in Threads : WakeSpuriously(t)
  \/ Drainers # {} /\ TryPop
  \/ Close \/ CloseNotifiesPush \/ CloseNotifiesPop

Spec == Init /\ [][Next]_vars

\* Threads go on running, and a Close once begun is completed.
FairSpec ==
  /\ Spec
  /\ \A p \in Producers : WF_vars(Producer(p))
  /\ \A c \in Consumers : WF_vars(Consumer(c))
  /\ WF_vars(CloseNotifiesPush \/ CloseNotifiesPop)

-----------------------------------------------------------------------------
\* Types; the capacity is kept, and one thread at most holds the mutex
\* (Push, WaitAndPop, TryPop).
TypeOK ==
  /\ capacity \in Capacities
  /\ q \in Seq(Producers)
  /\ capacity # 0 => Len(q) <= capacity
  /\ closed \in BOOLEAN
  /\ pc \in [Threads -> {"outside", "sleep", "asleep", "awake", "notify", "refused"}]
  /\ \A t, u \in At(Threads, "sleep") : t = u
  /\ pushed \in [Producers -> 0..Quota]
  /\ closer \in {"open", "stored", "notified", "done"}
  /\ closed <=> closer # "open"
  /\ spurious \in 0..MaxSpurious
  /\ slipped \subseteq Threads

\* No wakeup is lost while the queue is open, although notify_one may choose a
\* thread that another has overtaken: a consumer sleeps only if each element is
\* answered for by a consumer awake or a notification to come, and a producer
\* only if each free place is answered for by a producer awake.
NoLostWakeup ==
  /\ ~closed /\ At(Consumers, "asleep") # {} =>
       Len(q) <= Cardinality(At(Consumers, "awake")) + Cardinality(At(Producers, "notify"))
  /\ ~closed /\ At(Producers, "asleep") # {} =>
       capacity - Len(q) <= Cardinality(At(Producers, "awake"))

\* After Close a thread is left asleep only if it was between its predicate and
\* its sleep, as Close sets the flag and notifies without the mutex.
StuckOnlyIfSlipped ==
  /\ closer = "done" => At(Consumers, "asleep") \subseteq slipped
  /\ closer \in {"notified", "done"} => At(Producers, "asleep") \subseteq slipped

\* A blocked producer gets room, or is told that the queue is closed, unless
\* Close slipped past it.
PushReturns ==
  \A p \in Producers : pc[p] = "asleep" ~> pc[p] \in {"outside", "notify", "refused"} \/ p \in slipped

\* An open queue with consumers is emptied.
Emptied == q # <<>> ~> q = <<>> \/ closed
=============================================================================
