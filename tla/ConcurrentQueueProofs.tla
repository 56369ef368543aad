------------------------ MODULE ConcurrentQueueProofs ------------------------
(***************************************************************************)
(* Proofs about ConcurrentQueue, for any finite sets of threads and any    *)
(* capacity: no wakeup is lost while the queue is open, and Close strands  *)
(* only threads it slipped past.                                           *)
(***************************************************************************)
EXTENDS ConcurrentQueue, FiniteSetTheorems, TLAPS

\* A thread about to sleep in an open queue still has its predicate false: it
\* holds the mutex, and everything but Close needs it.
SleepInv ==
  ~closed => /\ At(Producers, "sleep") # {} => ~PushReady
             /\ At(Consumers, "sleep") # {} => ~PopReady

\* Once Close has notified, whoever sleeps or is about to was slipped past.
SlippedInv ==
  /\ closer \in {"notified", "done"} =>
       At(Producers, "asleep") \cup At(Producers, "sleep") \subseteq slipped
  /\ closer = "done" =>
       At(Consumers, "asleep") \cup At(Consumers, "sleep") \subseteq slipped

IInv == TypeOK /\ SleepInv /\ NoLostWakeup /\ SlippedInv

\* Sizes of sets of threads of one kind.
LEMMA Sizes ==
  ASSUME NEW X, IsFiniteSet(X)
  PROVE  /\ \A S \in SUBSET X : Cardinality(S) \in Nat
         /\ \A S, T \in SUBSET X : S \subseteq T => Cardinality(S) <= Cardinality(T)
         /\ \A S \in SUBSET X, x \in X : x \notin S => Cardinality(S \cup {x}) = Cardinality(S) + 1
         /\ \A S \in SUBSET X, x \in X : x \in S => Cardinality(S \ {x}) = Cardinality(S) - 1
         /\ \A S \in SUBSET X : \A x : Cardinality(S \ {x}) >= Cardinality(S) - 1
<1>1. ASSUME NEW S \in SUBSET X PROVE IsFiniteSet(S) /\ Cardinality(S) \in Nat
  BY FS_Subset, FS_CardinalityType
<1>2. ASSUME NEW S \in SUBSET X, NEW T \in SUBSET X, S \subseteq T
      PROVE  Cardinality(S) <= Cardinality(T)
  BY <1>1, <1>2, FS_Subset
<1>3. ASSUME NEW S \in SUBSET X, NEW x \in X, x \notin S
      PROVE  Cardinality(S \cup {x}) = Cardinality(S) + 1
  BY <1>1, <1>3, FS_AddElement
<1>4. ASSUME NEW S \in SUBSET X, NEW x \in X, x \in S
      PROVE  Cardinality(S \ {x}) = Cardinality(S) - 1
  BY <1>1, <1>4, FS_RemoveElement
<1>5. ASSUME NEW S \in SUBSET X, NEW x
      PROVE  Cardinality(S \ {x}) >= Cardinality(S) - 1
  BY <1>1, FS_RemoveElement
<1> QED
  BY <1>1, <1>2, <1>3, <1>4, <1>5

\* The initial state satisfies the inductive invariant.
LEMMA InitInv == Init => IInv
<1> SUFFICES ASSUME Init PROVE IInv
  OBVIOUS
<1>1. \A X : X \subseteq Threads =>
        At(X, "sleep") = {} /\ At(X, "asleep") = {}
  BY DEF Init, At
<1>2. At(Producers, "asleep") = {} /\ At(Consumers, "asleep") = {}
      /\ At(Producers, "sleep") = {} /\ At(Consumers, "sleep") = {}
      /\ At(Threads, "sleep") = {}
  BY <1>1 DEF Threads
<1>3. pc \in [Threads -> {"outside", "sleep", "asleep", "awake", "notify", "refused"}]
  BY DEF Init
<1>4. pushed \in [Producers -> 0..Quota] /\ spurious \in 0..MaxSpurious
  BY QueueAssumption DEF Init
<1>5. q \in Seq(Producers) /\ Len(q) = 0 /\ capacity \in Nat
  BY QueueAssumption DEF Init
<1>6. TypeOK
  <2>1. \A t, u \in At(Threads, "sleep") : t = u
    BY <1>2
  <2>2. closed \in BOOLEAN /\ (closed <=> closer # "open") /\ slipped \subseteq Threads
    BY DEF Init
  <2>3. capacity \in Capacities /\ closer = "open"
    BY DEF Init
  <2> QED
    BY <1>3, <1>4, <1>5, <2>1, <2>2, <2>3 DEF TypeOK
<1> QED
  BY <1>2, <1>6 DEF Init, IInv, SleepInv, NoLostWakeup, SlippedInv

\* Types, capacity and the mutex.
LEMMA TypeStep == IInv /\ Next => TypeOK'
<1> SUFFICES ASSUME IInv, Next PROVE TypeOK'
  OBVIOUS
<1> USE QueueAssumption DEF IInv, TypeOK, Threads, At, MutexFree, Enters, PushReady, PopReady, rest
<1>1. ASSUME NEW p \in Producers, PushWaits(p) PROVE TypeOK'
  BY <1>1 DEF PushWaits
<1>2. ASSUME NEW p \in Producers, Push(p) PROVE TypeOK'
  BY <1>2 DEF Push
<1>3. ASSUME NEW p \in Producers, PushClosed(p) PROVE TypeOK'
  BY <1>3 DEF PushClosed
<1>4. ASSUME NEW p \in Producers, PushNotify(p) PROVE TypeOK'
  BY <1>4 DEF PushNotify, NotifyOne
<1>5. ASSUME NEW c \in Consumers, PopWaits(c) PROVE TypeOK'
  BY <1>5 DEF PopWaits
<1>6. ASSUME NEW c \in Consumers, Pop(c) PROVE TypeOK'
  <2>1. q' \in Seq(Producers) /\ (capacity # 0 => Len(q') <= capacity)
    BY <1>6 DEF Pop
  <2>2. /\ pc' \in [Threads -> {"outside", "sleep", "asleep", "awake", "notify", "refused"}]
        /\ \A t \in Threads : pc'[t] # "sleep"
    BY <1>6 DEF Pop, NotifyOne
  <2> QED
    BY <2>1, <2>2, <1>6 DEF Pop
<1>7. ASSUME NEW c \in Consumers, PopClosed(c) PROVE TypeOK'
  BY <1>7 DEF PopClosed
<1>8. ASSUME TryPop PROVE TypeOK'
  <2>1. q' \in Seq(Producers) /\ (capacity # 0 => Len(q') <= capacity)
    BY <1>8 DEF TryPop
  <2>2. /\ pc' \in [Threads -> {"outside", "sleep", "asleep", "awake", "notify", "refused"}]
        /\ \A t \in Threads : pc'[t] # "sleep"
    BY <1>8 DEF TryPop
  <2> QED
    BY <2>1, <2>2, <1>8 DEF TryPop
<1>9. ASSUME NEW t \in Threads, Sleep(t) PROVE TypeOK'
  BY <1>9 DEF Sleep
<1>10. ASSUME NEW t \in Threads, WakeSpuriously(t) PROVE TypeOK'
  BY <1>10 DEF WakeSpuriously
<1>11. ASSUME Close \/ CloseNotifiesPush \/ CloseNotifiesPop PROVE TypeOK'
  BY <1>11 DEF Close, CloseNotifiesPush, CloseNotifiesPop, NotifyAll
<1> QED
  BY <1>1, <1>2, <1>3, <1>4, <1>5, <1>6, <1>7, <1>8, <1>9, <1>10, <1>11
  DEF Next, Producer, Consumer

\* Nothing but Close happens between a predicate and its sleep.
LEMMA SleepStep == IInv /\ Next => SleepInv'
<1> SUFFICES ASSUME IInv, Next PROVE SleepInv'
  OBVIOUS
<1> USE QueueAssumption
  DEF IInv, TypeOK, SleepInv, Threads, At, MutexFree, Enters, PushReady, PopReady, rest
<1>1. ASSUME NEW p \in Producers, PushWaits(p) PROVE SleepInv'
  BY <1>1 DEF PushWaits
<1>2. ASSUME NEW p \in Producers, Push(p) PROVE SleepInv'
  BY <1>2 DEF Push
<1>3. ASSUME NEW p \in Producers, PushClosed(p) PROVE SleepInv'
  BY <1>3 DEF PushClosed
<1>4. ASSUME NEW p \in Producers, PushNotify(p) PROVE SleepInv'
  BY <1>4 DEF PushNotify, NotifyOne
<1>5. ASSUME NEW c \in Consumers, PopWaits(c) PROVE SleepInv'
  BY <1>5 DEF PopWaits
<1>6. ASSUME NEW c \in Consumers, Pop(c) PROVE SleepInv'
  BY <1>6 DEF Pop, NotifyOne
<1>7. ASSUME NEW c \in Consumers, PopClosed(c) PROVE SleepInv'
  BY <1>7 DEF PopClosed
<1>8. ASSUME TryPop PROVE SleepInv'
  BY <1>8 DEF TryPop
<1>9. ASSUME NEW t \in Threads, Sleep(t) PROVE SleepInv'
  BY <1>9 DEF Sleep
<1>10. ASSUME NEW t \in Threads, WakeSpuriously(t) PROVE SleepInv'
  BY <1>10 DEF WakeSpuriously
<1>11. ASSUME Close \/ CloseNotifiesPush \/ CloseNotifiesPop PROVE SleepInv'
  BY <1>11 DEF Close, CloseNotifiesPush, CloseNotifiesPop, NotifyAll
<1> QED
  BY <1>1, <1>2, <1>3, <1>4, <1>5, <1>6, <1>7, <1>8, <1>9, <1>10, <1>11
  DEF Next, Producer, Consumer

\* With the queue closed nobody goes to sleep any more.
LEMMA SlippedStep == IInv /\ Next => SlippedInv'
<1> SUFFICES ASSUME IInv, Next PROVE SlippedInv'
  OBVIOUS
<1> USE QueueAssumption
  DEF IInv, TypeOK, SlippedInv, Threads, At, MutexFree, Enters, PushReady, PopReady, rest
<1>1. ASSUME NEW p \in Producers, PushWaits(p) PROVE SlippedInv'
  BY <1>1 DEF PushWaits
<1>2. ASSUME NEW p \in Producers, Push(p) PROVE SlippedInv'
  BY <1>2 DEF Push
<1>3. ASSUME NEW p \in Producers, PushClosed(p) PROVE SlippedInv'
  BY <1>3 DEF PushClosed
<1>4. ASSUME NEW p \in Producers, PushNotify(p) PROVE SlippedInv'
  BY <1>4 DEF PushNotify, NotifyOne
<1>5. ASSUME NEW c \in Consumers, PopWaits(c) PROVE SlippedInv'
  BY <1>5 DEF PopWaits
<1>6. ASSUME NEW c \in Consumers, Pop(c) PROVE SlippedInv'
  BY <1>6 DEF Pop, NotifyOne
<1>7. ASSUME NEW c \in Consumers, PopClosed(c) PROVE SlippedInv'
  BY <1>7 DEF PopClosed
<1>8. ASSUME TryPop PROVE SlippedInv'
  BY <1>8 DEF TryPop
<1>9. ASSUME NEW t \in Threads, Sleep(t) PROVE SlippedInv'
  BY <1>9 DEF Sleep
<1>10. ASSUME NEW t \in Threads, WakeSpuriously(t) PROVE SlippedInv'
  BY <1>10 DEF WakeSpuriously
<1>11. ASSUME Close \/ CloseNotifiesPush \/ CloseNotifiesPop PROVE SlippedInv'
  BY <1>11 DEF Close, CloseNotifiesPush, CloseNotifiesPop, NotifyAll
<1> QED
  BY <1>1, <1>2, <1>3, <1>4, <1>5, <1>6, <1>7, <1>8, <1>9, <1>10, <1>11
  DEF Next, Producer, Consumer

\* Each element is answered for by a consumer awake or a notification to come.
LEMMA ConsumersStep ==
  ASSUME IInv, Next, TypeOK', ~closed', At(Consumers, "asleep")' # {}
  PROVE  Len(q') <= Cardinality(At(Consumers, "awake")') + Cardinality(At(Producers, "notify")')
<1> DEFINE A == At(Consumers, "awake")
           N == At(Producers, "notify")
           Goal == Len(q') <= Cardinality(A') + Cardinality(N')
<1>a. A \in SUBSET Consumers /\ A' \in SUBSET Consumers
  BY DEF At
<1>n. N \in SUBSET Producers /\ N' \in SUBSET Producers
  BY DEF At
<1>s. /\ Cardinality(A) \in Nat /\ Cardinality(A') \in Nat
      /\ Cardinality(N) \in Nat /\ Cardinality(N') \in Nat
      /\ Len(q) \in Nat
  BY <1>a, <1>n, Sizes, QueueAssumption DEF IInv, TypeOK
<1>h. ~closed /\ At(Consumers, "asleep") # {} => Len(q) <= Cardinality(A) + Cardinality(N)
  BY DEF IInv, NoLostWakeup
<1>k. ASSUME q' = q, ~closed, At(Consumers, "asleep") # {}, A \subseteq A', N \subseteq N'
      PROVE  Goal
  <2>1. Cardinality(A) <= Cardinality(A') /\ Cardinality(N) <= Cardinality(N')
    BY <1>k, <1>a, <1>n, Sizes, QueueAssumption
  <2> QED
    BY <2>1, <1>k, <1>s, <1>h
<1> HIDE DEF Goal
<1>1. ASSUME NEW p \in Producers, PushWaits(p) PROVE Goal
  BY <1>1, <1>k, QueueAssumption DEF PushWaits, Enters, At, IInv, TypeOK, Threads
<1>2. ASSUME NEW p \in Producers, Push(p) PROVE Goal
  <2>1. A' = A /\ N' = N \cup {p} /\ p \notin N /\ At(Consumers, "asleep")' = At(Consumers, "asleep")
    BY <1>2, QueueAssumption DEF Push, Enters, At, IInv, TypeOK, Threads
  <2>2. Len(q') = Len(q) + 1 /\ ~closed
    BY <1>2 DEF Push, IInv, TypeOK
  <2>3. Cardinality(N') = Cardinality(N) + 1
    BY <2>1, <1>n, Sizes, QueueAssumption
  <2> QED
    BY <2>1, <2>2, <2>3, <1>h, <1>s DEF Goal
<1>3. ASSUME NEW p \in Producers, PushClosed(p) PROVE Goal
  BY <1>3 DEF PushClosed
<1>4. ASSUME NEW p \in Producers, PushNotify(p) PROVE Goal
  <2>1. At(Consumers, "asleep") # {}
    BY <1>4, QueueAssumption DEF PushNotify, NotifyOne, At, IInv, TypeOK, Threads
  <2>2. PICK w \in At(Consumers, "asleep") : pc' = [pc EXCEPT ![p] = "outside", ![w] = "awake"]
    BY <1>4, <2>1 DEF PushNotify, NotifyOne
  <2>3. A' = A \cup {w} /\ w \notin A /\ w \in Consumers /\ N' = N \ {p} /\ p \in N
    BY <1>4, <2>2, QueueAssumption DEF PushNotify, At, IInv, TypeOK, Threads
  <2>4. Cardinality(A') = Cardinality(A) + 1 /\ Cardinality(N') = Cardinality(N) - 1
    BY <2>3, <1>a, <1>n, Sizes, QueueAssumption
  <2>5. q' = q /\ ~closed
    BY <1>4 DEF PushNotify
  <2> QED
    BY <2>1, <2>4, <2>5, <1>h, <1>s DEF Goal
<1>5. ASSUME NEW c \in Consumers, PopWaits(c) PROVE Goal
  BY <1>5, <1>s DEF PopWaits, PopReady, Goal
<1>6. ASSUME NEW c \in Consumers, Pop(c) PROVE Goal
  <2>1. Len(q') = Len(q) - 1 /\ ~closed
    BY <1>6 DEF Pop, IInv, TypeOK
  <2>2. A \ {c} \subseteq A' /\ N \subseteq N'
    BY <1>6, QueueAssumption DEF Pop, NotifyOne, Enters, At, IInv, TypeOK, Threads
  <2>3. At(Consumers, "asleep") # {}
    BY <1>6, QueueAssumption DEF Pop, NotifyOne, Enters, At, IInv, TypeOK, Threads
  <2>4. Cardinality(A) - 1 <= Cardinality(A \ {c}) /\ Cardinality(A \ {c}) \in Nat
    BY <1>a, <1>s, Sizes, QueueAssumption
  <2>5. Cardinality(A \ {c}) <= Cardinality(A') /\ Cardinality(N) <= Cardinality(N')
    BY <2>2, <1>a, <1>n, Sizes, QueueAssumption
  <2> QED
    BY <2>1, <2>3, <2>4, <2>5, <1>h, <1>s DEF Goal
<1>7. ASSUME NEW c \in Consumers, PopClosed(c) PROVE Goal
  BY <1>7 DEF PopClosed
<1>8. ASSUME TryPop PROVE Goal
  <2>1. Len(q') = Len(q) - 1 /\ ~closed
    BY <1>8 DEF TryPop, IInv, TypeOK
  <2>2. A' = A /\ N' = N /\ At(Consumers, "asleep")' = At(Consumers, "asleep")
    BY <1>8, QueueAssumption DEF TryPop, At, IInv, TypeOK, Threads
  <2> QED
    BY <2>1, <2>2, <1>h, <1>s DEF Goal
<1>9. ASSUME NEW t \in Threads, Sleep(t) PROVE Goal
  <2>1. CASE t \in Consumers
    <3>1. q = <<>>
      BY <1>9, <2>1 DEF Sleep, IInv, SleepInv, PopReady, At
    <3> QED
      BY <3>1, <1>9, <1>s DEF Sleep, Goal
  <2>2. CASE t \in Producers
    BY <1>9, <2>2, <1>k, QueueAssumption DEF Sleep, At, IInv, TypeOK, Threads
  <2> QED
    BY <2>1, <2>2 DEF Threads
<1>10. ASSUME NEW t \in Threads, WakeSpuriously(t) PROVE Goal
  BY <1>10, <1>k, QueueAssumption DEF WakeSpuriously, At, IInv, TypeOK, Threads
<1>11. ASSUME Close \/ CloseNotifiesPush \/ CloseNotifiesPop PROVE Goal
  BY <1>11 DEF Close, CloseNotifiesPush, CloseNotifiesPop, NotifyAll, IInv, TypeOK
<1> QED
  BY <1>1, <1>2, <1>3, <1>4, <1>5, <1>6, <1>7, <1>8, <1>9, <1>10, <1>11
  DEF Next, Producer, Consumer, Threads, Goal

\* Each free place is answered for by a producer awake.
LEMMA ProducersStep ==
  ASSUME IInv, Next, TypeOK', ~closed', At(Producers, "asleep")' # {}
  PROVE  capacity' - Len(q') <= Cardinality(At(Producers, "awake")')
<1> DEFINE A == At(Producers, "awake")
           Goal == capacity' - Len(q') <= Cardinality(A')
<1>a. A \in SUBSET Producers /\ A' \in SUBSET Producers
  BY DEF At
<1>s. /\ Cardinality(A) \in Nat /\ Cardinality(A') \in Nat
      /\ Len(q) \in Nat /\ capacity \in Nat
  BY <1>a, Sizes, QueueAssumption DEF IInv, TypeOK
<1>h. ~closed /\ At(Producers, "asleep") # {} => capacity - Len(q) <= Cardinality(A)
  BY DEF IInv, NoLostWakeup
<1>k. ASSUME q' = q, capacity' = capacity, ~closed, At(Producers, "asleep") # {}, A \subseteq A'
      PROVE  Goal
  <2>1. Cardinality(A) <= Cardinality(A')
    BY <1>k, <1>a, Sizes, QueueAssumption
  <2> QED
    BY <2>1, <1>k, <1>s, <1>h
<1> HIDE DEF Goal
<1>1. ASSUME NEW p \in Producers, PushWaits(p) PROVE Goal
  BY <1>1, <1>s DEF PushWaits, PushReady, rest, Goal
<1>2. ASSUME NEW p \in Producers, Push(p) PROVE Goal
  <2>1. A \ {p} \subseteq A' /\ At(Producers, "asleep") # {}
    BY <1>2, QueueAssumption DEF Push, Enters, At, IInv, TypeOK, Threads
  <2>2. Len(q') = Len(q) + 1 /\ ~closed /\ capacity' = capacity
    BY <1>2 DEF Push, rest, IInv, TypeOK
  <2>3. Cardinality(A) - 1 <= Cardinality(A \ {p}) /\ Cardinality(A \ {p}) \in Nat
    BY <1>a, <1>s, Sizes, QueueAssumption
  <2>4. Cardinality(A \ {p}) <= Cardinality(A')
    BY <2>1, <1>a, Sizes, QueueAssumption
  <2> QED
    BY <2>1, <2>2, <2>3, <2>4, <1>h, <1>s DEF Goal
<1>3. ASSUME NEW p \in Producers, PushClosed(p) PROVE Goal
  BY <1>3 DEF PushClosed
<1>4. ASSUME NEW p \in Producers, PushNotify(p) PROVE Goal
  BY <1>4, <1>k, QueueAssumption DEF PushNotify, NotifyOne, rest, At, IInv, TypeOK, Threads
<1>5. ASSUME NEW c \in Consumers, PopWaits(c) PROVE Goal
  BY <1>5, <1>k, QueueAssumption DEF PopWaits, Enters, rest, At, IInv, TypeOK, Threads
<1>6. ASSUME NEW c \in Consumers, Pop(c) PROVE Goal
  <2>1. At(Producers, "asleep") # {}
    BY <1>6, QueueAssumption DEF Pop, NotifyOne, At, IInv, TypeOK, Threads
  <2>2. PICK w \in At(Producers, "asleep") : pc' = [pc EXCEPT ![c] = "outside", ![w] = "awake"]
    BY <1>6, <2>1 DEF Pop, NotifyOne
  <2>3. A' = A \cup {w} /\ w \notin A /\ w \in Producers
    BY <1>6, <2>2, QueueAssumption DEF At, IInv, TypeOK, Threads
  <2>4. Cardinality(A') = Cardinality(A) + 1
    BY <2>3, <1>a, Sizes, QueueAssumption
  <2>5. Len(q') = Len(q) - 1 /\ ~closed /\ capacity' = capacity
    BY <1>6 DEF Pop, rest, IInv, TypeOK
  <2> QED
    BY <2>1, <2>4, <2>5, <1>h, <1>s DEF Goal
<1>7. ASSUME NEW c \in Consumers, PopClosed(c) PROVE Goal
  BY <1>7 DEF PopClosed
<1>8. ASSUME TryPop PROVE Goal
  <2>1. At(Producers, "asleep") # {}
    BY <1>8, QueueAssumption DEF TryPop, At, IInv, TypeOK, Threads
  <2>2. PICK w \in At(Producers, "asleep") : pc' = [pc EXCEPT ![w] = "awake"]
    BY <1>8, <2>1 DEF TryPop
  <2>3. A' = A \cup {w} /\ w \notin A /\ w \in Producers
    BY <2>2, QueueAssumption DEF At, IInv, TypeOK, Threads
  <2>4. Cardinality(A') = Cardinality(A) + 1
    BY <2>3, <1>a, Sizes, QueueAssumption
  <2>5. Len(q') = Len(q) - 1 /\ ~closed /\ capacity' = capacity
    BY <1>8 DEF TryPop, rest, IInv, TypeOK
  <2> QED
    BY <2>1, <2>4, <2>5, <1>h, <1>s DEF Goal
<1>9. ASSUME NEW t \in Threads, Sleep(t) PROVE Goal
  <2>1. CASE t \in Producers
    <3>1. ~PushReady
      BY <1>9, <2>1 DEF Sleep, IInv, SleepInv, At
    <3> QED
      BY <3>1, <1>9, <1>s DEF Sleep, PushReady, rest, Goal
  <2>2. CASE t \in Consumers
    BY <1>9, <2>2, <1>k, QueueAssumption DEF Sleep, rest, At, IInv, TypeOK, Threads
  <2> QED
    BY <2>1, <2>2 DEF Threads
<1>10. ASSUME NEW t \in Threads, WakeSpuriously(t) PROVE Goal
  BY <1>10, <1>k, QueueAssumption DEF WakeSpuriously, At, IInv, TypeOK, Threads
<1>11. ASSUME Close \/ CloseNotifiesPush \/ CloseNotifiesPop PROVE Goal
  BY <1>11 DEF Close, CloseNotifiesPush, CloseNotifiesPop, NotifyAll, IInv, TypeOK
<1> QED
  BY <1>1, <1>2, <1>3, <1>4, <1>5, <1>6, <1>7, <1>8, <1>9, <1>10, <1>11
  DEF Next, Producer, Consumer, Threads, Goal

\* The invariant that counts elements against wakeups under way is inductive.
THEOREM Invariance == Spec => []IInv
<1>1. IInv /\ [Next]_vars => IInv'
  <2>1. ASSUME IInv, Next PROVE IInv'
    BY <2>1, TypeStep, SleepStep, SlippedStep, ConsumersStep, ProducersStep
    DEF IInv, NoLostWakeup
  <2>2. ASSUME IInv, UNCHANGED vars PROVE IInv'
    BY <2>2
    DEF IInv, TypeOK, SleepInv, NoLostWakeup, SlippedInv, PushReady, PopReady, At, vars
  <2> QED
    BY <2>1, <2>2
<1> QED
  BY InitInv, <1>1, PTL DEF Spec

\* Types, the capacity bound and the mutex.
THEOREM TypeCorrect == Spec => []TypeOK
  BY Invariance, PTL DEF IInv

\* No wakeup is lost while the queue is open, for any number of threads.
THEOREM WakeupsKept == Spec => []NoLostWakeup
  BY Invariance, PTL DEF IInv

\* After Close only threads it slipped past are left asleep.
THEOREM StuckThreads == Spec => []StuckOnlyIfSlipped
<1>1. IInv => StuckOnlyIfSlipped
  BY DEF IInv, SlippedInv, StuckOnlyIfSlipped
<1> QED
  BY <1>1, Invariance, PTL
=============================================================================
