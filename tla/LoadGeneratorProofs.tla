------------------------- MODULE LoadGeneratorProofs -------------------------
(***************************************************************************)
(* What feeds the benchmark, for every file, block length, rate and clock: *)
(* a worker is paced, the rows read are the lines of the file wherever the *)
(* blocks cut it, and the requests are the rows in rounds.  The            *)
(* LoadGenerator uses its bucket and its reader as TokenBucket and         *)
(* CsvReader allow, so that what holds of them holds of it.                *)
(***************************************************************************)
EXTENDS LoadGenerator, FiniteSetTheorems, WellFoundedInduction, TLAPS

-----------------------------------------------------------------------------
\* The time of the last token runs ahead of what each request before it leaves
\* to come, and so does the time a sleeping worker waits for, by a token more.
Ahead ==
  LET n == Len(sends) IN
  /\ \A i \in 1..n : sends[i] <= now
  /\ ~asleep /\ rate # 0 => \A i \in 1..n - 1 : last >= sends[i] + (n - i - 1) * TimePerToken
  /\ asleep => /\ earliest = last + TimePerToken
               /\ \A i \in 1..n : earliest >= sends[i] + (n - i) * TimePerToken

IInv == BucketTypeOK /\ Ahead /\ Paced

\* Multiplication distributes: a token more is a token time more.
LEMMA OneMore ==
  ASSUME NEW k \in Int, NEW p \in Int
  PROVE  /\ k * p \in Int
         /\ (k + 1) * p = k * p + p
         /\ 0 * p = 0
  BY Z3

\* The token time is a natural number (TokenBucket's constructor).
LEMMA TokenTime == BucketTypeOK => TimePerToken \in Nat
<1> SUFFICES ASSUME BucketTypeOK PROVE TimePerToken \in Nat
  OBVIOUS
<1>1. rate \in Nat /\ Second \in Nat
  BY TokenBucketAssumption DEF BucketTypeOK
<1>2. CASE rate = 0
  BY <1>2 DEF TimePerToken
<1>3. CASE rate # 0
  BY <1>1, <1>3, SMT DEF TimePerToken
<1> QED
  BY <1>2, <1>3

\* The earliest time of Consume in arithmetic: a sleeper waits one token time
\* from the last token, as the burst is never ahead of the clock.
LEMMA EarliestIs ==
  ASSUME BucketTypeOK
  PROVE  /\ Earliest \in Int
         /\ Earliest >= last + TimePerToken
         /\ Earliest > now => Earliest = last + TimePerToken
  BY TokenTime DEF Earliest, Later, BurstTime, BucketTypeOK

\* A request sent at `t`, with every earlier one a token time further off than
\* what `t` leaves, keeps the requests paced.
LEMMA AppendPaced ==
  ASSUME NEW s \in Seq(Nat), NEW t \in Nat, NEW p \in Nat,
         \A i, j \in 1..Len(s) : i < j => s[j] - s[i] >= (j - i - 1) * p,
         \A i \in 1..Len(s) : t >= s[i] + (Len(s) - i) * p
  PROVE  \A i, j \in 1..Len(Append(s, t)) :
           i < j => Append(s, t)[j] - Append(s, t)[i] >= (j - i - 1) * p
<1> DEFINE n == Len(s)
           u == Append(s, t)
<1>1. n \in Nat /\ Len(u) = n + 1
  OBVIOUS
<1>2. /\ u[n + 1] = t
      /\ \A i \in 1..n : u[i] = s[i] /\ s[i] \in Nat
  OBVIOUS
<1>3. \A i, j \in 1..n : i < j => s[j] - s[i] >= (j - i - 1) * p
  OBVIOUS
<1>4. \A i \in 1..n : t >= s[i] + (n - i) * p
  OBVIOUS
<1> HIDE DEF n, u
<1> SUFFICES ASSUME NEW i \in 1..n + 1, NEW j \in 1..n + 1, i < j
             PROVE  u[j] - u[i] >= (j - i - 1) * p
  BY <1>1 DEF u
<1>5. i \in 1..n
  BY <1>1
<1>6. CASE j = n + 1
  <2>1. (n - i) * p \in Int /\ j - i - 1 = n - i
    BY <1>1, <1>5, <1>6, OneMore
  <2>2. (j - i - 1) * p = (n - i) * p
    BY <2>1
  <2>3. u[i] = s[i] /\ s[i] \in Nat /\ u[j] = t
    BY <1>2, <1>5, <1>6
  <2>4. t >= s[i] + (n - i) * p
    BY <1>4, <1>5
  <2> DEFINE gap == (n - i) * p
  <2>5. gap \in Int /\ t >= s[i] + gap /\ (j - i - 1) * p = gap
    BY <2>1, <2>2, <2>4
  <2> HIDE DEF gap
  <2> QED
    BY <2>3, <2>5
<1>7. CASE j # n + 1
  <2>1. j \in 1..n
    BY <1>1, <1>7
  <2> QED
    BY <1>2, <1>3, <1>5, <2>1
<1> QED
  BY <1>6, <1>7

\* With a last token as far ahead of the earlier requests as the new request
\* has to be, it stays ahead of all of them.
LEMMA AppendAhead ==
  ASSUME NEW s \in Seq(Nat), NEW t \in Nat, NEW p \in Nat, NEW l \in Nat,
         \A i \in 1..Len(s) : l >= s[i] + (Len(s) - i) * p
  PROVE  \A i \in 1..Len(Append(s, t)) - 1 :
           l >= Append(s, t)[i] + (Len(Append(s, t)) - i - 1) * p
<1> DEFINE n == Len(s)
           u == Append(s, t)
<1>1. n \in Nat /\ Len(u) = n + 1
  OBVIOUS
<1>2. \A i \in 1..n : u[i] = s[i]
  OBVIOUS
<1>3. \A i \in 1..n : l >= s[i] + (n - i) * p
  OBVIOUS
<1> HIDE DEF n, u
<1> SUFFICES ASSUME NEW i \in 1..n PROVE l >= u[i] + (n + 1 - i - 1) * p
  BY <1>1 DEF u
<1>4. n + 1 - i - 1 = n - i
  BY <1>1
<1>5. (n + 1 - i - 1) * p = (n - i) * p
  BY <1>4
<1>6. l >= s[i] + (n - i) * p /\ u[i] = s[i]
  BY <1>2, <1>3
<1> QED
  BY <1>5, <1>6

-----------------------------------------------------------------------------
\* The invariant holds of a new bucket (TokenBucket's constructor).
LEMMA BucketStarts == BucketInit => IInv
<1> SUFFICES ASSUME BucketInit PROVE IInv
  OBVIOUS
<1>1. Len(sends) = 0 /\ sends \in Seq(Nat)
  BY DEF BucketInit
<1>2. BucketTypeOK
  <2>1. rate \in Rates /\ now \in Nat /\ last \in 0..now /\ earliest \in Nat
    BY DEF BucketInit
  <2>2. asleep \in BOOLEAN
    BY DEF BucketInit
  <2> QED
    BY <1>1, <2>1, <2>2 DEF BucketTypeOK
<1>3. Ahead
  BY <1>1 DEF BucketInit, Ahead
<1>4. Paced
  BY <1>1 DEF Paced
<1> QED
  BY <1>2, <1>3, <1>4 DEF IInv

\* Each step keeps it: the late wake-up is the case the lemmas are for (Consume).
LEMMA BucketKeeps == IInv /\ [BucketNext]_bucketVars => IInv'
<1> SUFFICES ASSUME IInv, [BucketNext]_bucketVars PROVE IInv'
  OBVIOUS
<1> DEFINE n == Len(sends)
           p == TimePerToken
<1>t. BucketTypeOK /\ Ahead /\ Paced
  BY DEF IInv
<1>p. p \in Nat /\ Earliest \in Int /\ Earliest >= last + p
  BY <1>t, TokenTime, EarliestIs
<1>n. n \in Nat /\ sends \in Seq(Nat) /\ \A i \in 1..n : sends[i] \in Nat
  BY <1>t DEF BucketTypeOK
<1>g. \A i \in 1..n : (n - i) * p \in Int
  BY <1>p, <1>n, OneMore
<1>b. \A i \in 1..n : sends[i] <= now
  BY <1>t DEF Ahead
\* What is due a token after the last one leaves room after every request.
<1>a. ASSUME ~asleep, rate # 0, NEW t \in Int, t >= now, t >= last + p
      PROVE  \A i \in 1..n : t >= sends[i] + (n - i) * p
  <2> SUFFICES ASSUME NEW i \in 1..n PROVE t >= sends[i] + (n - i) * p
    OBVIOUS
  <2>1. CASE i = n
    <3>1. (n - i) * p = 0
      BY <1>n, <1>p, <2>1, OneMore
    <3> QED
      BY <1>a, <1>b, <1>n, <1>t, <3>1 DEF BucketTypeOK
  <2>2. CASE i # n
    <3>1. i \in 1..n - 1
      BY <1>n, <2>2
    <3>2. last >= sends[i] + (n - i - 1) * p
      BY <1>a, <1>t, <3>1 DEF Ahead
    <3>3. n - i - 1 \in Int /\ (n - i - 1) + 1 = n - i
      BY <1>n
    <3>4. (n - i) * p = (n - i - 1) * p + p /\ (n - i - 1) * p \in Int
      BY <1>p, <3>3, OneMore
    <3>5. last \in Int
      BY <1>t DEF BucketTypeOK
    <3> DEFINE gap == (n - i - 1) * p
    <3>6. gap \in Int /\ last >= sends[i] + gap /\ (n - i) * p = gap + p
      BY <3>2, <3>4
    <3> HIDE DEF gap, p
    <3> QED
      BY <1>a, <1>n, <1>p, <3>5, <3>6
  <2> QED
    BY <2>1, <2>2
\* A request leaves the clock and the token time alone, and is one more.
<1>c. ASSUME NEW t \in Nat, sends' = Append(sends, t), t = now,
             UNCHANGED <<rate, now>>, last' \in 0..now, asleep' = FALSE, earliest' \in Nat,
             \A i \in 1..n : t >= sends[i] + (n - i) * p,
             rate # 0 => \A i \in 1..n : last' >= sends[i] + (n - i) * p
      PROVE  IInv'
  <2>1. p' = p /\ now' = now /\ rate' = rate
    BY <1>c DEF TimePerToken
  <2>2. sends' \in Seq(Nat) /\ Len(sends') = n + 1
    BY <1>n, <1>c
  <2>3. BucketTypeOK'
    BY <1>t, <1>c, <2>1, <2>2 DEF BucketTypeOK
  <2>4. \A i \in 1..Len(sends') : sends'[i] <= now'
    BY <1>n, <1>b, <1>c, <1>t, <2>1, <2>2 DEF BucketTypeOK
  <2>5. rate # 0 => \A i \in 1..Len(sends') - 1 : last' >= sends'[i] + (Len(sends') - i - 1) * p
    BY <1>n, <1>p, <1>c, AppendAhead
  <2>6. Ahead'
    BY <1>c, <2>1, <2>4, <2>5 DEF Ahead
  <2>7. \A i, j \in 1..n : i < j => sends[j] - sends[i] >= (j - i - 1) * p
    BY <1>t DEF Paced
  <2>8. \A i, j \in 1..Len(sends') : i < j => sends'[j] - sends'[i] >= (j - i - 1) * p
    BY <1>n, <1>p, <1>c, <2>7, AppendPaced
  <2>9. Paced'
    BY <2>1, <2>8 DEF Paced
  <2> QED
    BY <2>3, <2>6, <2>9 DEF IInv
<1>1. CASE ConsumeAtOnce
  <2>1. ~asleep /\ asleep' = FALSE /\ sends' = Append(sends, now) /\ UNCHANGED <<rate, now, earliest>>
    BY <1>1, <1>t DEF ConsumeAtOnce, BucketTypeOK
  <2>2. CASE rate = 0
    <3>1. p = 0 /\ last' = last
      BY <1>1, <2>2 DEF ConsumeAtOnce, TimePerToken
    <3>2. \A i \in 1..n : (n - i) * p = 0
      BY <3>1, <1>n, Z3
    <3>3. \A i \in 1..n : now >= sends[i] + (n - i) * p
      BY <1>b, <1>n, <1>t, <3>2 DEF BucketTypeOK
    <3> QED
      BY <1>c, <1>t, <2>1, <2>2, <3>1, <3>3 DEF BucketTypeOK
  <2>3. CASE rate # 0
    <3>1. Earliest <= now /\ last' = now
      BY <1>1, <2>3 DEF ConsumeAtOnce
    <3>2. now >= last + p /\ now \in Nat /\ last \in Int
      BY <1>p, <1>t, <3>1 DEF BucketTypeOK
    <3>3. \A i \in 1..n : now >= sends[i] + (n - i) * p
      BY <1>a, <2>1, <2>3, <3>2
    <3>4. last' \in 0..now /\ earliest' \in Nat
      BY <1>t, <2>1, <3>1, <3>2 DEF BucketTypeOK
    <3>5. \A i \in 1..n : last' >= sends[i] + (n - i) * p
      BY <3>1, <3>3
    <3> HIDE DEF n, p
    <3> QED
      BY <1>c, <2>1, <3>2, <3>3, <3>4, <3>5
  <2> QED
    BY <2>2, <2>3
<1>2. CASE ConsumeLater
  <2>1. /\ ~asleep /\ rate # 0 /\ asleep' = TRUE /\ earliest' = Earliest /\ Earliest > now
        /\ UNCHANGED <<rate, now, last, sends>>
    BY <1>2 DEF ConsumeLater
  <2>2. earliest' = last + p
    BY <1>t, <2>1, EarliestIs
  <2>3. now \in Nat /\ last \in Nat /\ earliest' \in Nat
    BY <1>t, <1>p, <2>2 DEF BucketTypeOK
  <2>4. \A i \in 1..n : earliest' >= sends[i] + (n - i) * p
    <3>1. earliest' \in Int /\ earliest' >= now /\ earliest' >= last + p
      BY <1>p, <2>1, <2>2, <2>3
    <3> HIDE DEF n, p
    <3> QED
      BY <1>a, <2>1, <3>1
  <2>5. p' = p
    BY <2>1 DEF TimePerToken
  <2>6. BucketTypeOK'
    BY <1>t, <2>1, <2>3 DEF BucketTypeOK
  <2>7. Ahead'
    BY <1>b, <2>1, <2>2, <2>4, <2>5 DEF Ahead
  <2>8. Paced'
    BY <1>t, <2>1, <2>5 DEF Paced
  <2> QED
    BY <2>6, <2>7, <2>8 DEF IInv
<1>3. CASE WakeUp
  <2>1. /\ asleep /\ now >= earliest /\ asleep' = FALSE /\ last' = earliest
        /\ sends' = Append(sends, now) /\ UNCHANGED <<rate, now, earliest>>
    BY <1>3 DEF WakeUp
  <2>2. now \in Nat /\ earliest \in 0..now
    BY <1>t, <2>1 DEF BucketTypeOK
  <2>3. \A i \in 1..n : earliest >= sends[i] + (n - i) * p
    BY <1>t, <2>1 DEF Ahead
  <2>4. \A i \in 1..n : now >= sends[i] + (n - i) * p
    BY <1>g, <1>n, <2>2, <2>3
  <2>5. \A i \in 1..n : last' >= sends[i] + (n - i) * p
    BY <2>1, <2>3
  <2>6. last' \in 0..now /\ earliest' \in Nat
    BY <2>1, <2>2
  <2> HIDE DEF n, p
  <2> QED
    BY <1>c, <2>1, <2>2, <2>4, <2>5, <2>6
<1>4. CASE Tick
  <2>1. UNCHANGED <<rate, last, asleep, earliest, sends>> /\ now' = now + 1
    BY <1>4 DEF Tick
  <2>2. p' = p
    BY <2>1 DEF TimePerToken
  <2>3. BucketTypeOK'
    BY <1>t, <2>1 DEF BucketTypeOK
  <2>4. Ahead'
    BY <1>t, <1>n, <2>1, <2>2 DEF Ahead, BucketTypeOK
  <2>5. Paced'
    BY <1>t, <2>1, <2>2 DEF Paced
  <2> QED
    BY <2>3, <2>4, <2>5 DEF IInv
<1>5. CASE UNCHANGED bucketVars
  BY <1>5, <1>t DEF bucketVars, IInv, BucketTypeOK, Ahead, Paced, TimePerToken
<1> QED
  BY <1>1, <1>2, <1>3, <1>4, <1>5 DEF BucketNext

\* For every rate and every burst of calls the invariant holds (TokenBucket).
LEMMA Invariant == BucketSpec => []IInv
<1>1. BucketInit => IInv
  BY BucketStarts
<1>2. IInv /\ [BucketNext]_bucketVars => IInv'
  BY BucketKeeps
<1> QED
  BY <1>1, <1>2, PTL DEF BucketSpec

-----------------------------------------------------------------------------
\* The last token is never ahead of the clock, for every rate (Consume).
THEOREM TypeCorrect == BucketSpec => []BucketTypeOK
BY Invariant, PTL DEF IInv

\* k requests after one of its requests a worker has let k - 1 token times go
\* by, for every rate, however late it wakes (Consume).
THEOREM PacedAlways == BucketSpec => []Paced
BY Invariant, PTL DEF IInv

\* Consume never sleeps longer than the time of one token (Consume).
THEOREM SleepsBrieflyAlways == BucketSpec => []SleepsBriefly
<1>1. IInv => SleepsBriefly
  <2> SUFFICES ASSUME IInv, asleep PROVE earliest - now <= TimePerToken
    BY DEF SleepsBriefly
  <2>1. earliest = last + TimePerToken /\ last \in 0..now /\ now \in Nat
    BY DEF IInv, Ahead, BucketTypeOK
  <2>2. TimePerToken \in Nat
    BY TokenTime DEF IInv
  <2> QED
    BY <2>1, <2>2
<1> QED
  BY <1>1, Invariant, PTL

-----------------------------------------------------------------------------
\* What the rest of the load generator does leaves the bucket alone, and the
\* worker's steps are steps of the bucket (processRequestWorker).
LEMMA UsesBucket == LoadNext => [BucketNext]_bucketVars
<1> SUFFICES ASSUME LoadNext PROVE [BucketNext]_bucketVars
  OBVIOUS
<1>1. CASE Main
  BY <1>1 DEF Main, Load, PopPreload, PopNothing, PopAsync, EndRequests, StopReader,
              JoinProducer, DestroyReader
<1>2. CASE Producer \/ WakeProducer
  BY <1>2 DEF Producer, ReadCase, PushCase, PushClosed, WakeProducer
<1>3. CASE CsvWorker
  BY <1>3 DEF CsvWorker
<1>4. CASE Send
  BY <1>4 DEF Send, BucketNext
<1>5. CASE Clock
  BY <1>5 DEF Clock, BucketNext
<1> QED
  BY <1>1, <1>2, <1>3, <1>4, <1>5 DEF LoadNext

\* The load generator implements the token bucket: every run of a benchmark is
\* one of the bucket's, with the requests as its calls (processRequestWorker).
THEOREM ImplementsBucket == LoadSpec => BucketSpec
<1>1. LoadInit => BucketInit
  BY DEF LoadInit
<1>2. [LoadNext]_loadVars => [BucketNext]_bucketVars
  BY UsesBucket DEF loadVars
<1> QED
  BY <1>1, <1>2, PTL DEF LoadSpec, BucketSpec

\* The requests of a run are sent at the pace of the bucket, whatever the reader
\* and the run do meanwhile (processRequestWorker).
THEOREM RunPaced == LoadSpec => []Paced
BY ImplementsBucket, PacedAlways, PTL

-----------------------------------------------------------------------------
(* Least elements of sets of numbers *)

LEMMA LeastNumber ==
  ASSUME NEW T \in SUBSET Nat, T # {}
  PROVE  \E n \in T : \A m \in T : n <= m
<1> DEFINE R == {p \in Nat \X Nat : p[1] < p[2]}
<1>1. IsWellFoundedOn(R, Nat)
  BY NatLessThanWellFounded DEF OpToRel
<1>2. PICK x \in T : \A y \in T : ~ (<<y, x>> \in R)
  BY <1>1, WFMin
<1>3. \A y \in T : ~(y < x)
  BY <1>2
<1> QED BY <1>3

LEMMA MinOf ==
  ASSUME NEW T \in SUBSET Nat, T # {}
  PROVE  /\ Min(T) \in T /\ \A m \in T : Min(T) <= m
         /\ \A n \in T : (\A m \in T : n <= m) => Min(T) = n
<1>1. PICK n \in T : \A m \in T : n <= m
  BY LeastNumber
<1>2. Min(T) \in T /\ \A m \in T : Min(T) <= m
  BY <1>1 DEF Min
<1>3. ASSUME NEW k \in T, \A m \in T : k <= m PROVE Min(T) = k
  <2>1. k \in Nat /\ Min(T) \in Nat /\ k <= Min(T) /\ Min(T) <= k
    BY <1>2, <1>3
  <2> QED BY <2>1
<1> QED BY <1>2, <1>3

-----------------------------------------------------------------------------
(* The window of LineReader *)

\* Types that hold whatever the data are.
CsvTypes ==
  /\ file \in Files
  /\ taken \in 0..Len(file)
  /\ buffer \in [Cells -> 0..Len(file)]
  /\ caller \in {"asking", "finishing", "scanning", "failed", "ended", "closing",
                 "closed"}
  /\ worker \in {"none", "waiting", "gone"}
  /\ wanted \in BOOLEAN
  /\ read_byte_count \in -1..BlockLen
  /\ rows \in Seq(Seq(0..Len(file)))
  /\ data_begin \in Nat /\ data_end \in Nat

\* Cell k of the window holds the byte after the first base + k, up to end, which
\* the last line may leave behind by one.  Two blocks are full, or the file ends.
Window(base, end) ==
  /\ base + end <= Len(file) /\ end <= 2 * BlockLen
  /\ data_begin < 2 * BlockLen
  /\ \/ data_end = end /\ data_begin <= end
     \/ data_end = end + 1 /\ data_begin = end + 1 /\ base + end = Len(file)
  /\ \A k \in 0..end - 1 : buffer[k] = base + k + 1
  /\ \/ end = 2 * BlockLen
     \/ base + end = Len(file)
     \/ caller = "finishing" /\ end = BlockLen
  /\ caller \in {"finishing", "scanning", "failed"} => data_begin < BlockLen /\ data_begin # data_end

\* What the thread has read, or is to read, follows the window in the file.
Following(base, end) ==
  /\ worker = "none" => base + end = Len(file)
  /\ worker # "none" /\ wanted => read_byte_count = -1 /\ taken = base + end
  /\ worker # "none" /\ ~wanted =>
       /\ read_byte_count \in Nat
       /\ taken = base + end + read_byte_count
       /\ read_byte_count = BlockLen \/ taken = Len(file)
       /\ \A j \in 0..read_byte_count - 1 : buffer[2 * BlockLen + j] = base + end + j + 1
  /\ caller = "finishing" => worker # "none" /\ end <= BlockLen

WindowInv(base, end) == Window(base, end) /\ Following(base, end)

LEMMA FileType ==
  ASSUME CsvTypes
  PROVE  /\ BlockLen \in Nat /\ BlockLen >= 1 /\ file \in Seq({"x", "n", "r", "m"})
         /\ Len(file) \in Nat /\ DOMAIN file = 1..Len(file)
  BY CsvAssumption DEF CsvTypes

LEMMA WindowStarts ==
  ASSUME CsvInit
  PROVE  CsvTypes /\ data_end \in Nat /\ WindowInv(0, data_end)
<1>1. /\ BlockLen \in Nat /\ BlockLen >= 1 /\ file \in Seq({"x", "n", "r", "m"})
      /\ Len(file) \in Nat
  BY CsvAssumption DEF CsvInit
<1>2. /\ data_end \in Nat /\ data_end <= Len(file) /\ data_end <= 2 * BlockLen
      /\ data_end = 2 * BlockLen \/ data_end = Len(file)
      /\ data_begin = 0 /\ taken = data_end
  BY <1>1 DEF CsvInit, Least
<1>3. \A k \in Cells : k < data_end => buffer[k] = k + 1
  BY <1>2 DEF CsvInit
<1>4. CsvTypes
  <2>1. buffer \in [Cells -> 0..Len(file)]
    BY <1>1, <1>2 DEF CsvInit, Cells
  <2>2. rows \in Seq(Seq(0..Len(file)))
    BY DEF CsvInit
  <2>3. /\ wanted \in BOOLEAN /\ worker \in {"none", "waiting", "gone"}
        /\ read_byte_count \in -1..BlockLen /\ taken \in 0..Len(file)
    BY <1>1, <1>2 DEF CsvInit
  <2> QED BY <1>2, <2>1, <2>2, <2>3 DEF CsvInit, CsvTypes
<1>5. Window(0, data_end)
  <2>1. \A k \in 0..data_end - 1 : buffer[k] = 0 + k + 1
    BY <1>1, <1>2, <1>3 DEF Cells
  <2> QED BY <1>1, <1>2, <2>1 DEF Window, CsvInit
<1>6. Following(0, data_end)
  <2>1. /\ wanted <=> data_end = 2 * BlockLen
        /\ worker = "none" <=> data_end # 2 * BlockLen
        /\ read_byte_count = -1 /\ caller = "asking"
    BY DEF CsvInit
  <2>2. worker = "none" => 0 + data_end = Len(file)
    BY <1>2, <2>1
  <2>3. worker # "none" /\ wanted => read_byte_count = -1 /\ taken = 0 + data_end
    BY <1>2, <2>1
  <2> QED BY <2>1, <2>2, <2>3 DEF Following
<1> QED BY <1>2, <1>4, <1>5, <1>6 DEF WindowInv

\* Where the line that starts at a byte ends.
StopAt(start) == Min({k \in Feeds : k >= start} \cup {Len(file) + 1})

\* The next line in the window is the next line of the file, or too long.
LEMMA LineFound ==
  ASSUME CsvTypes, caller = "scanning", NEW base \in Nat, NEW end \in Nat,
         WindowInv(base, end)
  PROVE  LET s == base + data_begin + 1
         IN /\ data_end = end /\ LineEnd \in data_begin..end
            /\ TooLong <=> StopAt(s) - s >= BlockLen
            /\ ~TooLong => base + LineEnd + 1 = StopAt(s) /\ Line = LineAt(s)
<1> DEFINE s == base + data_begin + 1
           W == {k \in data_begin..data_end - 1 : ByteAt(k) = "n"} \cup {data_end}
           F == {k \in Feeds : k >= s} \cup {Len(file) + 1}
           m == LineEnd
           stop == StopAt(s)
<1>1. /\ BlockLen \in Nat /\ BlockLen >= 1 /\ Len(file) \in Nat
      /\ data_begin \in Nat /\ data_end \in Nat
  BY FileType DEF CsvTypes
<1>2. /\ data_end = end /\ data_begin < end /\ data_begin < BlockLen
      /\ base + end <= Len(file) /\ (end = 2 * BlockLen \/ base + end = Len(file))
      /\ \A k \in 0..end - 1 : buffer[k] = base + k + 1
  BY <1>1 DEF WindowInv, Window
<1>3. \A k \in data_begin..end - 1 : ByteAt(k) = "n" <=> base + k + 1 \in Feeds
  <2> TAKE k \in data_begin..end - 1
  <2>1. buffer[k] = base + k + 1 /\ base + k + 1 \in 1..Len(file)
    BY <1>1, <1>2
  <2> QED BY <2>1 DEF ByteAt, Feeds
<1>4. m = Min(W) /\ m \in W /\ \A k \in W : m <= k
  <2>1. W \in SUBSET Nat /\ W # {}
    BY <1>1
  <2>2. m = Min(W)
    BY DEF LineEnd
  <2> HIDE DEF W, m
  <2> QED BY <2>1, <2>2, MinOf
<1>5. F \in SUBSET Nat /\ F # {} /\ stop = Min(F)
  BY <1>1 DEF StopAt, Feeds
<1>6. m \in data_begin..end /\ (m # end => base + m + 1 \in Feeds)
  BY <1>1, <1>2, <1>3, <1>4
<1>7. \A f \in F : base + m + 1 <= f
  <2> TAKE f \in F
  <2>1. CASE f = Len(file) + 1
    <3> HIDE DEF m
    <3> QED BY <1>1, <1>2, <1>6, <2>1
  <2>2. CASE f \in Feeds /\ f >= s
    <3> DEFINE k == f - base - 1
    <3>1. k \in Int /\ f = base + k + 1 /\ k >= data_begin /\ f \in 1..Len(file)
      BY <1>1, <2>2 DEF Feeds
    <3> HIDE DEF k, m
    <3>2. CASE k < end
      <4>1. k \in data_begin..data_end - 1
        BY <1>1, <1>2, <3>1, <3>2
      <4>2. k \in W
        BY <1>2, <1>3, <2>2, <3>1, <4>1
      <4>3. m <= k
        BY <1>4, <4>2
      <4> QED BY <1>1, <1>6, <3>1, <4>3
    <3>3. CASE ~(k < end)
      BY <1>1, <1>6, <3>1, <3>3
    <3> QED BY <3>2, <3>3
  <2> QED BY <2>1, <2>2
<1> HIDE DEF W, m
<1>8. stop \in Nat /\ base + m + 1 <= stop
  <2> HIDE DEF F, stop
  <2>1. stop \in F /\ stop \in Nat
    BY <1>5, MinOf
  <2> QED BY <1>7, <2>1
<1>9. m # end \/ base + end = Len(file) => stop = base + m + 1
  <2>1. m # end \/ base + end = Len(file) => base + m + 1 \in F
    BY <1>1, <1>2, <1>6
  <2> HIDE DEF F, stop
  <2> QED BY <1>5, <1>7, <2>1, MinOf
<1> HIDE DEF F, stop
<1>10. TooLong <=> m - data_begin + 1 > BlockLen
  BY DEF TooLong, m
<1>11. TooLong <=> stop - s >= BlockLen
  BY <1>1, <1>2, <1>6, <1>8, <1>9, <1>10
<1>12. ~TooLong => stop = base + m + 1
  BY <1>1, <1>2, <1>6, <1>9, <1>10
<1>13. ASSUME ~TooLong PROVE Line = LineAt(s)
  <2>1. stop = base + m + 1
    BY <1>12, <1>13
  <2>2. stop > s <=> m # data_begin
    BY <1>1, <1>6, <2>1
  <2>3. m # data_begin => buffer[m - 1] = base + m /\ base + m # 0 /\ stop - 1 = base + m
    BY <1>1, <1>2, <1>6, <2>1
  <2>4. m # data_begin => (ByteAt(m - 1) = "r" <=> file[stop - 1] = "r")
    BY <2>3 DEF ByteAt
  <2> DEFINE final == IF m # data_begin /\ ByteAt(m - 1) = "r" THEN m - 1 ELSE m
             lastAt == IF stop > s /\ file[stop - 1] = "r" THEN stop - 1 ELSE stop
  <2>5. final \in data_begin..end /\ lastAt = base + final + 1
    BY <1>1, <1>6, <2>1, <2>2, <2>4
  <2>6. Line = [k \in 1..final - data_begin |-> buffer[data_begin + k - 1]]
    BY DEF Line, m
  <2>7. LineAt(s) = [k \in 1..lastAt - s |-> s + k - 1]
    BY DEF LineAt, stop, StopAt
  <2> HIDE DEF final, lastAt
  <2>8. lastAt - s = final - data_begin
    BY <1>1, <2>5
  <2>9. \A k \in 1..final - data_begin : buffer[data_begin + k - 1] = s + k - 1
    <3> TAKE k \in 1..final - data_begin
    <3>1. data_begin + k - 1 \in 0..end - 1
      BY <1>1, <2>5
    <3>2. buffer[data_begin + k - 1] = base + (data_begin + k - 1) + 1
      BY <1>2, <3>1
    <3> QED BY <1>1, <3>2
  <2> HIDE DEF s
  <2> QED BY <2>6, <2>7, <2>8, <2>9
<1> QED BY <1>2, <1>6, <1>11, <1>12, <1>13 DEF m, stop

-----------------------------------------------------------------------------
\* The thread fills the third block with what follows the window (ReadBlock).
LEMMA BlockRead ==
  ASSUME CsvTypes, NEW base \in Nat, NEW end \in Nat, WindowInv(base, end), ReadBlock
  PROVE  CsvTypes' /\ WindowInv(base, end)' /\ UNCHANGED data_begin
<1> DEFINE count == Least(BlockLen, Len(file) - taken)
<1>1. /\ BlockLen \in Nat /\ BlockLen >= 1 /\ Len(file) \in Nat
      /\ data_begin \in Nat /\ data_end \in Nat /\ taken \in 0..Len(file)
  BY FileType DEF CsvTypes
<1>2. /\ worker = "waiting" /\ worker' \in {"gone", "waiting"} /\ wanted /\ wanted' = FALSE
      /\ buffer' = Filled(2 * BlockLen, count) /\ taken' = taken + count
      /\ read_byte_count' = count
      /\ file' = file /\ data_begin' = data_begin /\ data_end' = data_end
      /\ caller' = caller /\ rows' = rows
  BY DEF ReadBlock, window
<1>3. taken = base + end /\ end <= 2 * BlockLen
  BY <1>2 DEF WindowInv, Window, Following
<1>4. /\ count \in 0..BlockLen /\ count <= Len(file) - taken
      /\ count = BlockLen \/ count = Len(file) - taken
  BY <1>1 DEF Least
<1> HIDE DEF count
<1>5. /\ \A k \in Cells : k < 2 * BlockLen => buffer'[k] = buffer[k]
      /\ \A j \in 0..count - 1 : buffer'[2 * BlockLen + j] = taken + j + 1
  BY <1>1, <1>2, <1>4 DEF Filled, Cells
<1>6. CsvTypes'
  <2>1. buffer' \in [Cells -> 0..Len(file)]
    BY <1>1, <1>2, <1>4 DEF Filled, Cells, CsvTypes
  <2>2. taken' \in 0..Len(file) /\ read_byte_count' \in -1..BlockLen
    BY <1>1, <1>2, <1>4
  <2> QED BY <1>2, <2>1, <2>2 DEF CsvTypes
<1>7. Window(base, end)'
  <2>1. \A k \in 0..end - 1 : buffer'[k] = base + k + 1
    BY <1>1, <1>3, <1>5 DEF WindowInv, Window, Cells
  <2> QED BY <1>2, <2>1 DEF WindowInv, Window
<1>8. Following(base, end)'
  <2>1. /\ count \in Nat /\ taken' = base + end + count
        /\ count = BlockLen \/ taken' = Len(file)
        /\ \A j \in 0..count - 1 : buffer'[2 * BlockLen + j] = base + end + j + 1
    BY <1>1, <1>2, <1>3, <1>4, <1>5
  <2>2. caller' = "finishing" => worker' # "none" /\ end <= BlockLen
    BY <1>2 DEF WindowInv, Following
  <2> QED BY <1>2, <2>1, <2>2 DEF Following
<1> QED BY <1>2, <1>6, <1>7, <1>8 DEF WindowInv

\* The window moves on by a block (ShiftBlock).
LEMMA BlockShifted ==
  ASSUME CsvTypes, NEW base \in Nat, NEW end \in Nat, WindowInv(base, end), ShiftBlock
  PROVE  /\ CsvTypes'
         /\ \E b, e \in Nat : WindowInv(b, e)' /\ b + data_begin' = base + data_begin
<1>1. /\ BlockLen \in Nat /\ BlockLen >= 1 /\ Len(file) \in Nat
      /\ data_begin \in Nat /\ data_end \in Nat
  BY FileType DEF CsvTypes
<1>2. /\ data_begin # data_end /\ data_begin >= BlockLen
      /\ buffer' = [k \in Cells |-> buffer[IF k < BlockLen THEN k + BlockLen ELSE k]]
      /\ data_begin' = data_begin - BlockLen /\ data_end' = data_end - BlockLen
      /\ caller = "asking" /\ caller' = IF worker = "none" THEN "scanning" ELSE "finishing"
      /\ file' = file /\ taken' = taken /\ worker' = worker /\ wanted' = wanted
      /\ read_byte_count' = read_byte_count /\ rows' = rows
  BY DEF ShiftBlock, CallerMoves, handover
<1>3. /\ base + end <= Len(file) /\ end <= 2 * BlockLen /\ data_begin < 2 * BlockLen
      /\ data_end = end /\ data_begin < end
      /\ \A k \in 0..end - 1 : buffer[k] = base + k + 1
      /\ end = 2 * BlockLen \/ base + end = Len(file)
  BY <1>1, <1>2 DEF WindowInv, Window
<1>b. PICK b \in Nat, e \in Nat : b = base + BlockLen /\ e = end - BlockLen
  BY <1>1, <1>2, <1>3
<1>4. /\ b + e = base + end /\ e <= BlockLen /\ b + data_begin' = base + data_begin
      /\ data_begin' \in Nat /\ data_end' \in Nat /\ data_end' = e
      /\ data_begin' < e /\ data_begin' < BlockLen
      /\ e = BlockLen \/ base + end = Len(file)
  BY <1>1, <1>2, <1>3, <1>b
<1>5. /\ \A k \in 0..e - 1 : buffer'[k] = buffer[k + BlockLen]
      /\ \A k \in 2 * BlockLen..3 * BlockLen - 1 : buffer'[k] = buffer[k]
  BY <1>1, <1>2, <1>4 DEF Cells
<1>6. CsvTypes'
  <2>1. buffer' \in [Cells -> 0..Len(file)]
    BY <1>1, <1>2 DEF CsvTypes, Cells
  <2> QED BY <1>2, <1>4, <2>1 DEF CsvTypes
<1>7. \A k \in 0..e - 1 : buffer'[k] = b + k + 1
  <2> TAKE k \in 0..e - 1
  <2>1. k + BlockLen \in 0..end - 1
    BY <1>1, <1>3, <1>b
  <2>2. buffer'[k] = base + (k + BlockLen) + 1
    BY <1>3, <1>5, <2>1
  <2> QED BY <1>1, <1>b, <2>2
<1>8. Window(b, e)'
  <2>1. worker = "none" => base + end = Len(file)
    BY DEF WindowInv, Following
  <2>2. b + e = Len(file) \/ (caller' = "finishing" /\ e = BlockLen)
    BY <1>2, <1>4, <2>1
  <2>3. /\ b + e <= Len(file) /\ e <= 2 * BlockLen
        /\ data_begin' < 2 * BlockLen /\ data_begin' <= e /\ data_begin' # e
    BY <1>1, <1>3, <1>4
  <2> QED BY <1>2, <1>4, <1>7, <2>2, <2>3 DEF Window
<1>9. Following(b, e)'
  <2>1. ASSUME worker # "none", ~wanted
        PROVE  /\ read_byte_count \in Nat /\ taken = base + end + read_byte_count
               /\ read_byte_count = BlockLen \/ taken = Len(file)
               /\ \A j \in 0..read_byte_count - 1 :
                    buffer'[2 * BlockLen + j] = base + end + j + 1
    <3>1. /\ read_byte_count \in Nat /\ read_byte_count <= BlockLen
          /\ taken = base + end + read_byte_count
          /\ read_byte_count = BlockLen \/ taken = Len(file)
          /\ \A j \in 0..read_byte_count - 1 : buffer[2 * BlockLen + j] = base + end + j + 1
      BY <1>1, <2>1 DEF WindowInv, Following, CsvTypes
    <3>2. \A j \in 0..read_byte_count - 1 : 2 * BlockLen + j \in 2 * BlockLen..3 * BlockLen - 1
      BY <1>1, <3>1
    <3> QED BY <1>5, <3>1, <3>2
  <2>2. /\ worker = "none" => base + end = Len(file)
        /\ worker # "none" /\ wanted => read_byte_count = -1 /\ taken = base + end
    BY DEF WindowInv, Following
  <2>3. caller' = "finishing" => worker' # "none" /\ e <= BlockLen
    BY <1>2, <1>4
  <2> QED BY <1>2, <1>4, <2>1, <2>2, <2>3 DEF Following
<1> QED BY <1>4, <1>6, <1>8, <1>9 DEF WindowInv

\* The third block follows the first in the window (FinishRead).
LEMMA ReadFinished ==
  ASSUME CsvTypes, NEW base \in Nat, NEW end \in Nat, WindowInv(base, end), FinishRead
  PROVE  /\ CsvTypes'
         /\ \E e \in Nat : WindowInv(base, e)' /\ UNCHANGED data_begin
<1>1. /\ BlockLen \in Nat /\ BlockLen >= 1 /\ Len(file) \in Nat
      /\ data_begin \in Nat /\ data_end \in Nat /\ taken \in 0..Len(file)
  BY FileType DEF CsvTypes
<1>2. /\ read_byte_count # -1 /\ data_end' = data_end + read_byte_count
      /\ buffer' = [k \in Cells |->
                      buffer[IF k \in BlockLen..2 * BlockLen - 1 THEN k + BlockLen ELSE k]]
      /\ wanted' = TRUE /\ read_byte_count' = -1
      /\ caller = "finishing" /\ caller' = "scanning"
      /\ file' = file /\ taken' = taken /\ data_begin' = data_begin /\ worker' = worker
      /\ rows' = rows
  BY DEF FinishRead, CallerMoves
<1>3. /\ worker # "none" /\ end <= BlockLen /\ data_begin < BlockLen
      /\ data_end = end /\ data_begin < end /\ base + end <= Len(file)
      /\ end = BlockLen \/ base + end = Len(file)
      /\ \A k \in 0..end - 1 : buffer[k] = base + k + 1
  <2>1. worker # "none" /\ end <= BlockLen
    BY <1>2 DEF WindowInv, Following
  <2>2. /\ data_begin < BlockLen /\ data_begin # data_end
        /\ \/ data_end = end /\ data_begin <= end
           \/ data_end = end + 1 /\ data_begin = end + 1
        /\ end = 2 * BlockLen \/ base + end = Len(file) \/ end = BlockLen
        /\ base + end <= Len(file)
        /\ \A k \in 0..end - 1 : buffer[k] = base + k + 1
    BY <1>2 DEF WindowInv, Window
  <2> QED BY <1>1, <2>1, <2>2
<1>4. /\ read_byte_count \in 0..BlockLen /\ taken = base + end + read_byte_count
      /\ read_byte_count = BlockLen \/ taken = Len(file)
      /\ \A j \in 0..read_byte_count - 1 : buffer[2 * BlockLen + j] = base + end + j + 1
  <2>1. ~wanted
    BY <1>2, <1>3 DEF WindowInv, Following
  <2>2. read_byte_count \in -1..BlockLen
    BY DEF CsvTypes
  <2> QED BY <1>1, <1>3, <2>1, <2>2 DEF WindowInv, Following
<1>5. end # BlockLen => read_byte_count = 0
  BY <1>1, <1>3, <1>4
<1>e. PICK e \in Nat : e = end + read_byte_count
  BY <1>1, <1>4
<1>6. data_end' = e /\ e <= 2 * BlockLen /\ base + e = taken /\ data_begin < e
  BY <1>1, <1>2, <1>3, <1>4, <1>e
<1>7. e = 2 * BlockLen \/ base + e = Len(file)
  BY <1>1, <1>3, <1>4, <1>e
<1>8. \A k \in 0..e - 1 : buffer'[k] = base + k + 1
  <2> TAKE k \in 0..e - 1
  <2>1. CASE k < end
    <3>1. k \in Cells /\ k \notin BlockLen..2 * BlockLen - 1 /\ k \in 0..end - 1
      BY <1>1, <1>3, <2>1 DEF Cells
    <3> QED BY <1>2, <1>3, <3>1
  <2>2. CASE ~(k < end)
    <3>1. end = BlockLen /\ k \in BlockLen..2 * BlockLen - 1 /\ k \in Cells
          /\ k - end \in 0..read_byte_count - 1
      BY <1>1, <1>3, <1>4, <1>5, <1>e, <2>2 DEF Cells
    <3>2. buffer'[k] = buffer[k + BlockLen]
      BY <1>2, <3>1
    <3>3. buffer[2 * BlockLen + (k - end)] = base + end + (k - end) + 1
      BY <1>4, <3>1
    <3>4. 2 * BlockLen + (k - end) = k + BlockLen /\ base + end + (k - end) + 1 = base + k + 1
      BY <1>1, <3>1
    <3> QED BY <3>2, <3>3, <3>4
  <2> QED BY <2>1, <2>2
<1>9. CsvTypes'
  <2>1. buffer' \in [Cells -> 0..Len(file)]
    BY <1>1, <1>2 DEF CsvTypes, Cells
  <2>2. read_byte_count' \in -1..BlockLen
    BY <1>1, <1>2
  <2> QED BY <1>2, <1>6, <2>1, <2>2 DEF CsvTypes
<1>10. Window(base, e)'
  <2>1. base + e <= Len(file)' /\ data_begin' < 2 * BlockLen /\ data_begin' < BlockLen
        /\ data_begin' # data_end'
    BY <1>1, <1>2, <1>3, <1>6
  <2> QED BY <1>1, <1>2, <1>6, <1>7, <1>8, <2>1 DEF Window
<1>11. Following(base, e)'
  BY <1>2, <1>3, <1>6 DEF Following
<1> QED BY <1>2, <1>6, <1>9, <1>10, <1>11 DEF WindowInv

\* ReadRow takes the line it has found out of the window (read_row).
LEMMA RowTaken ==
  ASSUME CsvTypes, NEW base \in Nat, NEW end \in Nat, WindowInv(base, end), ReadRow
  PROVE  /\ CsvTypes' /\ WindowInv(base, end)'
         /\ LET s == base + data_begin + 1
            IN /\ StopAt(s) - s < BlockLen /\ base + data_begin' = StopAt(s)
               /\ rows' = Append(rows, LineAt(s))
               /\ WellFormed([k \in DOMAIN LineAt(s) |-> file[LineAt(s)[k]]])
<1> DEFINE s == base + data_begin + 1
<1>1. /\ BlockLen \in Nat /\ BlockLen >= 1 /\ Len(file) \in Nat
      /\ data_begin \in Nat /\ data_end \in Nat
  BY FileType DEF CsvTypes
<1>2. /\ ~TooLong /\ rows' = Append(rows, Line) /\ data_begin' = LineEnd + 1
      /\ data_end' = IF LineEnd = data_end THEN data_end + 1 ELSE data_end
      /\ caller = "scanning" /\ caller' = "asking"
      /\ file' = file /\ taken' = taken /\ buffer' = buffer /\ worker' = worker
      /\ wanted' = wanted /\ read_byte_count' = read_byte_count
      /\ WellFormed([k \in DOMAIN Line |-> file[Line[k]]])
  BY DEF ReadRow, CallerMoves, data, handover
<1>3. /\ data_end = end /\ LineEnd \in data_begin..end
      /\ TooLong <=> StopAt(s) - s >= BlockLen
      /\ base + LineEnd + 1 = StopAt(s) /\ Line = LineAt(s)
  BY <1>2, LineFound
<1>4. /\ base + end <= Len(file) /\ end <= 2 * BlockLen /\ data_begin < BlockLen
      /\ end = 2 * BlockLen \/ base + end = Len(file)
      /\ \A k \in 0..end - 1 : buffer[k] = base + k + 1
  BY <1>2 DEF WindowInv, Window
<1>5. LineEnd - data_begin + 1 <= BlockLen
  BY <1>1, <1>2, <1>3 DEF TooLong
<1>6. LineEnd = end => base + end = Len(file)
  BY <1>1, <1>3, <1>4, <1>5
<1>7. Window(base, end)'
  <2>1. data_begin' < 2 * BlockLen
    BY <1>1, <1>2, <1>3, <1>4, <1>5
  <2>2. \/ data_end' = end /\ data_begin' <= end
        \/ data_end' = end + 1 /\ data_begin' = end + 1 /\ base + end = Len(file)
    BY <1>1, <1>2, <1>3, <1>6
  <2> QED BY <1>2, <1>4, <2>1, <2>2 DEF Window
<1>8. Following(base, end)'
  BY <1>2 DEF WindowInv, Following
<1>9. Line \in Seq(0..Len(file))
  <2> DEFINE final == IF LineEnd # data_begin /\ ByteAt(LineEnd - 1) = "r"
                     THEN LineEnd - 1 ELSE LineEnd
  <2>1. final \in data_begin..end /\ final - data_begin \in Nat
    BY <1>1, <1>3
  <2>2. Line = [k \in 1..final - data_begin |-> buffer[data_begin + k - 1]]
    BY DEF Line
  <2> HIDE DEF final
  <2>3. \A k \in 1..final - data_begin : buffer[data_begin + k - 1] \in 0..Len(file)
    <3> TAKE k \in 1..final - data_begin
    <3>1. data_begin + k - 1 \in 0..end - 1
      BY <1>1, <2>1
    <3>2. buffer[data_begin + k - 1] = base + (data_begin + k - 1) + 1
      BY <1>4, <3>1
    <3> QED BY <1>1, <1>4, <3>1, <3>2
  <2> QED BY <2>1, <2>2, <2>3
<1>10. CsvTypes'
  <2>1. rows' \in Seq(Seq(0..Len(file)))
    BY <1>2, <1>9 DEF CsvTypes
  <2>2. data_begin' \in Nat /\ data_end' \in Nat
    BY <1>1, <1>2, <1>3
  <2> QED BY <1>2, <2>1, <2>2 DEF CsvTypes
<1>11. StopAt(s) \in Int /\ s \in Int /\ base + data_begin' = StopAt(s)
  BY <1>1, <1>2, <1>3
<1>12. StopAt(s) - s < BlockLen
  BY <1>1, <1>2, <1>3, <1>11
<1> QED BY <1>2, <1>3, <1>7, <1>8, <1>10, <1>11, <1>12 DEF WindowInv

\* Where the caller stands moves without the window.
OnlyMoves ==
  /\ UNCHANGED <<file, data, window, handover, rows>>
  /\ caller' \in {"asking", "finishing", "scanning", "failed", "ended", "closing", "closed"}
  /\ \/ caller' = caller
     \/ caller' \in {"ended", "closing", "closed"} /\ caller # "finishing"
     \/ caller' = "failed" /\ caller = "scanning"
     \/ caller' = "scanning" /\ caller = "asking" /\ data_begin # data_end /\ data_begin < BlockLen

LEMMA CallerMoved ==
  ASSUME CsvTypes, NEW base \in Nat, NEW end \in Nat, WindowInv(base, end), OnlyMoves
  PROVE  CsvTypes' /\ WindowInv(base, end)'
<1>1. /\ file' = file /\ taken' = taken /\ buffer' = buffer /\ data_begin' = data_begin
      /\ data_end' = data_end /\ worker' = worker /\ wanted' = wanted
      /\ read_byte_count' = read_byte_count /\ rows' = rows
  BY DEF OnlyMoves, data, window, handover
<1>2. CsvTypes'
  BY <1>1 DEF CsvTypes, OnlyMoves
<1>3. Window(base, end)'
  BY <1>1 DEF WindowInv, Window, OnlyMoves
<1>4. Following(base, end)'
  BY <1>1 DEF WindowInv, Following, OnlyMoves
<1> QED BY <1>2, <1>3, <1>4 DEF WindowInv

\* ~AsynchronousReader ends its thread, which leaves the data as they are.
LEMMA WorkerEnds ==
  ASSUME CsvTypes, NEW base \in Nat, NEW end \in Nat, WindowInv(base, end), WorkerStops
  PROVE  CsvTypes' /\ WindowInv(base, end)' /\ UNCHANGED data_begin
<1>1. /\ file' = file /\ taken' = taken /\ buffer' = buffer /\ data_begin' = data_begin
      /\ data_end' = data_end /\ worker = "waiting" /\ worker' = "gone" /\ wanted' = wanted
      /\ read_byte_count' = read_byte_count /\ rows' = rows /\ caller' = caller
  BY DEF WorkerStops, data, window
<1>2. CsvTypes'
  BY <1>1 DEF CsvTypes
<1>3. Window(base, end)'
  BY <1>1 DEF WindowInv, Window
<1>4. Following(base, end)'
  BY <1>1 DEF WindowInv, Following
<1> QED BY <1>1, <1>2, <1>3, <1>4 DEF WindowInv

\* No step but ReadRow changes the rows or how far they have been read.
LEMMA WindowKept ==
  ASSUME CsvTypes, NEW base \in Nat, NEW end \in Nat, WindowInv(base, end),
         [CsvNext]_csvVars, ~ReadRow
  PROVE  /\ CsvTypes' /\ file' = file /\ rows' = rows
         /\ \E b, e \in Nat : WindowInv(b, e)' /\ b + data_begin' = base + data_begin
<1>1. CASE ReadBlock
  BY <1>1, BlockRead DEF ReadBlock
<1>2. CASE WorkerStops
  BY <1>2, WorkerEnds DEF WorkerStops
<1>3. CASE ShiftBlock
  BY <1>3, BlockShifted DEF ShiftBlock
<1>4. CASE FinishRead
  BY <1>4, ReadFinished DEF FinishRead
<1>5. CASE OnlyMoves
  <2>1. data_begin' = data_begin /\ file' = file /\ rows' = rows
    BY <1>5 DEF OnlyMoves, window
  <2> QED BY <1>5, <2>1, CallerMoved
<1>6. CASE UNCHANGED csvVars
  BY <1>5, <1>6 DEF csvVars, OnlyMoves, CsvTypes
<1>7. ASSUME NoMoreLines \/ SameBlock \/ ReadThrows \/ Terminate \/ JoinWorker PROVE OnlyMoves
  BY <1>7 DEF NoMoreLines, SameBlock, ReadThrows, Terminate, JoinWorker, CallerMoves, OnlyMoves
<1> QED BY <1>1, <1>2, <1>3, <1>4, <1>5, <1>6, <1>7 DEF CsvNext, Read, Close, Worker

-----------------------------------------------------------------------------
(* The rows that have been read *)

\* The lines that begin no later than a byte of the file.
UpTo(pos) == {s \in Starts : s <= pos}

\* The rows are the lines up to where the window begins, all of them readable.
RowsInv(pos) ==
  /\ UpTo(pos) \subseteq Good
  /\ Len(rows) = Cardinality(UpTo(pos))
  /\ \A k \in 1..Len(rows) : \E s \in Good :
       /\ Cardinality({t \in Good : t <= s}) = k
       /\ rows[k] = LineAt(s)
  /\ pos >= Len(file) \/ pos + 1 \in Starts
  /\ caller \in {"ended", "closing", "closed"} => pos >= Len(file)
  /\ caller = "failed" => pos + 1 \in Starts /\ ~Readable(pos + 1)

ReaderInv ==
  /\ CsvTypes
  /\ \E base, end, pos \in Nat :
       pos = base + data_begin /\ WindowInv(base, end) /\ RowsInv(pos)

LEMMA LinesFinite ==
  ASSUME CsvTypes
  PROVE  /\ Feeds \subseteq 1..Len(file) /\ Starts \subseteq 1..Len(file)
         /\ IsFiniteSet(Starts) /\ Cardinality(Starts) \in Nat
         /\ Cardinality(Starts) <= Len(file)
         /\ Good \subseteq Starts
<1>1. Len(file) \in Nat
  BY FileType
<1>2. IsFiniteSet(1..Len(file)) /\ Cardinality(1..Len(file)) = Len(file)
  <2>1. /\ IsFiniteSet(1..Len(file))
        /\ Cardinality(1..Len(file)) = IF 1 > Len(file) THEN 0 ELSE Len(file) - 1 + 1
    BY <1>1, FS_Interval
  <2> QED BY <1>1, <2>1
<1>3. Starts \subseteq 1..Len(file)
  BY DEF Starts
<1>4. IsFiniteSet(Starts) /\ Cardinality(Starts) <= Cardinality(1..Len(file))
  BY <1>2, <1>3, FS_Subset
<1>5. Cardinality(Starts) \in Nat
  BY <1>4, FS_CardinalityType
<1> QED BY <1>2, <1>3, <1>4, <1>5 DEF Feeds, Good

\* A line ends where the next one begins, or the file ends.
LEMMA NextStart ==
  ASSUME CsvTypes, NEW s \in Starts
  PROVE  /\ StopAt(s) \in Nat /\ StopAt(s) >= s
         /\ UpTo(StopAt(s)) = UpTo(s)
         /\ StopAt(s) >= Len(file) \/ StopAt(s) + 1 \in Starts
<1> DEFINE F == {k \in Feeds : k >= s} \cup {Len(file) + 1}
           stop == StopAt(s)
<1>1. Len(file) \in Nat /\ s \in 1..Len(file) /\ Feeds \subseteq 1..Len(file)
  BY FileType, LinesFinite
<1>2. F \in SUBSET Nat /\ F # {} /\ stop = Min(F) /\ \A f \in F : f >= s
  <2>1. stop = Min(F)
    BY DEF StopAt
  <2>2. Len(file) + 1 \in F
    OBVIOUS
  <2>3. ASSUME NEW f \in F PROVE f \in Nat /\ f >= s
    <3>1. CASE f = Len(file) + 1
      BY <1>1, <3>1
    <3>2. CASE f \in Feeds /\ f >= s
      BY <1>1, <3>2
    <3> QED BY <3>1, <3>2
  <2> HIDE DEF F, stop
  <2>4. F \subseteq Nat
    BY <2>3
  <2> QED BY <2>1, <2>2, <2>3, <2>4
<1>3. stop \in F /\ \A f \in F : stop <= f
  <2> HIDE DEF F, stop
  <2> QED BY <1>2, MinOf
<1>4. stop \in Nat /\ stop >= s
  <2> HIDE DEF F, stop
  <2> QED BY <1>2, <1>3
<1>5. stop >= Len(file) \/ stop + 1 \in Starts
  <2>1. stop \in Feeds \/ stop = Len(file) + 1
    BY <1>3
  <2> HIDE DEF stop
  <2> QED BY <1>1, <1>4, <2>1 DEF Starts
<1>6. ASSUME NEW t \in Starts, t <= stop, ~(t <= s) PROVE FALSE
  <2>1. t \in 1..Len(file) /\ t # 1
    BY <1>1, <1>6 DEF Starts
  <2>2. t - 1 \in Feeds
    BY <2>1 DEF Starts
  <2>3. t - 1 >= s
    BY <1>1, <1>6, <2>1
  <2>4. stop <= t - 1
    BY <1>3, <2>2, <2>3
  <2> HIDE DEF stop
  <2> QED BY <1>4, <1>6, <2>1, <2>4
<1>7. UpTo(stop) = UpTo(s)
  <2>1. \A t \in Starts : t <= stop <=> t <= s
    <3>1. \A t \in Starts : t \in Nat
      BY LinesFinite, <1>1
    <3> HIDE DEF stop
    <3> QED BY <1>1, <1>4, <1>6, <3>1
  <2> QED BY <2>1 DEF UpTo
<1> QED BY <1>4, <1>5, <1>7

\* What the lines of a file are depends on the file alone.
LEMMA SameLines ==
  ASSUME file' = file
  PROVE  /\ Starts' = Starts /\ Good' = Good
         /\ \A s : LineAt(s)' = LineAt(s) /\ (Readable(s)' <=> Readable(s))
         /\ \A pos : UpTo(pos)' = UpTo(pos)
<1>1. Feeds' = Feeds
  BY DEF Feeds
<1>2. Starts' = Starts
  BY <1>1 DEF Starts
<1>3. \A s : LineAt(s)' = LineAt(s)
  BY <1>1 DEF LineAt
<1>4. \A s : Readable(s)' <=> Readable(s)
  BY <1>1, <1>3 DEF Readable, WellFormed
<1>5. Good' = Good
  BY <1>2, <1>4 DEF Good
<1> QED BY <1>2, <1>3, <1>4, <1>5 DEF UpTo

\* Before the first line nothing has been read.
LEMMA ReaderStarts == CsvInit => ReaderInv
<1> SUFFICES ASSUME CsvInit PROVE ReaderInv
  OBVIOUS
<1>1. CsvTypes /\ data_end \in Nat /\ WindowInv(0, data_end) /\ data_begin = 0
  BY WindowStarts DEF CsvInit
<1>2. RowsInv(0)
  <2>1. Len(file) \in Nat /\ Starts \subseteq 1..Len(file)
    BY <1>1, FileType, LinesFinite
  <2>2. UpTo(0) = {}
    <3>1. \A t \in Starts : ~(t <= 0)
      BY <2>1
    <3> QED BY <3>1 DEF UpTo
  <2>3. Len(rows) = 0 /\ Cardinality(UpTo(0)) = 0 /\ caller = "asking"
    BY <2>2, FS_EmptySet DEF CsvInit
  <2>4. 0 >= Len(file) \/ 0 + 1 \in Starts
    BY <2>1 DEF Starts
  <2> QED BY <2>2, <2>3, <2>4 DEF RowsInv
<1>3. 0 = 0 + data_begin
  BY <1>1
<1> QED BY <1>1, <1>2, <1>3 DEF ReaderInv

\* A line that is read is the next line of the file, and it can be read.
LEMMA RowRead ==
  ASSUME ReaderInv, ReadRow
  PROVE  ReaderInv'
<1>1. PICK base \in Nat, end \in Nat, pos \in Nat :
        pos = base + data_begin /\ WindowInv(base, end) /\ RowsInv(pos)
  BY DEF ReaderInv
<1> DEFINE s == pos + 1
           n == Len(rows)
<1>2. /\ CsvTypes /\ CsvTypes' /\ WindowInv(base, end)'
      /\ StopAt(s) - s < BlockLen /\ base + data_begin' = StopAt(s)
      /\ rows' = Append(rows, LineAt(s))
      /\ WellFormed([k \in DOMAIN LineAt(s) |-> file[LineAt(s)[k]]])
  BY <1>1, RowTaken DEF ReaderInv
<1>3. file' = file /\ caller = "scanning" /\ caller' = "asking"
  BY DEF ReadRow, CallerMoves
<1>4. /\ Len(file) \in Nat /\ Starts \subseteq 1..Len(file) /\ IsFiniteSet(Starts)
      /\ Good \subseteq Starts
  BY <1>2, FileType, LinesFinite
<1>5. s \in Starts
  <2>1. data_begin \in Nat /\ data_end \in Nat
    BY <1>2 DEF CsvTypes
  <2>2. data_begin < end /\ base + end <= Len(file)
    BY <1>1, <1>3, <2>1 DEF WindowInv, Window
  <2>3. ~(pos >= Len(file))
    BY <1>1, <1>4, <2>1, <2>2
  <2> QED BY <1>1, <2>3 DEF RowsInv
<1>6. PICK stop \in Nat : stop = StopAt(s)
  BY <1>2, <1>5, NextStart
<1>7. stop >= s /\ UpTo(stop) = UpTo(s) /\ (stop >= Len(file) \/ stop + 1 \in Starts)
  BY <1>2, <1>5, <1>6, NextStart
<1>8. UpTo(s) = UpTo(pos) \cup {s} /\ s \notin UpTo(pos)
  <2>1. \A t \in Starts : t <= s <=> (t <= pos \/ t = s)
    BY <1>4
  <2> QED BY <1>5, <2>1 DEF UpTo
<1>9. Readable(s)
  BY <1>2 DEF Readable, StopAt
<1>10. UpTo(pos) \subseteq Good
  BY <1>1 DEF RowsInv
<1>11. UpTo(s) \subseteq Good
  <2>1. ASSUME NEW t \in Starts, t <= s PROVE Readable(t)
    <3>1. CASE t = s
      BY <1>9, <3>1
    <3>2. CASE t # s
      <4>1. t \in UpTo(pos) /\ t <= t
        BY <1>4, <1>8, <2>1, <3>2 DEF UpTo
      <4> QED BY <1>10, <4>1 DEF Good
    <3> QED BY <3>1, <3>2
  <2>2. s \in Good
    BY <1>5, <2>1 DEF Good
  <2> QED BY <1>8, <1>10, <2>2
<1>12. Cardinality(UpTo(s)) = n + 1 /\ n \in Nat
  <2>1. IsFiniteSet(UpTo(pos))
    BY <1>4, FS_Subset DEF UpTo
  <2>2. Cardinality(UpTo(pos)) = n
    BY <1>1 DEF RowsInv
  <2>3. n \in Nat
    BY <1>2 DEF CsvTypes
  <2> QED BY <1>8, <2>1, <2>2, <2>3, FS_AddElement
<1>13. {t \in Good : t <= s} = UpTo(s)
  BY <1>4, <1>11 DEF UpTo
<1>14. Len(rows') = n + 1 /\ rows'[n + 1] = LineAt(s)
       /\ \A k \in 1..n : rows'[k] = rows[k]
  <2>1. rows \in Seq(Seq(0..Len(file)))
    BY <1>2 DEF CsvTypes
  <2> QED BY <1>2, <2>1
<1>15. \A k \in 1..n + 1 : \E q \in Good :
          Cardinality({t \in Good : t <= q}) = k /\ rows'[k] = LineAt(q)
  <2> TAKE k \in 1..n + 1
  <2>1. CASE k \in 1..n
    BY <1>1, <1>14, <2>1 DEF RowsInv
  <2>2. CASE k = n + 1
    <3>1. s \in Good
      BY <1>5, <1>8, <1>11
    <3>2. Cardinality({t \in Good : t <= s}) = k /\ rows'[k] = LineAt(s)
      BY <1>12, <1>13, <1>14, <2>2
    <3> WITNESS s \in Good
    <3> QED BY <3>2
  <2>3. k \in 1..n \/ k = n + 1
    BY <1>12
  <2> HIDE DEF s, n
  <2> QED BY <2>1, <2>2, <2>3
<1>16. RowsInv(stop)'
  <2> HIDE DEF s, n
  <2>1. /\ UpTo(stop)' = UpTo(s) /\ Good' = Good /\ Starts' = Starts
        /\ \A q : LineAt(q)' = LineAt(q)
    BY <1>3, <1>7, SameLines
  <2>2. Len(rows)' = n + 1
    BY <1>14
  <2>3. \A k \in 1..Len(rows)' : \E q \in Good' :
          Cardinality({t \in Good' : t <= q}) = k /\ rows'[k] = LineAt(q)'
    BY <1>15, <2>1, <2>2
  <2> QED BY <1>3, <1>7, <1>11, <1>12, <2>1, <2>2, <2>3 DEF RowsInv
<1>17. stop = base + data_begin'
  BY <1>2, <1>6
<1> QED BY <1>2, <1>16, <1>17 DEF ReaderInv

\* The rows stay as they are, and the caller stops at the end of the file or at a
\* line that cannot be read (next_line, read_row).
LEMMA RowsKept ==
  ASSUME ReaderInv, [CsvNext]_csvVars, ~ReadRow
  PROVE  ReaderInv'
<1>1. PICK base \in Nat, end \in Nat, pos \in Nat :
        pos = base + data_begin /\ WindowInv(base, end) /\ RowsInv(pos)
  BY DEF ReaderInv
<1>2. /\ CsvTypes /\ CsvTypes' /\ file' = file /\ rows' = rows
      /\ \E b, e \in Nat : WindowInv(b, e)' /\ b + data_begin' = base + data_begin
  BY <1>1, WindowKept DEF ReaderInv
<1>3. Len(file) \in Nat /\ BlockLen \in Nat /\ data_begin \in Nat /\ data_end \in Nat
  BY <1>2, FileType DEF CsvTypes
<1>4. ASSUME caller' \in {"ended", "closing", "closed"} PROVE pos >= Len(file)
  <2>1. CASE NoMoreLines
    <3>1. data_begin = data_end /\ caller = "asking"
      BY <2>1 DEF NoMoreLines, CallerMoves
    <3> QED BY <1>1, <1>3, <3>1 DEF WindowInv, Window
  <2>2. CASE Terminate \/ JoinWorker
    BY <1>1, <2>2 DEF Terminate, JoinWorker, CallerMoves, RowsInv
  <2>3. CASE UNCHANGED caller
    BY <1>1, <1>4, <2>3 DEF RowsInv
  <2> QED BY <1>4, <2>1, <2>2, <2>3
          DEF CsvNext, Read, Close, Worker, SameBlock, ShiftBlock, FinishRead, ReadThrows,
              ReadBlock, WorkerStops, CallerMoves, csvVars
<1>5. ASSUME caller' = "failed" PROVE pos + 1 \in Starts /\ ~Readable(pos + 1)
  <2>1. CASE ReadThrows
    <3>1. /\ caller = "scanning"
          /\ TooLong \/ ~WellFormed([k \in DOMAIN Line |-> file[Line[k]]])
      BY <2>1 DEF ReadThrows, CallerMoves
    <3>2. data_begin < end /\ base + end <= Len(file)
      BY <1>1, <1>3, <3>1 DEF WindowInv, Window
    <3>3. ~(pos >= Len(file))
      BY <1>1, <1>3, <3>2
    <3>4. pos + 1 \in Starts
      BY <1>1, <3>3 DEF RowsInv
    <3>5. /\ TooLong <=> StopAt(pos + 1) - (pos + 1) >= BlockLen
          /\ ~TooLong => Line = LineAt(pos + 1)
      BY <1>1, <1>2, <3>1, LineFound
    <3>6. StopAt(pos + 1) \in Nat
      BY <1>2, <3>4, NextStart
    <3>7. Readable(pos + 1) => StopAt(pos + 1) - (pos + 1) < BlockLen
                               /\ WellFormed([k \in DOMAIN LineAt(pos + 1) |-> file[LineAt(pos + 1)[k]]])
      BY DEF Readable, StopAt
    <3> QED BY <1>3, <3>1, <3>4, <3>5, <3>6, <3>7
  <2>2. CASE UNCHANGED caller
    BY <1>1, <1>5, <2>2 DEF RowsInv
  <2> QED BY <1>5, <2>1, <2>2
          DEF CsvNext, Read, Close, Worker, NoMoreLines, SameBlock, ShiftBlock, FinishRead,
              Terminate, JoinWorker, ReadBlock, WorkerStops, CallerMoves, csvVars
<1>6. RowsInv(pos)'
  <2>1. /\ UpTo(pos)' = UpTo(pos) /\ Good' = Good /\ Starts' = Starts
        /\ \A q : LineAt(q)' = LineAt(q) /\ (Readable(q)' <=> Readable(q))
    BY <1>2, SameLines
  <2>2. Len(rows)' = Len(rows) /\ Len(file)' = Len(file)
    BY <1>2
  <2>3. \A k \in 1..Len(rows)' : \E q \in Good' :
          Cardinality({t \in Good' : t <= q}) = k /\ rows'[k] = LineAt(q)'
    BY <1>1, <1>2, <2>1, <2>2 DEF RowsInv
  <2>4. pos >= Len(file) \/ pos + 1 \in Starts
    BY <1>1 DEF RowsInv
  <2>5. caller' = "failed" => pos + 1 \in Starts' /\ ~Readable(pos + 1)'
    BY <1>5, <2>1
  <2>6. UpTo(pos)' \subseteq Good' /\ Len(rows)' = Cardinality(UpTo(pos)')
    BY <1>1, <2>1, <2>2 DEF RowsInv
  <2> QED BY <1>4, <2>1, <2>2, <2>3, <2>4, <2>5, <2>6 DEF RowsInv
<1> QED BY <1>1, <1>2, <1>6 DEF ReaderInv

LEMMA ReaderKeeps == ReaderInv /\ [CsvNext]_csvVars => ReaderInv'
BY RowRead, RowsKept

\* What is read up to the end of the file, or to a line that cannot be read.
LEMMA RowsAre == ReaderInv => RowsExact
<1> SUFFICES ASSUME ReaderInv PROVE RowsExact
  OBVIOUS
<1>1. PICK pos \in Nat : RowsInv(pos)
  BY DEF ReaderInv
<1>2. /\ Len(file) \in Nat /\ Starts \subseteq 1..Len(file) /\ Good \subseteq Starts
      /\ CsvTypes
  BY FileType, LinesFinite DEF ReaderInv
<1>3. caller \in {"ended", "closing", "closed"} => Len(rows) = Cardinality(Starts)
  <2> SUFFICES ASSUME caller \in {"ended", "closing", "closed"} PROVE UpTo(pos) = Starts
    BY <1>1 DEF RowsInv
  <2>1. pos >= Len(file)
    BY <1>1 DEF RowsInv
  <2>2. \A t \in Starts : t <= pos
    BY <1>2, <2>1
  <2> QED BY <2>2 DEF UpTo
<1>4. caller = "failed" => Len(rows) = Cardinality(Good) /\ Good # Starts
  <2> SUFFICES ASSUME caller = "failed" PROVE UpTo(pos) = Good /\ Good # Starts
    BY <1>1 DEF RowsInv
  <2>1. pos + 1 \in Starts /\ ~Readable(pos + 1) /\ UpTo(pos) \subseteq Good
    BY <1>1 DEF RowsInv
  <2>2. pos + 1 \notin Good
    BY <2>1 DEF Good
  <2>3. ASSUME NEW t \in Good PROVE t <= pos
    <3>1. t \in Nat /\ t \in Starts
      BY <1>2
    <3>2. pos + 1 <= t => Readable(pos + 1)
      BY <2>1 DEF Good
    <3> QED BY <2>1, <3>1, <3>2
  <2> QED BY <1>2, <2>1, <2>2, <2>3 DEF UpTo
<1> QED BY <1>1, <1>3, <1>4 DEF RowsExact, RowsInv

LEMMA ReaderInvariant == CsvSpec => []ReaderInv
<1>1. CsvInit => ReaderInv
  BY ReaderStarts
<1>2. ReaderInv /\ [CsvNext]_csvVars => ReaderInv'
  BY ReaderKeeps
<1> QED BY <1>1, <1>2, PTL DEF CsvSpec

\* Wherever the blocks cut the file and whenever its thread reads, the window
\* lies in the first two blocks (LineReader).
THEOREM ReaderTypeCorrect == CsvSpec => []CsvTypeOK
<1>1. ReaderInv => CsvTypeOK
  <2> SUFFICES ASSUME ReaderInv PROVE CsvTypeOK
    OBVIOUS
  <2>1. PICK base \in Nat, end \in Nat : WindowInv(base, end)
    BY DEF ReaderInv
  <2>2. CsvTypes /\ data_begin \in Nat /\ data_end \in Nat /\ BlockLen \in Nat
    BY FileType DEF ReaderInv, CsvTypes
  <2>3. data_begin \in 0..data_end /\ data_end \in 0..2 * BlockLen
    BY <2>1, <2>2 DEF WindowInv, Window
  <2> QED BY <2>2, <2>3 DEF CsvTypes, CsvTypeOK
<1> QED BY <1>1, ReaderInvariant, PTL

\* The rows read are the lines of the file, in order and complete, for every
\* file, block length and interleaving with the thread (next_line, read_row).
THEOREM RowsExactAlways == CsvSpec => []RowsExact
BY RowsAre, ReaderInvariant, PTL

\* The load generator drives its reader as the reader allows.
LEMMA UsesReader == LoadNext => [CsvNext]_csvVars
<1> SUFFICES ASSUME LoadNext PROVE [CsvNext]_csvVars
  OBVIOUS
<1>1. CASE Main
  BY <1>1 DEF Main, Load, PopPreload, PopNothing, PopAsync, EndRequests, StopReader,
              JoinProducer, DestroyReader, CsvNext
<1>2. CASE Producer \/ WakeProducer
  BY <1>2 DEF Producer, ReadCase, PushCase, PushClosed, WakeProducer
<1>3. CASE CsvWorker
  BY <1>3 DEF CsvWorker, CsvNext
<1>4. CASE Send
  BY <1>4 DEF Send
<1>5. CASE Clock
  BY <1>5 DEF Clock
<1> QED
  BY <1>1, <1>2, <1>3, <1>4, <1>5 DEF LoadNext

\* The load generator implements the reader: what it does to the CSV file is what
\* CsvReader allows (TestCaseReaderPreload).
THEOREM ImplementsReader == LoadSpec => CsvSpec
<1>1. LoadInit => CsvInit
  BY DEF LoadInit
<1>2. [LoadNext]_loadVars => [CsvNext]_csvVars
  BY UsesReader DEF loadVars
<1> QED
  BY <1>1, <1>2, PTL DEF LoadSpec, CsvSpec

\* The test cases of a run are the lines of its file (TestCaseReaderPreload).
THEOREM RunRowsExact == LoadSpec => []RowsExact
BY ImplementsReader, RowsExactAlways, PTL

-----------------------------------------------------------------------------
(* Counting round after round *)

LEMMA Times ==
  ASSUME NEW n \in Nat, NEW d \in Int
  PROVE  /\ n * d \in Int
         /\ d >= 1 => n * d >= n
         /\ d <= -1 => n * d <= -n
         /\ d = 0 => n * d = 0
         /\ d = 1 => n * d = n
  BY Z3

LEMMA Minus ==
  ASSUME NEW n \in Nat, NEW p \in Int, NEW q \in Int
  PROVE  n * q - n * p = n * (q - p)
  BY Z3

LEMMA Divided ==
  ASSUME NEW n \in Nat \ {0}, NEW a \in Nat
  PROVE  a = n * (a \div n) + (a % n) /\ a \div n \in Nat /\ a % n \in 0..n - 1
  BY SMT

LEMMA Remainder ==
  ASSUME NEW n \in Nat \ {0}, NEW a \in Nat
  PROVE  (a + 1) % n = IF a % n = n - 1 THEN 0 ELSE (a % n) + 1
<1>1. PICK p \in Nat, r \in 0..n - 1 : a = n * p + r /\ r = a % n
  BY Divided
<1>2. PICK q \in Nat, s \in 0..n - 1 : a + 1 = n * q + s /\ s = (a + 1) % n
  <2>1. a + 1 \in Nat
    OBVIOUS
  <2> QED BY <2>1, Divided
<1>3. PICK d \in Int : d = q - p
  OBVIOUS
<1>4. n * d = n * q - n * p /\ n * q \in Int /\ n * p \in Int /\ n * d \in Int
  BY <1>3, Minus, Times
<1>5. n * d = r + 1 - s
  BY <1>1, <1>2, <1>4
<1>6. d = 0 \/ d = 1
  <2>1. n * d > -n /\ n * d <= n
    BY <1>5
  <2>2. ~(d <= -1)
    BY <2>1, <1>4, Times
  <2>3. d >= 2 => n * d >= 2 * n
    BY Z3
  <2> QED BY <2>1, <2>2, <2>3
<1>7. n * d = 0 \/ n * d = n
  BY <1>6, Times
<1>8. s = r + 1 \/ s = r + 1 - n
  BY <1>5, <1>7
<1>9. r \in 0..n - 1 /\ s \in 0..n - 1
  BY <1>1, <1>2
<1>10. s = IF r = n - 1 THEN 0 ELSE r + 1
  BY <1>8, <1>9
<1> QED BY <1>1, <1>2, <1>10

\* Of the first numbers the remainder is the number itself.
LEMMA FirstRound ==
  ASSUME NEW n \in Nat \ {0}, NEW a \in 0..n - 1
  PROVE  a % n = a
  BY SMT

-----------------------------------------------------------------------------
(* The cases of the run *)

\* Case number i of the file read round after round.
CaseNo(i) == Case(RowAt(((i - 1) % NumRows) + 1), i > NumRows)

\* The cases a reader can give out.
Cases ==
  {Case(RowAt(k), repeat) : k \in 1..NumRows, repeat \in BOOLEAN}
    \cup {Case(<<>>, repeat) : repeat \in BOOLEAN}

\* A reader that has given out so many cases.
GivenOut(count) ==
  /\ read_num = IF count = 0 THEN 0 ELSE ((count - 1) % NumRows) + 1
  /\ reapeat <=> count > NumRows

LoadTypes ==
  /\ reader \in {"preload", "async"} /\ enable_repeat \in BOOLEAN /\ req_times \in Nat
  /\ main \in {"loading", "requesting", "requested", "stopping", "stopped", "undefined"}
  /\ read_num \in 0..NumRows /\ reapeat \in BOOLEAN
  /\ producer \in {"reading", "pushing", "missed", "gone"}
  /\ held \in Cases
  /\ queue \in Seq(Cases) /\ Len(queue) <= Capacity
  /\ requested \in Seq(Cases)
  /\ reader = "preload" => (main = "loading" <=> caller \notin {"ended", "closing", "closed"})
  /\ reader = "preload" => producer = "gone"
  /\ reader = "async" => main \notin {"loading", "undefined"}
  /\ main = "undefined" => NumRows = 0

\* A worker that sleeps has a request to send.
SendsRequested ==
  /\ Len(sends) <= Len(requested)
  /\ asleep => Len(sends) < Len(requested)

\* While the run goes on it has asked for no more than it is to.
WithinRun ==
  /\ main = "loading" => requested = <<>>
  /\ main = "requesting" =>
       /\ req_times = 0 \/ Len(requested) <= req_times
       /\ ~enable_repeat => Len(requested) <= NumRows

\* The preloading reader has given out the cases requested.
PreloadInv ==
  reader = "preload" /\ main \in {"loading", "requesting"} => GivenOut(Len(requested))

\* What is requested, in the queue and held are successive cases, until a case
\* is dropped at the end of the run.
Successive(asked, waiting) ==
  /\ \A j \in 1..waiting : queue[j] = CaseNo(asked + j)
  /\ producer = "reading" => GivenOut(asked + waiting)
  /\ producer = "pushing" =>
       GivenOut(asked + waiting + 1) /\ held = CaseNo(asked + waiting + 1)

AsyncInv ==
  reader = "async" /\ main = "requesting" => Successive(Len(requested), Len(queue))

\* What has been requested is, case by case, the file round after round.
AskedInv ==
  /\ \A i \in 1..Len(requested) : requested[i] = CaseNo(i)
  /\ main \in {"requested", "stopping", "stopped"} =>
       Len(requested) = IF enable_repeat \/ req_times \in 1..NumRows THEN req_times ELSE NumRows

RoundsInv == NumRows # 0 => AskedInv /\ WithinRun /\ PreloadInv /\ AsyncInv

LoadInv == ReaderInv /\ IInv /\ LoadTypes /\ SendsRequested /\ RoundsInv

LEMMA SameCases ==
  ASSUME file' = file
  PROVE  /\ NumRows' = NumRows /\ Cases' = Cases
         /\ \A i : CaseNo(i)' = CaseNo(i)
<1>1. NumRows' = NumRows /\ \A k : RowAt(k)' = RowAt(k)
  BY SameLines DEF NumRows, RowAt
<1>2. \A i : CaseNo(i)' = CaseNo(i)
  BY <1>1 DEF CaseNo
<1>3. Cases' = Cases
  BY <1>1 DEF Cases
<1> QED BY <1>1, <1>2, <1>3

\* The file has no more rows than bytes, and has them all once it has been read.
LEMMA RowsCounted ==
  ASSUME ReaderInv
  PROVE  NumRows \in Nat /\ NumRows <= Len(file)
  BY LinesFinite DEF ReaderInv, NumRows

\* No two lines have the same number.
LEMMA LineNumber ==
  ASSUME CsvTypes, NEW s \in Starts, NEW u \in Starts,
         Cardinality({t \in Starts : t <= s}) = Cardinality({t \in Starts : t <= u})
  PROVE  s = u
<1> DEFINE T(x) == {t \in Starts : t <= x}
<1>1. Starts \subseteq Nat /\ IsFiniteSet(Starts)
  BY LinesFinite
<1>2. ASSUME NEW x \in Starts, NEW y \in Starts, Cardinality(T(x)) = Cardinality(T(y)), x < y
      PROVE  FALSE
  <2>1. x \in Nat /\ y \in Nat
    BY <1>1
  <2>2. T(x) \subseteq T(y)
    <3>1. \A t \in Starts : t <= x => t <= y
      BY <1>1, <1>2, <2>1
    <3> QED BY <3>1
  <2>3. IsFiniteSet(T(y))
    BY <1>1, FS_Subset
  <2>4. y \in T(y) /\ y \notin T(x)
    BY <1>2, <2>1
  <2> HIDE DEF T
  <2>5. T(x) = T(y)
    BY <1>2, <2>2, <2>3, FS_Subset
  <2> QED BY <2>4, <2>5
<1>3. s \in Nat /\ u \in Nat
  BY <1>1
<1>4. ~(s < u) /\ ~(u < s)
  BY <1>2
<1> QED BY <1>3, <1>4

LEMMA RowsGiven ==
  ASSUME ReaderInv, caller \in {"ended", "closing", "closed"}
  PROVE  Len(rows) = NumRows /\ \A k \in 1..NumRows : rows[k] = RowAt(k)
<1>1. PICK pos \in Nat : RowsInv(pos)
  BY DEF ReaderInv
<1>2. CsvTypes /\ Len(file) \in Nat /\ Starts \subseteq 1..Len(file)
  BY FileType, LinesFinite DEF ReaderInv
<1>3. Good = Starts
  <2>1. pos >= Len(file) /\ UpTo(pos) \subseteq Good
    BY <1>1 DEF RowsInv
  <2>2. \A t \in Starts : t <= pos
    BY <1>2, <2>1
  <2> QED BY <2>1, <2>2 DEF UpTo, Good
<1>4. Len(rows) = NumRows
  BY RowsAre DEF RowsExact, NumRows
<1>5. ASSUME NEW k \in 1..NumRows PROVE rows[k] = RowAt(k)
  <2>1. PICK s \in Starts :
          Cardinality({t \in Starts : t <= s}) = k /\ rows[k] = LineAt(s)
    BY <1>1, <1>3, <1>4, <1>5 DEF RowsInv
  <2> DEFINE u == CHOOSE x \in Starts : Cardinality({t \in Starts : t <= x}) = k
  <2>2. u \in Starts /\ Cardinality({t \in Starts : t <= u}) = k
    BY <2>1
  <2>3. RowAt(k) = LineAt(u)
    BY DEF RowAt
  <2> HIDE DEF u
  <2>4. u = s
    BY <1>2, <2>1, <2>2, LineNumber
  <2> QED BY <2>1, <2>3, <2>4
<1> QED BY <1>4, <1>5

\* A case of a reader is one of the file, and the next of those given out
\* (Pop).
LEMMA NextCase ==
  ASSUME NumRows \in Nat, NumRows # 0, read_num \in 0..NumRows, reapeat \in BOOLEAN
  PROVE  /\ Round(NumRows) + 1 \in 1..NumRows
         /\ Case(RowAt(Round(NumRows) + 1), Repeats(NumRows)) \in Cases
         /\ \A count \in Nat : GivenOut(count) =>
              /\ Round(NumRows) + 1 = (count % NumRows) + 1
              /\ Repeats(NumRows) <=> count + 1 > NumRows
              /\ Case(RowAt(Round(NumRows) + 1), Repeats(NumRows)) = CaseNo(count + 1)
<1>1. Round(NumRows) + 1 \in 1..NumRows /\ Repeats(NumRows) \in BOOLEAN
  BY DEF Round, Repeats
<1>2. ASSUME NEW count \in Nat, GivenOut(count)
      PROVE  /\ Round(NumRows) + 1 = (count % NumRows) + 1
             /\ Repeats(NumRows) <=> count + 1 > NumRows
  <2>1. CASE count = 0
    <3>1. read_num = 0 /\ reapeat = FALSE
      BY <1>2, <2>1 DEF GivenOut
    <3>2. 0 % NumRows = 0
      BY FirstRound
    <3> QED BY <2>1, <3>1, <3>2 DEF Round, Repeats
  <2>2. CASE count # 0
    <3>1. PICK a \in Nat : a = count - 1
      BY <2>2
    <3>2. PICK r \in 0..NumRows - 1 : r = a % NumRows
      BY Divided
    <3>3. read_num = r + 1 /\ (reapeat <=> count > NumRows)
      BY <1>2, <2>2, <3>1, <3>2 DEF GivenOut
    <3>4. count % NumRows = IF r = NumRows - 1 THEN 0 ELSE r + 1
      <4>1. (a + 1) % NumRows = IF a % NumRows = NumRows - 1 THEN 0 ELSE (a % NumRows) + 1
        BY Remainder
      <4>2. a + 1 = count
        BY <3>1
      <4> QED BY <3>2, <4>1, <4>2
    <3>5. Round(NumRows) = IF r = NumRows - 1 THEN 0 ELSE r + 1
      BY <3>2, <3>3 DEF Round
    <3>6. Round(NumRows) + 1 = (count % NumRows) + 1
      BY <3>4, <3>5
    <3>7. count < NumRows => r = count - 1
      BY <3>1, <3>2, FirstRound
    <3>8. count = NumRows => r = NumRows - 1
      <4>1. a \in 0..NumRows - 1 => a % NumRows = a
        BY FirstRound
      <4> QED BY <3>1, <3>2, <4>1
    <3>9. Repeats(NumRows) <=> count + 1 > NumRows
      <4>1. Repeats(NumRows) <=> (count > NumRows \/ r + 1 >= NumRows)
        BY <3>3 DEF Repeats
      <4> QED BY <3>2, <3>7, <3>8, <4>1
    <3> QED BY <3>6, <3>9
  <2> QED BY <2>1, <2>2
<1>3. ASSUME NEW count \in Nat, GivenOut(count)
      PROVE  Case(RowAt(Round(NumRows) + 1), Repeats(NumRows)) = CaseNo(count + 1)
  <2>1. (count + 1) - 1 = count
    OBVIOUS
  <2>2. CaseNo(count + 1) = Case(RowAt((count % NumRows) + 1), count + 1 > NumRows)
    BY <2>1 DEF CaseNo
  <2>3. Repeats(NumRows) = (count + 1 > NumRows)
    BY <1>1, <1>2, <1>3
  <2> QED BY <1>2, <1>3, <2>2, <2>3
<1>4. Case(RowAt(Round(NumRows) + 1), Repeats(NumRows)) \in Cases
  BY <1>1 DEF Cases
<1> QED BY <1>1, <1>2, <1>3, <1>4

-----------------------------------------------------------------------------
(* The steps of the load generator *)

LEMMA LoadStarts == LoadInit => LoadInv
<1> SUFFICES ASSUME LoadInit PROVE LoadInv
  OBVIOUS
<1>1. ReaderInv /\ IInv
  BY ReaderStarts, BucketStarts DEF LoadInit
<1>2. PICK s \in Setups :
        /\ reader = s.reader /\ enable_repeat = s.enable_repeat /\ req_times = s.req_times
  BY DEF LoadInit
<1>3. reader \in {"preload", "async"} /\ enable_repeat \in BOOLEAN /\ req_times \in Nat
  BY <1>2, LoadAssumption
<1>4. /\ requested = <<>> /\ queue = <<>> /\ sends = <<>> /\ read_num = 0 /\ reapeat = FALSE
      /\ held = Case(<<>>, FALSE) /\ caller = "asking" /\ asleep = FALSE
      /\ main = IF reader = "preload" THEN "loading" ELSE "requesting"
      /\ producer = IF reader = "async" THEN "reading" ELSE "gone"
  BY DEF LoadInit, CsvInit, BucketInit
<1>5. NumRows \in Nat
  BY <1>1, RowsCounted
<1>6. LoadTypes
  <2>1. held \in Cases
    <3>1. Case(<<>>, FALSE) \in {Case(<<>>, repeat) : repeat \in BOOLEAN}
      OBVIOUS
    <3>2. {Case(<<>>, repeat) : repeat \in BOOLEAN} \subseteq Cases
      BY DEF Cases
    <3> QED BY <1>4, <3>1, <3>2
  <2>2. Len(queue) <= Capacity /\ queue \in Seq(Cases) /\ requested \in Seq(Cases)
    BY <1>4, LoadAssumption
  <2>3. read_num \in 0..NumRows
    BY <1>4, <1>5
  <2> QED BY <1>3, <1>4, <2>1, <2>2, <2>3 DEF LoadTypes
<1>7. SendsRequested
  BY <1>4 DEF SendsRequested
<1>8. Len(requested) = 0 /\ Len(queue) = 0 /\ GivenOut(0)
  BY <1>4, <1>5 DEF GivenOut
<1>9. RoundsInv
  <2>1. AskedInv
    BY <1>4, <1>8 DEF AskedInv
  <2>2. WithinRun
    BY <1>3, <1>4, <1>5, <1>8 DEF WithinRun
  <2>3. PreloadInv
    BY <1>8 DEF PreloadInv
  <2>4. AsyncInv
    <3>1. Len(requested) + Len(queue) = 0
      BY <1>8
    <3>2. reader = "async" => producer = "reading"
      BY <1>4
    <3> QED BY <1>8, <3>1, <3>2 DEF AsyncInv, Successive
  <2> QED BY <2>1, <2>2, <2>3, <2>4 DEF RoundsInv
<1> QED BY <1>1, <1>6, <1>7, <1>9 DEF LoadInv

\* The reader's and the bucket's own steps, as long as the reader does not end.
LEMMA RunKept ==
  ASSUME LoadTypes, RoundsInv, file' = file,
         UNCHANGED <<config, main, read_num, reapeat, async, requested>>,
         caller' \in {"ended", "closing", "closed"} <=> caller \in {"ended", "closing", "closed"}
  PROVE  LoadTypes' /\ RoundsInv'
<1>1. /\ reader' = reader /\ enable_repeat' = enable_repeat /\ req_times' = req_times
      /\ main' = main /\ read_num' = read_num /\ reapeat' = reapeat /\ producer' = producer
      /\ held' = held /\ queue' = queue /\ requested' = requested
  BY DEF config, async
<1>2. NumRows' = NumRows /\ Cases' = Cases /\ \A i : CaseNo(i)' = CaseNo(i)
  BY SameCases
<1>3. LoadTypes'
  BY <1>1, <1>2 DEF LoadTypes
<1>4. \A count : GivenOut(count)' <=> GivenOut(count)
  BY <1>1, <1>2 DEF GivenOut
<1>5. RoundsInv'
  <2>1. AskedInv => AskedInv'
    BY <1>1, <1>2 DEF AskedInv
  <2>2. WithinRun => WithinRun'
    BY <1>1, <1>2 DEF WithinRun
  <2>3. PreloadInv => PreloadInv'
    BY <1>1, <1>2 DEF PreloadInv, GivenOut
  <2>4. AsyncInv => AsyncInv'
    BY <1>1, <1>2 DEF AsyncInv, Successive, GivenOut
  <2> QED BY <1>2, <2>1, <2>2, <2>3, <2>4 DEF RoundsInv
<1> QED BY <1>3, <1>5

\* The run asks for the next case, or ends with it (RunBenchmark).
LEMMA CaseAsked ==
  ASSUME LoadTypes, NumRows \in Nat, AsksOn, NEW case \in Cases, Ask(case),
         NumRows' = NumRows, Cases' = Cases, \A i : CaseNo(i)' = CaseNo(i),
         UNCHANGED config
  PROVE  /\ requested' \in Seq(Cases) /\ main' \in {"requesting", "requested"}
         /\ Len(requested') \in {Len(requested), Len(requested) + 1}
         /\ main' = "requesting" => Len(requested') = Len(requested) + 1
         /\ case = CaseNo(Len(requested) + 1) /\ AskedInv /\ WithinRun => AskedInv' /\ WithinRun'
<1> DEFINE n == Len(requested)
<1>1. requested \in Seq(Cases) /\ n \in Nat /\ req_times \in Nat /\ enable_repeat \in BOOLEAN
  BY DEF LoadTypes
<1>2. main = "requesting" /\ (req_times = 0 \/ n < req_times)
  BY DEF AsksOn
<1>3. enable_repeat' = enable_repeat /\ req_times' = req_times
  BY DEF config
<1>4. CASE ~enable_repeat /\ case.repeat
  <2>1. main' = "requested" /\ requested' = requested
    BY <1>4 DEF Ask
  <2>2. ASSUME case = CaseNo(n + 1), AskedInv, WithinRun PROVE AskedInv' /\ WithinRun'
    <3>1. case.repeat <=> n + 1 > NumRows
      BY <2>2 DEF CaseNo, Case
    <3>2. n <= NumRows
      BY <1>2, <1>4, <2>2 DEF WithinRun
    <3>3. n = NumRows
      BY <1>1, <1>4, <3>1, <3>2
    <3>4. ~(req_times \in 1..NumRows)
      BY <1>1, <1>2, <3>3
    <3>5. \A i \in 1..n : requested[i] = CaseNo(i)
      BY <2>2 DEF AskedInv
    <3> QED BY <1>3, <1>4, <2>1, <3>3, <3>4, <3>5 DEF AskedInv, WithinRun
  <2> QED BY <1>1, <2>1, <2>2
<1>5. CASE ~(~enable_repeat /\ case.repeat)
  <2>1. main' = main /\ requested' = Append(requested, case)
    BY <1>5 DEF Ask
  <2>2. /\ Len(requested') = n + 1 /\ requested' \in Seq(Cases)
        /\ requested'[n + 1] = case /\ \A i \in 1..n : requested'[i] = requested[i]
    BY <1>1, <2>1
  <2>3. ASSUME case = CaseNo(n + 1), AskedInv, WithinRun PROVE AskedInv' /\ WithinRun'
    <3>1. \A i \in 1..n : requested[i] = CaseNo(i)
      BY <2>3 DEF AskedInv
    <3>2. \A i \in 1..n + 1 : requested'[i] = CaseNo(i)
      <4> TAKE i \in 1..n + 1
      <4>1. i \in 1..n \/ i = n + 1
        BY <1>1
      <4> QED BY <2>2, <2>3, <3>1, <4>1
    <3>3. ~enable_repeat => n + 1 <= NumRows
      <4>1. case.repeat <=> n + 1 > NumRows
        BY <2>3 DEF CaseNo, Case
      <4> QED BY <1>1, <1>5, <4>1
    <3>4. req_times = 0 \/ n + 1 <= req_times
      BY <1>1, <1>2
    <3> HIDE DEF n
    <3> QED BY <1>2, <1>3, <2>1, <2>2, <3>2, <3>3, <3>4 DEF AskedInv, WithinRun
  <2> QED BY <1>1, <1>2, <2>1, <2>2, <2>3
<1> QED BY <1>4, <1>5

\* What the steps of the run, and of the thread that reads for it, leave alone.
LEMMA Still ==
  ASSUME LoadTypes, file' = file, UNCHANGED config
  PROVE  /\ NumRows' = NumRows /\ Cases' = Cases
         /\ reader' = reader /\ enable_repeat' = enable_repeat /\ req_times' = req_times
         /\ \A i : CaseNo(i)' = CaseNo(i)
  BY SameCases DEF config

\* The whole file is read, or the program ends (Start).
LEMMA LoadKeeps ==
  ASSUME LoadInv, Load, file' = file
  PROVE  LoadTypes' /\ RoundsInv'
<1>1. /\ main = "loading" /\ Read
      /\ main' = IF caller' = "ended" THEN "requesting" ELSE "loading"
      /\ UNCHANGED config /\ read_num' = read_num /\ reapeat' = reapeat
      /\ producer' = producer /\ held' = held /\ queue' = queue /\ requested' = requested
  BY DEF Load, async
<1>2. LoadTypes /\ RoundsInv /\ NumRows \in Nat
  BY RowsCounted DEF LoadInv
<1>3. /\ NumRows' = NumRows /\ Cases' = Cases
      /\ reader' = reader /\ enable_repeat' = enable_repeat /\ req_times' = req_times
      /\ \A i : CaseNo(i)' = CaseNo(i)
  BY <1>1, <1>2, Still
<1>4. reader = "preload"
  BY <1>1, <1>2 DEF LoadTypes
<1>5. caller' \in {"asking", "scanning", "finishing", "failed", "ended"}
  BY <1>1 DEF Read, NoMoreLines, SameBlock, ShiftBlock, FinishRead, ReadRow, ReadThrows, CallerMoves
<1>6. LoadTypes'
  BY <1>1, <1>2, <1>3, <1>4, <1>5 DEF LoadTypes
<1>7. ASSUME NumRows # 0 PROVE AskedInv' /\ WithinRun' /\ PreloadInv' /\ AsyncInv'
  <2>1. requested = <<>> /\ AskedInv /\ PreloadInv
    BY <1>1, <1>2, <1>7 DEF RoundsInv, WithinRun
  <2>2. AskedInv'
    BY <1>1, <1>3, <2>1 DEF AskedInv
  <2>3. Len(requested') = 0 /\ req_times \in Nat
    BY <1>1, <1>2, <2>1 DEF LoadTypes
  <2>4. WithinRun'
    BY <1>1, <1>2, <1>3, <2>1, <2>3 DEF WithinRun
  <2>5. PreloadInv'
    BY <1>1, <1>3, <2>1 DEF PreloadInv, GivenOut
  <2>6. AsyncInv'
    BY <1>3, <1>4 DEF AsyncInv
  <2> QED BY <2>2, <2>4, <2>5, <2>6
<1> QED BY <1>3, <1>6, <1>7 DEF RoundsInv

\* The preloading reader gives out the next row (Pop).
LEMMA PopPreloadKeeps ==
  ASSUME LoadInv, PopPreload
  PROVE  LoadTypes' /\ RoundsInv' /\ Len(requested') >= Len(requested)
<1> DEFINE case == Case(rows[Round(Len(rows)) + 1], Repeats(Len(rows)))
           n == Len(requested)
<1>1. /\ AsksOn /\ reader = "preload" /\ rows # <<>> /\ Ask(case)
      /\ read_num' = Round(Len(rows)) + 1 /\ (reapeat' = Repeats(Len(rows)))
      /\ UNCHANGED config /\ producer' = producer /\ held' = held /\ queue' = queue
      /\ file' = file /\ caller' = caller
  BY DEF PopPreload, async, csvVars
<1>2. LoadTypes /\ RoundsInv /\ NumRows \in Nat /\ ReaderInv /\ n \in Nat
  BY RowsCounted DEF LoadInv, LoadTypes
<1>3. /\ NumRows' = NumRows /\ Cases' = Cases
      /\ reader' = reader /\ enable_repeat' = enable_repeat /\ req_times' = req_times
      /\ \A i : CaseNo(i)' = CaseNo(i)
  BY <1>1, <1>2, Still
<1>4. main = "requesting" /\ caller \in {"ended", "closing", "closed"}
  BY <1>1, <1>2 DEF AsksOn, LoadTypes
<1>5. Len(rows) = NumRows /\ \A k \in 1..NumRows : rows[k] = RowAt(k)
  BY <1>2, <1>4, RowsGiven
<1>6. NumRows # 0
  <2>1. rows \in Seq(Seq(0..Len(file)))
    BY <1>2 DEF ReaderInv, CsvTypes
  <2> QED BY <1>1, <1>5, <2>1
<1>7. read_num \in 0..NumRows /\ reapeat \in BOOLEAN
  BY <1>2 DEF LoadTypes
<1>8. /\ Round(NumRows) + 1 \in 1..NumRows /\ case \in Cases
      /\ \A count \in Nat : GivenOut(count) =>
           /\ Round(NumRows) + 1 = (count % NumRows) + 1
           /\ Repeats(NumRows) <=> count + 1 > NumRows
           /\ case = CaseNo(count + 1)
  <2>1. case = Case(RowAt(Round(NumRows) + 1), Repeats(NumRows))
    BY <1>2, <1>5, <1>6, <1>7, NextCase
  <2> HIDE DEF case
  <2> QED BY <1>2, <1>6, <1>7, <2>1, NextCase
<1>9. AskedInv /\ WithinRun /\ PreloadInv /\ AsyncInv /\ GivenOut(n)
  BY <1>1, <1>2, <1>4, <1>6 DEF RoundsInv, PreloadInv
<1> HIDE DEF case
<1>10. case = CaseNo(n + 1)
  BY <1>2, <1>8, <1>9
<1>11. /\ requested' \in Seq(Cases) /\ main' \in {"requesting", "requested"}
       /\ Len(requested') \in {n, n + 1}
       /\ main' = "requesting" => Len(requested') = n + 1
       /\ AskedInv' /\ WithinRun'
  BY <1>1, <1>2, <1>3, <1>8, <1>9, <1>10, CaseAsked
<1>12. LoadTypes'
  <2>1. read_num' \in 0..NumRows /\ reapeat' \in BOOLEAN
    BY <1>1, <1>2, <1>5, <1>8 DEF Repeats
  <2> QED BY <1>1, <1>2, <1>3, <1>4, <1>11, <2>1 DEF LoadTypes
<1>13. PreloadInv'
  <2>1. ASSUME main' = "requesting" PROVE GivenOut(Len(requested))'
    <3>1. Len(requested)' = n + 1 /\ n + 1 # 0 /\ (n + 1) - 1 = n
      BY <1>2, <1>11, <2>1
    <3>2. read_num' = (n % NumRows) + 1 /\ (reapeat' <=> n + 1 > NumRows)
      BY <1>1, <1>2, <1>5, <1>8, <1>9
    <3> QED BY <1>3, <3>1, <3>2 DEF GivenOut
  <2>2. main' # "loading"
    BY <1>11
  <2> QED BY <2>1, <2>2 DEF PreloadInv
<1>14. AsyncInv'
  BY <1>1, <1>3 DEF AsyncInv
<1>15. Len(requested') >= n
  BY <1>2, <1>11
<1> QED BY <1>11, <1>12, <1>13, <1>14, <1>15 DEF RoundsInv

\* The async reader gives out the first case of its queue (Pop).
LEMMA PopAsyncKeeps ==
  ASSUME LoadInv, PopAsync
  PROVE  LoadTypes' /\ RoundsInv' /\ Len(requested') >= Len(requested)
<1>1. /\ AsksOn /\ reader = "async" /\ queue # <<>> /\ Ask(Head(queue)) /\ queue' = Tail(queue)
      /\ read_num' = read_num /\ reapeat' = reapeat
      /\ UNCHANGED config /\ producer' = producer /\ held' = held
      /\ file' = file /\ caller' = caller
  BY DEF PopAsync, csvVars
<1>2. LoadTypes /\ RoundsInv /\ NumRows \in Nat /\ Capacity \in Nat
  BY RowsCounted, LoadAssumption DEF LoadInv, LoadTypes
<1>n. PICK n \in Nat, q \in Nat : n = Len(requested) /\ q = Len(queue)
  BY <1>2 DEF LoadTypes
<1>3. /\ NumRows' = NumRows /\ Cases' = Cases
      /\ reader' = reader /\ enable_repeat' = enable_repeat /\ req_times' = req_times
      /\ \A i : CaseNo(i)' = CaseNo(i)
  BY <1>1, <1>2, Still
<1>4. main = "requesting"
  BY <1>1 DEF AsksOn
<1>5. queue \in Seq(Cases)
  BY <1>2 DEF LoadTypes
<1>6. /\ Head(queue) \in Cases /\ Head(queue) = queue[1] /\ q >= 1
      /\ queue' \in Seq(Cases) /\ Len(queue') = q - 1
      /\ \A j \in 1..q - 1 : queue'[j] = queue[j + 1]
  BY <1>1, <1>5, <1>n
<1>7. /\ requested' \in Seq(Cases) /\ main' \in {"requesting", "requested"}
      /\ Len(requested') \in {n, n + 1}
      /\ main' = "requesting" => Len(requested') = n + 1
      /\ Head(queue) = CaseNo(n + 1) /\ AskedInv /\ WithinRun => AskedInv' /\ WithinRun'
  BY <1>1, <1>2, <1>3, <1>6, <1>n, CaseAsked
<1>8. LoadTypes'
  <2>1. Len(queue') <= Capacity
    BY <1>2, <1>6, <1>n DEF LoadTypes
  <2> QED BY <1>1, <1>2, <1>3, <1>4, <1>6, <1>7, <2>1 DEF LoadTypes
<1>9. ASSUME NumRows # 0 PROVE AskedInv' /\ WithinRun' /\ PreloadInv' /\ AsyncInv'
  <2>1. AskedInv /\ WithinRun /\ AsyncInv
    BY <1>2, <1>9 DEF RoundsInv
  <2>2. /\ \A j \in 1..q : queue[j] = CaseNo(n + j)
        /\ producer = "reading" => GivenOut(n + q)
        /\ producer = "pushing" => GivenOut((n + q) + 1) /\ held = CaseNo((n + q) + 1)
    BY <1>1, <1>4, <1>n, <2>1 DEF AsyncInv, Successive
  <2>3. Head(queue) = CaseNo(n + 1)
    BY <1>2, <1>6, <2>2
  <2>4. AsyncInv'
    <3> SUFFICES ASSUME main' = "requesting" PROVE Successive(n + 1, q - 1)'
      BY <1>6, <1>7 DEF AsyncInv
    <3>1. (n + 1) + (q - 1) = n + q
      OBVIOUS
    <3>2. \A j \in 1..q - 1 : queue'[j] = CaseNo((n + 1) + j)
      <4> TAKE j \in 1..q - 1
      <4>1. j + 1 \in 1..q /\ n + (j + 1) = (n + 1) + j
        BY <1>2
      <4>2. queue[j + 1] = CaseNo(n + (j + 1))
        BY <2>2, <4>1
      <4> QED BY <1>6, <4>1, <4>2
    <3>3. producer = "reading" => GivenOut(n + q)'
      BY <1>1, <1>3, <2>2 DEF GivenOut
    <3>4. producer = "pushing" => GivenOut((n + q) + 1)' /\ held' = CaseNo((n + q) + 1)
      BY <1>1, <1>3, <2>2 DEF GivenOut
    <3> QED BY <1>1, <1>3, <3>1, <3>2, <3>3, <3>4 DEF Successive
  <2>5. PreloadInv'
    BY <1>1, <1>3 DEF PreloadInv
  <2> QED BY <1>7, <2>1, <2>3, <2>4, <2>5
<1>10. Len(requested') >= n
  BY <1>7, <1>n
<1> QED BY <1>n, <1>3, <1>8, <1>9, <1>10 DEF RoundsInv

\* The async reader reads the next case, whatever the run does meanwhile.
LEMMA ReadCaseKeeps ==
  ASSUME LoadInv, ReadCase
  PROVE  LoadTypes' /\ RoundsInv'
<1> DEFINE case == Case(RowAt(Round(NumRows) + 1), Repeats(NumRows))
<1>1. /\ producer = "reading" /\ producer' = "pushing"
      /\ held' = Case(IF NumRows = 0 THEN <<>> ELSE RowAt(Round(NumRows) + 1), Repeats(NumRows))
      /\ read_num' = IF NumRows = 0 THEN 0 ELSE Round(NumRows) + 1
      /\ (reapeat' = Repeats(NumRows))
      /\ UNCHANGED config /\ main' = main /\ queue' = queue /\ requested' = requested
      /\ file' = file /\ caller' = caller
  BY DEF ReadCase, csvVars
<1>2. LoadTypes /\ RoundsInv /\ NumRows \in Nat
  BY RowsCounted DEF LoadInv
<1>3. /\ NumRows' = NumRows /\ Cases' = Cases
      /\ reader' = reader /\ enable_repeat' = enable_repeat /\ req_times' = req_times
      /\ \A i : CaseNo(i)' = CaseNo(i)
  BY <1>1, <1>2, Still
<1>4. PICK n \in Nat, q \in Nat : n = Len(requested) /\ q = Len(queue)
  BY <1>2 DEF LoadTypes
<1>5. read_num \in 0..NumRows /\ reapeat \in BOOLEAN /\ Repeats(NumRows) \in BOOLEAN
  BY <1>2 DEF LoadTypes, Repeats
<1>6. NumRows # 0 =>
        /\ Round(NumRows) + 1 \in 1..NumRows /\ case \in Cases
        /\ \A count \in Nat : GivenOut(count) =>
             /\ Round(NumRows) + 1 = (count % NumRows) + 1
             /\ Repeats(NumRows) <=> count + 1 > NumRows
             /\ case = CaseNo(count + 1)
  BY <1>2, <1>5, NextCase
<1>7. NumRows # 0 => held' = case
  BY <1>1
<1>8. held' \in Cases
  <2>1. CASE NumRows = 0
    <3>1. Case(<<>>, Repeats(NumRows)) \in {Case(<<>>, repeat) : repeat \in BOOLEAN}
      BY <1>5
    <3>2. {Case(<<>>, repeat) : repeat \in BOOLEAN} \subseteq Cases
      BY DEF Cases
    <3>3. held' = Case(<<>>, Repeats(NumRows))
      BY <1>1, <2>1
    <3> QED BY <3>1, <3>2, <3>3
  <2>2. CASE NumRows # 0
    BY <1>6, <1>7, <2>2
  <2> QED BY <2>1, <2>2
<1> HIDE DEF case
<1>9. LoadTypes'
  <2>1. read_num' \in 0..NumRows /\ reapeat' \in BOOLEAN
    BY <1>1, <1>2, <1>5, <1>6
  <2> QED BY <1>1, <1>2, <1>3, <1>8, <2>1 DEF LoadTypes
<1>10. ASSUME NumRows # 0 PROVE AskedInv' /\ WithinRun' /\ PreloadInv' /\ AsyncInv'
  <2>1. AskedInv /\ WithinRun /\ PreloadInv /\ AsyncInv
    BY <1>2, <1>10 DEF RoundsInv
  <2>2. AskedInv' /\ WithinRun'
    BY <1>1, <1>3, <2>1 DEF AskedInv, WithinRun
  <2>3. reader = "async"
    BY <1>1, <1>2 DEF LoadTypes
  <2>4. PreloadInv'
    BY <1>3, <2>3 DEF PreloadInv
  <2>5. ASSUME main = "requesting" PROVE Successive(n, q)'
    <3>1. (\A j \in 1..q : queue[j] = CaseNo(n + j)) /\ GivenOut(n + q)
      BY <1>1, <1>4, <2>1, <2>3, <2>5 DEF AsyncInv, Successive
    <3>2. /\ Round(NumRows) + 1 = ((n + q) % NumRows) + 1
          /\ Repeats(NumRows) <=> (n + q) + 1 > NumRows
          /\ case = CaseNo((n + q) + 1)
      <4>1. n + q \in Nat
        OBVIOUS
      <4> QED BY <1>6, <1>10, <3>1, <4>1
    <3>3. GivenOut((n + q) + 1)'
      <4>1. (n + q) + 1 # 0 /\ ((n + q) + 1) - 1 = n + q
        OBVIOUS
      <4> QED BY <1>1, <1>3, <1>10, <3>2, <4>1 DEF GivenOut
    <3>4. held' = CaseNo((n + q) + 1)
      BY <1>7, <1>10, <3>2
    <3> QED BY <1>1, <1>3, <3>1, <3>3, <3>4 DEF Successive
  <2>6. AsyncInv'
    BY <1>1, <1>4, <2>5 DEF AsyncInv
  <2> QED BY <2>2, <2>4, <2>6
<1> QED BY <1>3, <1>9, <1>10 DEF RoundsInv

LEMMA PushCaseKeeps ==
  ASSUME LoadInv, PushCase
  PROVE  LoadTypes' /\ RoundsInv'
<1>1. /\ producer = "pushing" /\ producer' = "reading" /\ Len(queue) < Capacity
      /\ queue' = Append(queue, held)
      /\ read_num' = read_num /\ reapeat' = reapeat /\ held' = held
      /\ UNCHANGED config /\ main' = main /\ requested' = requested
      /\ file' = file /\ caller' = caller
  BY DEF PushCase, csvVars
<1>2. LoadTypes /\ RoundsInv /\ NumRows \in Nat /\ Capacity \in Nat
  BY RowsCounted, LoadAssumption DEF LoadInv
<1>3. /\ NumRows' = NumRows /\ Cases' = Cases
      /\ reader' = reader /\ enable_repeat' = enable_repeat /\ req_times' = req_times
      /\ \A i : CaseNo(i)' = CaseNo(i)
  BY <1>1, <1>2, Still
<1>4. PICK n \in Nat, q \in Nat : n = Len(requested) /\ q = Len(queue)
  BY <1>2 DEF LoadTypes
<1>5. /\ queue' \in Seq(Cases) /\ Len(queue') = q + 1 /\ queue'[q + 1] = held
      /\ \A j \in 1..q : queue'[j] = queue[j]
  <2>1. queue \in Seq(Cases) /\ held \in Cases
    BY <1>2 DEF LoadTypes
  <2> QED BY <1>1, <1>4, <2>1
<1>6. LoadTypes'
  <2>1. Len(queue') <= Capacity
    BY <1>1, <1>2, <1>4, <1>5
  <2> QED BY <1>1, <1>2, <1>3, <1>5, <2>1 DEF LoadTypes
<1>7. ASSUME NumRows # 0 PROVE AskedInv' /\ WithinRun' /\ PreloadInv' /\ AsyncInv'
  <2>1. AskedInv /\ WithinRun /\ PreloadInv /\ AsyncInv
    BY <1>2, <1>7 DEF RoundsInv
  <2>2. AskedInv' /\ WithinRun'
    BY <1>1, <1>3, <2>1 DEF AskedInv, WithinRun
  <2>3. PreloadInv'
    BY <1>1, <1>3, <2>1 DEF PreloadInv, GivenOut
  <2>4. ASSUME main = "requesting", reader = "async" PROVE Successive(n, q + 1)'
    <3>1. /\ \A j \in 1..q : queue[j] = CaseNo(n + j)
          /\ GivenOut((n + q) + 1) /\ held = CaseNo((n + q) + 1)
      BY <1>1, <1>4, <2>1, <2>4 DEF AsyncInv, Successive
    <3>2. (n + q) + 1 = n + (q + 1)
      OBVIOUS
    <3>3. \A j \in 1..q + 1 : queue'[j] = CaseNo(n + j)
      <4> TAKE j \in 1..q + 1
      <4>1. j \in 1..q \/ j = q + 1
        OBVIOUS
      <4> QED BY <1>5, <3>1, <3>2, <4>1
    <3>4. GivenOut(n + (q + 1))'
      BY <1>1, <1>3, <3>1, <3>2 DEF GivenOut
    <3> QED BY <1>1, <1>3, <3>3, <3>4 DEF Successive
  <2>5. AsyncInv'
    BY <1>1, <1>3, <1>4, <1>5, <2>4 DEF AsyncInv
  <2> QED BY <2>2, <2>3, <2>5
<1> QED BY <1>3, <1>6, <1>7 DEF RoundsInv

\* The run comes to its end, and what comes after it leaves its requests alone.
LEMMA EndKeeps ==
  ASSUME LoadInv,
         PopNothing \/ EndRequests \/ StopReader \/ JoinProducer \/ PushClosed \/ WakeProducer
  PROVE  LoadTypes' /\ RoundsInv'
<1>1. /\ requested' = requested /\ read_num' = read_num /\ reapeat' = reapeat /\ held' = held
      /\ UNCHANGED config /\ queue' = queue /\ file' = file /\ caller' = caller
      /\ \/ producer' = producer \/ producer' = "gone"
         \/ producer # "gone" /\ producer' \in {"missed", "pushing"}
  BY DEF PopNothing, EndRequests, StopReader, JoinProducer, PushClosed, WakeProducer, csvVars, async
<1>2. LoadTypes /\ RoundsInv /\ NumRows \in Nat /\ ReaderInv
  BY RowsCounted DEF LoadInv
<1>3. /\ NumRows' = NumRows /\ Cases' = Cases
      /\ reader' = reader /\ enable_repeat' = enable_repeat /\ req_times' = req_times
      /\ \A i : CaseNo(i)' = CaseNo(i)
  BY <1>1, <1>2, Still
<1>4. ASSUME PopNothing PROVE NumRows = 0
  <2>1. main = "requesting" /\ reader = "preload" /\ rows = <<>>
    BY <1>4 DEF PopNothing, AsksOn
  <2>2. caller \in {"ended", "closing", "closed"}
    BY <1>2, <2>1 DEF LoadTypes
  <2> QED BY <1>2, <2>1, <2>2, RowsGiven
<1>5. /\ main \in {"requesting", "requested", "stopping"}
      /\ main' \in {"undefined", "requested", "stopping", "stopped"}
      /\ main' = "undefined" => NumRows = 0 /\ reader = "preload"
  BY <1>4 DEF PopNothing, EndRequests, StopReader, JoinProducer, PushClosed, WakeProducer, AsksOn
<1>6. LoadTypes'
  BY <1>1, <1>2, <1>3, <1>5 DEF LoadTypes
<1>7. ASSUME NumRows # 0 PROVE AskedInv' /\ WithinRun' /\ PreloadInv' /\ AsyncInv'
  <2>1. AskedInv /\ WithinRun
    BY <1>2, <1>7 DEF RoundsInv
  <2>2. Len(requested) \in Nat /\ req_times \in Nat /\ enable_repeat \in BOOLEAN
    BY <1>2 DEF LoadTypes
  <2>3. Len(requested) =
          IF enable_repeat \/ req_times \in 1..NumRows THEN req_times ELSE NumRows
    <3>1. CASE main = "requesting"
      <4>1. req_times # 0 /\ Len(requested) >= req_times
        BY <1>4, <1>7, <3>1
        DEF PopNothing, EndRequests, StopReader, JoinProducer, PushClosed, WakeProducer
      <4>2. Len(requested) <= req_times /\ (~enable_repeat => Len(requested) <= NumRows)
        BY <2>1, <3>1, <4>1 DEF WithinRun
      <4> QED BY <1>2, <2>2, <4>1, <4>2
    <3>2. CASE main # "requesting"
      BY <1>5, <2>1, <3>2 DEF AskedInv
    <3> QED BY <3>1, <3>2
  <2>4. AskedInv'
    BY <1>1, <1>3, <2>1, <2>3 DEF AskedInv
  <2>5. WithinRun' /\ PreloadInv' /\ AsyncInv'
    BY <1>5 DEF WithinRun, PreloadInv, AsyncInv
  <2> QED BY <2>4, <2>5
<1> QED BY <1>3, <1>6, <1>7 DEF RoundsInv

\* The other steps leave the run as it is.
LEMMA OthersKeep ==
  ASSUME LoadInv, DestroyReader \/ CsvWorker \/ Send \/ Clock \/ UNCHANGED loadVars,
         file' = file
  PROVE  LoadTypes' /\ RoundsInv' /\ requested' = requested
<1>1. UNCHANGED <<config, main, read_num, reapeat, async, requested>>
  BY DEF DestroyReader, CsvWorker, Send, Clock, loadVars
<1>2. caller' \in {"ended", "closing", "closed"} <=> caller \in {"ended", "closing", "closed"}
  BY DEF DestroyReader, CsvWorker, Send, Clock, loadVars, csvVars, Close, Terminate, JoinWorker,
         CallerMoves, Worker, ReadBlock, WorkerStops
<1> QED BY <1>1, <1>2, RunKept DEF LoadInv

\* A worker sends no more than has been requested (processRequestWorker).
LEMMA SendsKept ==
  ASSUME LoadInv, LoadNext \/ UNCHANGED loadVars, Len(requested') \in Nat,
         Len(requested') >= Len(requested)
  PROVE  SendsRequested'
<1>1. /\ SendsRequested /\ sends \in Seq(Nat) /\ Len(sends) \in Nat /\ Len(requested) \in Nat
  BY DEF LoadInv, IInv, BucketTypeOK, LoadTypes
<1>2. CASE UNCHANGED bucketVars
  BY <1>1, <1>2 DEF SendsRequested, bucketVars
<1>3. CASE Send
  <2>1. Len(sends) < Len(requested) /\ (ConsumeAtOnce \/ ConsumeLater) /\ requested' = requested
    BY <1>3 DEF Send
  <2>2. CASE ConsumeAtOnce
    <3>1. sends' = Append(sends, now) /\ ~asleep /\ asleep' = asleep
      BY <2>2 DEF ConsumeAtOnce
    <3>2. Len(sends') = Len(sends) + 1
      BY <1>1, <3>1
    <3> QED BY <1>1, <2>1, <3>1, <3>2 DEF SendsRequested
  <2>3. CASE ConsumeLater
    BY <1>1, <2>1, <2>3 DEF ConsumeLater, SendsRequested
  <2> QED BY <2>1, <2>2, <2>3
<1>4. CASE Clock
  <2>1. (WakeUp \/ Tick) /\ requested' = requested
    BY <1>4 DEF Clock
  <2>2. CASE WakeUp
    <3>1. sends' = Append(sends, now) /\ asleep /\ asleep' = FALSE
      BY <2>2 DEF WakeUp
    <3>2. Len(sends') = Len(sends) + 1
      BY <1>1, <3>1
    <3> QED BY <1>1, <2>1, <3>1, <3>2 DEF SendsRequested
  <2>3. CASE Tick
    BY <1>1, <2>1, <2>3 DEF Tick, SendsRequested
  <2> QED BY <2>1, <2>2, <2>3
<1>5. CASE UNCHANGED loadVars
  BY <1>2, <1>5 DEF loadVars
<1>6. CASE Main \/ Producer \/ WakeProducer \/ CsvWorker
  BY <1>2, <1>6 DEF Main, Load, PopPreload, PopNothing, PopAsync, EndRequests, StopReader,
                    JoinProducer, DestroyReader, Producer, ReadCase, PushCase, PushClosed, WakeProducer,
                    CsvWorker
<1> QED BY <1>3, <1>4, <1>5, <1>6 DEF LoadNext

LEMMA LoadKept == LoadInv /\ [LoadNext]_loadVars => LoadInv'
<1> SUFFICES ASSUME LoadInv, [LoadNext]_loadVars PROVE LoadInv'
  OBVIOUS
<1>1. [CsvNext]_csvVars /\ [BucketNext]_bucketVars
  BY UsesReader, UsesBucket DEF loadVars
<1>2. ReaderInv' /\ IInv'
  BY <1>1, ReaderKeeps, BucketKeeps DEF LoadInv
<1>3. file' = file
  BY <1>1 DEF CsvNext, Read, Close, Worker, NoMoreLines, SameBlock, ShiftBlock, FinishRead,
              ReadRow, ReadThrows, Terminate, JoinWorker, ReadBlock, WorkerStops, csvVars
<1>4. Len(requested) \in Nat
  BY DEF LoadInv, LoadTypes
<1>5. LoadTypes' /\ RoundsInv' /\ Len(requested') >= Len(requested)
  <2>1. CASE Load
    <3>1. requested' = requested
      BY <2>1 DEF Load
    <3> QED BY <1>3, <1>4, <2>1, <3>1, LoadKeeps
  <2>2. CASE PopPreload
    BY <2>2, PopPreloadKeeps
  <2>3. CASE PopAsync
    BY <2>3, PopAsyncKeeps
  <2>4. CASE ReadCase
    <3>1. requested' = requested
      BY <2>4 DEF ReadCase
    <3> QED BY <1>4, <2>4, <3>1, ReadCaseKeeps
  <2>5. CASE PushCase
    <3>1. requested' = requested
      BY <2>5 DEF PushCase
    <3> QED BY <1>4, <2>5, <3>1, PushCaseKeeps
  <2>6. CASE PopNothing \/ EndRequests \/ StopReader \/ JoinProducer \/ PushClosed \/ WakeProducer
    <3>1. requested' = requested
      BY <2>6 DEF PopNothing, EndRequests, StopReader, JoinProducer, PushClosed, WakeProducer
    <3> QED BY <1>4, <2>6, <3>1, EndKeeps
  <2>7. CASE DestroyReader \/ CsvWorker \/ Send \/ Clock \/ UNCHANGED loadVars
    <3>1. LoadTypes' /\ RoundsInv' /\ requested' = requested
      BY <1>3, <2>7, OthersKeep
    <3> QED BY <1>4, <3>1
  <2> QED BY <2>1, <2>2, <2>3, <2>4, <2>5, <2>6, <2>7 DEF LoadNext, Main, Producer
<1>6. Len(requested') \in Nat
  BY <1>5 DEF LoadTypes
<1>7. SendsRequested'
  BY <1>5, <1>6, SendsKept
<1> QED BY <1>2, <1>5, <1>7 DEF LoadInv

LEMMA LoadInvariant == LoadSpec => []LoadInv
BY LoadStarts, LoadKept, PTL DEF LoadSpec

-----------------------------------------------------------------------------
\* The types of the load generator, for every file and every setup: no queue is
\* overfull, and no worker sends what nobody has requested (RunBenchmark).
THEOREM LoadTypeCorrect == LoadSpec => []LoadTypeOK
<1>1. LoadInv => NumRows <= Len(file) /\ NumRows \in Nat
  BY RowsCounted DEF LoadInv
<1>2. LoadInv /\ CsvTypeOK => LoadTypeOK
  <2> SUFFICES ASSUME LoadInv, CsvTypeOK PROVE LoadTypeOK
    OBVIOUS
  <2>1. LoadTypes /\ SendsRequested /\ BucketTypeOK /\ Len(file) \in Nat
    BY FileType DEF LoadInv, IInv, ReaderInv
  <2>2. read_num \in 0..Len(file)
    BY <1>1, <2>1 DEF LoadTypes
  <2> QED BY <2>1, <2>2 DEF LoadTypes, LoadTypeOK, SendsRequested
<1> QED BY <1>2, LoadInvariant, ImplementsReader, ReaderTypeCorrect, PTL

\* The requests are the rows of the file, round after round and marked from the
\* second round on, and a run ends after as many as it is to make: for every
\* file, reader and number of requests (Pop, RunBenchmark).
THEOREM InRounds == LoadSpec => []AskedInRounds
<1>1. LoadInv => AskedInRounds
  BY DEF LoadInv, RoundsInv, AskedInv, AskedInRounds, CaseNo
<1> QED BY <1>1, LoadInvariant, PTL
=============================================================================
