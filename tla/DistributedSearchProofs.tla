----------------------- MODULE DistributedSearchProofs -----------------------
(***************************************************************************)
(* Proofs about the search over two nodes: what its loops compute for lists *)
(* of any length, and that for every index and every request whose topn    *)
(* fits its answer is the one of a single node holding every row.          *)
(*                                                                         *)
(* Facts about loops are proved by induction in the form of a least        *)
(* counterexample: a set of numbers that holds 0 and the successor of each *)
(* of its elements holds every number.                                     *)
(***************************************************************************)
EXTENDS DistributedSearch, FiniteSetTheorems, WellFoundedInduction, TLAPS

-----------------------------------------------------------------------------
(* Induction and recursion *)

LEMMA LessIsWellFounded == IsWellFoundedOn({p \in Nat \X Nat : p[1] < p[2]}, Nat)
  BY NatLessThanWellFounded DEF OpToRel

LEMMA LeastNumber ==
  ASSUME NEW T \in SUBSET Nat, T # {}
  PROVE  \E n \in T : \A m \in T : n <= m
<1> DEFINE R == {p \in Nat \X Nat : p[1] < p[2]}
<1>1. PICK x \in T : \A y \in T : ~ (<<y, x>> \in R)
  BY LessIsWellFounded, WFMin
<1>2. \A y \in T : ~(y < x)
  BY <1>1
<1> QED BY <1>2

LEMMA Induction ==
  ASSUME NEW T, 0 \in T, \A n \in Nat : n \in T => n + 1 \in T
  PROVE  Nat \subseteq T
<1> SUFFICES ASSUME NEW k \in Nat, k \notin T PROVE FALSE
  OBVIOUS
<1> DEFINE U == {n \in Nat : n \notin T}
<1>1. PICK n \in U : \A m \in U : n <= m
  <2>1. U \in SUBSET Nat /\ k \in U
    OBVIOUS
  <2> HIDE DEF U
  <2> QED BY <2>1, LeastNumber
<1>2. n # 0 /\ n - 1 \in Nat
  BY <1>1
<1>3. n - 1 \in T
  BY <1>1, <1>2
<1> QED BY <1>1, <1>2, <1>3

\* The values of a loop of n turns from t whose i-th turn is g[i].
Turns(f, n, t, g) == f[0] = t /\ \A i \in 1..n : f[i] = g[i][f[i - 1]]

LEMMA Recursion ==
  ASSUME NEW n \in Nat, NEW T, NEW t \in T, NEW g \in [1..n -> [T -> T]]
  PROVE  \E f \in [0..n -> T] : Turns(f, n, t, g)
<1> DEFINE Good(k, f) == f[0] = t /\ \A i \in 1..k : f[i] = g[i][f[i - 1]]
           U == {k \in Nat : k <= n => \E f \in [0..k -> T] : Good(k, f)}
<1>1. 0 \in U
  <2> [i \in 0..0 |-> t] \in [0..0 -> T] /\ Good(0, [i \in 0..0 |-> t])
    OBVIOUS
  <2> QED OBVIOUS
<1>2. ASSUME NEW k \in Nat, k \in U PROVE k + 1 \in U
  <2> SUFFICES ASSUME k + 1 <= n PROVE \E f \in [0..(k+1) -> T] : Good(k + 1, f)
    OBVIOUS
  <2>1. PICK f \in [0..k -> T] : Good(k, f)
    BY <1>2
  <2> DEFINE h == [i \in 0..(k+1) |-> IF i = k + 1 THEN g[k + 1][f[k]] ELSE f[i]]
  <2>2. f[k] \in T /\ k + 1 \in 1..n
    BY <2>1
  <2>3. g[k + 1][f[k]] \in T
    BY <2>2
  <2>4. h \in [0..(k+1) -> T]
    BY <2>1, <2>3
  <2>5. h[0] = t
    BY <2>1
  <2>6. ASSUME NEW i \in 1..(k+1) PROVE h[i] = g[i][h[i - 1]]
    <3>1. CASE i = k + 1
      BY <3>1, <2>1
    <3>2. CASE i # k + 1
      <4> i \in 1..k /\ i \in 0..(k+1) /\ i - 1 \in 0..(k+1) /\ i - 1 # k + 1
        BY <3>2
      <4> h[i] = f[i] /\ h[i - 1] = f[i - 1]
        BY <3>2
      <4> QED BY <2>1
    <3> QED BY <3>1, <3>2
  <2> HIDE DEF h
  <2> QED BY <2>4, <2>5, <2>6
<1> HIDE DEF U
<1>3. Nat \subseteq U
  BY <1>1, <1>2, Induction
<1> QED BY <1>3 DEF U, Turns

LEMMA MaxOfSet ==
  ASSUME NEW n \in Nat, NEW s \in SUBSET (1..n), s # {}
  PROVE  Max(s) \in s /\ \A i \in s : i <= Max(s)
<1> DEFINE D == {n - i : i \in s}
<1>1. D \in SUBSET Nat /\ D # {}
  <2>1. \A i \in s : n - i \in Nat
    OBVIOUS
  <2>2. PICK i \in s : TRUE
    OBVIOUS
  <2>3. n - i \in D
    BY <2>2
  <2> QED BY <2>1, <2>3
<1> HIDE DEF D
<1>2. PICK d \in D : \A e \in D : d <= e
  BY <1>1, LeastNumber
<1>3. PICK m \in s : d = n - m
  BY DEF D
<1>4. \A i \in s : m >= i
  <2> TAKE i \in s
  <2> n - i \in D BY DEF D
  <2> n - m <= n - i BY <1>2, <1>3
  <2> QED OBVIOUS
<1> QED BY <1>4 DEF Max

LEMMA MaxOfPrefix ==
  ASSUME NEW i \in Nat \ {0}
  PROVE  1..i # {} /\ Max(1..i) = i /\ (1..i) \ {i} = 1..(i - 1)
<1>1. 1..i \in SUBSET (1..i) /\ i \in 1..i /\ 1..i # {}
  OBVIOUS
<1>2. Max(1..i) \in 1..i /\ \A j \in 1..i : j <= Max(1..i)
  BY <1>1, MaxOfSet
<1> QED BY <1>1, <1>2

\* The function over the subsets of the domain that FoldLeft is defined by, for
\* a loop of n turns from t whose i-th turn is g[i].
Folds(f, n, t, g) ==
  \A s \in SUBSET (1..n) : f[s] = IF s = {} THEN t ELSE g[Max(s)][f[s \ {Max(s)}]]

LEMMA Folding ==
  ASSUME NEW n \in Nat, NEW T, NEW t \in T, NEW g \in [1..n -> [T -> T]]
  PROVE  \E f \in [SUBSET (1..n) -> T] : Folds(f, n, t, g)
<1> DEFINE Good(k, f) ==
             \A s \in SUBSET (1..k) : f[s] = IF s = {} THEN t ELSE g[Max(s)][f[s \ {Max(s)}]]
           Exists(k) == \E f \in [SUBSET (1..k) -> T] : Good(k, f)
           U == {k \in Nat : k <= n => Exists(k)}
<1>1. 0 \in U
  <2> [s \in SUBSET (1..0) |-> t] \in [SUBSET (1..0) -> T] /\ Good(0, [s \in SUBSET (1..0) |-> t])
    OBVIOUS
  <2> QED OBVIOUS
<1>2. ASSUME NEW k \in Nat, k \in U PROVE k + 1 \in U
  <2> SUFFICES ASSUME k + 1 <= n PROVE Exists(k + 1)
    <3> HIDE DEF Exists
    <3> QED OBVIOUS
  <2>1. Exists(k)
    <3> HIDE DEF Exists
    <3> QED BY <1>2
  <2>2. PICK f \in [SUBSET (1..k) -> T] : Good(k, f)
    BY <2>1
  <2> DEFINE h == [s \in SUBSET (1..(k+1)) |->
                     IF k + 1 \in s THEN g[k + 1][f[s \ {k + 1}]] ELSE f[s]]
  <2>3. \A s \in SUBSET (1..(k+1)) : s \ {k + 1} \in SUBSET (1..k)
    OBVIOUS
  <2>4. \A s \in SUBSET (1..(k+1)) : k + 1 \notin s => s \in SUBSET (1..k)
    OBVIOUS
  <2>5. h \in [SUBSET (1..(k+1)) -> T]
    BY <2>2, <2>3, <2>4
  <2>6. ASSUME NEW s \in SUBSET (1..(k+1))
        PROVE  h[s] = IF s = {} THEN t ELSE g[Max(s)][h[s \ {Max(s)}]]
    <3>1. CASE k + 1 \in s
      <4>1. Max(s) = k + 1
        <5> k + 1 \in Nat /\ s # {}
          BY <3>1
        <5> Max(s) \in s /\ k + 1 <= Max(s)
          BY <3>1, MaxOfSet
        <5> Max(s) \in 1..(k+1)
          OBVIOUS
        <5> QED OBVIOUS
      <4>2. h[s \ {k + 1}] = f[s \ {k + 1}]
        OBVIOUS
      <4> QED BY <4>1, <4>2, <3>1
    <3>2. CASE k + 1 \notin s
      <4>1. s \in SUBSET (1..k) /\ h[s] = f[s] /\ h[s \ {Max(s)}] = f[s \ {Max(s)}]
        BY <3>2, <2>4
      <4> HIDE DEF h
      <4> QED BY <4>1, <2>2
    <3> QED BY <3>1, <3>2
  <2> HIDE DEF h
  <2> QED BY <2>5, <2>6
<1> HIDE DEF U
<1>3. Nat \subseteq U
  BY <1>1, <1>2, Induction
<1>4. Exists(n)
  <2> HIDE DEF Exists
  <2> QED BY <1>3 DEF U
<1> QED BY <1>4 DEF Folds

-----------------------------------------------------------------------------
(* The ranking and de-duplication of results *)

\* The comparator of searchTopNByKeyword and mergeResult is irreflexive and
\* transitive, without which std::sort is undefined, and orders any two results
\* of different ads, so that sorting leaves no choice.
THEOREM StrictOrder ==
  ASSUME NEW a \in Results, NEW b \in Results, NEW c \in Results
  PROVE  /\ ~OutRanks(a, a)
         /\ OutRanks(a, b) /\ OutRanks(b, c) => OutRanks(a, c)
         /\ a.adgroup_id # b.adgroup_id => OutRanks(a, b) \/ OutRanks(b, a)
  BY DEF OutRanks, Results

\* Results as a search makes them: score = ctr * price.
ScoredResults == {r \in Results : r.score = r.ctr * r.price}

\* Neither of two results of one ad replaces the other.
Alike(p, o) ==
  p.adgroup_id = o.adgroup_id /\ p.score = o.score /\ p.price = o.price

\* Of p and o, p is ranked at least as high.
NoWorse(p, o) == ~OutRanks(o, p)

LEMMA Ranks ==
  ASSUME NEW a \in Results, NEW b \in Results, NEW c \in Results
  PROVE  /\ Replaces(a, b) => OutRanks(a, b)
         /\ OutRanks(a, b) => NoWorse(a, b)
         /\ a.adgroup_id # b.adgroup_id => (OutRanks(a, b) <=> NoWorse(a, b))
         /\ a.adgroup_id = b.adgroup_id => (OutRanks(a, b) <=> Replaces(a, b))
         /\ NoWorse(a, b) /\ OutRanks(b, c) => OutRanks(a, c)
         /\ OutRanks(a, b) /\ NoWorse(b, c) => OutRanks(a, c)
         /\ NoWorse(a, b) /\ NoWorse(b, c) => NoWorse(a, c)
         /\ NoWorse(a, b) /\ NoWorse(b, a) <=> Alike(a, b)
         /\ NoWorse(a, a)
  BY DEF Replaces, OutRanks, NoWorse, Alike, Results

\* A list of distinct ads.
DistinctAds(list) ==
  \A i, j \in DOMAIN list : list[i].adgroup_id = list[j].adgroup_id => i = j

\* The list has the best offer of each ad that is offered.
BestList(list, offers) ==
  /\ list \in Seq(ScoredResults)
  /\ DistinctAds(list)
  /\ \A i \in DOMAIN list : list[i] \in offers
  /\ \A o \in offers : \E i \in DOMAIN list :
        list[i].adgroup_id = o.adgroup_id /\ NoWorse(list[i], o)

InOrder(list) == \A i, j \in DOMAIN list : i < j => OutRanks(list[i], list[j])

\* De-duplication keeps the best offer of each ad.
LEMMA Inserted ==
  ASSUME NEW list, NEW offers \in SUBSET ScoredResults, BestList(list, offers),
         NEW data \in ScoredResults
  PROVE  BestList(InsertResult(list, data), offers \cup {data})
<1> DEFINE new == InsertResult(list, data)
           better(k) == list[k].adgroup_id = data.adgroup_id /\ Replaces(data, list[k])
<1>0. /\ list \in Seq(ScoredResults) /\ data \in Results
      /\ \A k \in DOMAIN list : list[k] \in ScoredResults /\ list[k] \in Results
  BY DEF BestList, ScoredResults
<1>1. CASE \E k \in DOMAIN list : list[k].adgroup_id = data.adgroup_id
  <2>1. new = [k \in DOMAIN list |-> IF better(k) THEN data ELSE list[k]]
    BY <1>1 DEF InsertResult
  <2>2. DOMAIN new = DOMAIN list /\ \A k \in DOMAIN list : new[k].adgroup_id = list[k].adgroup_id
    BY <2>1
  <2>3. new \in Seq(ScoredResults)
    BY <1>0, <2>1
  <2>4. DistinctAds(new)
    BY <2>2 DEF DistinctAds, BestList
  <2>5. \A k \in DOMAIN new : new[k] \in offers \cup {data} /\ NoWorse(new[k], list[k])
    BY <1>0, <2>1, Ranks DEF BestList
  <2>6. \A o \in offers : \E k \in DOMAIN new :
          new[k].adgroup_id = o.adgroup_id /\ NoWorse(new[k], o)
    <3> TAKE o \in offers
    <3>1. PICK k \in DOMAIN list : list[k].adgroup_id = o.adgroup_id /\ NoWorse(list[k], o)
      BY DEF BestList
    <3>2. new[k] \in Results /\ list[k] \in Results /\ o \in Results
      BY <1>0, <2>2, <2>3 DEF ScoredResults
    <3> QED BY <3>1, <3>2, <2>2, <2>5, Ranks
  <2>7. \E k \in DOMAIN new : new[k].adgroup_id = data.adgroup_id /\ NoWorse(new[k], data)
    <3>1. PICK k \in DOMAIN list : list[k].adgroup_id = data.adgroup_id
      BY <1>1
    <3>2. new[k] = IF Replaces(data, list[k]) THEN data ELSE list[k]
      BY <2>1, <3>1
    <3> QED BY <1>0, <2>2, <3>1, <3>2, Ranks DEF NoWorse
  <2> HIDE DEF new
  <2>8. \A o \in offers \cup {data} : \E k \in DOMAIN new :
          new[k].adgroup_id = o.adgroup_id /\ NoWorse(new[k], o)
    BY <2>6, <2>7
  <2>9. BestList(new, offers \cup {data})
    BY <2>3, <2>4, <2>5, <2>8 DEF BestList
  <2> QED BY <2>9 DEF new
<1>2. CASE ~ \E k \in DOMAIN list : list[k].adgroup_id = data.adgroup_id
  <2>1. new = Append(list, data)
    BY <1>2 DEF InsertResult
  <2>2. /\ DOMAIN new = 1..Len(list) + 1 /\ DOMAIN list = 1..Len(list) /\ Len(list) \in Nat
        /\ \A k \in DOMAIN list : k \in DOMAIN new /\ new[k] = list[k]
        /\ new[Len(list) + 1] = data
    BY <1>0, <2>1
  <2>3. new \in Seq(ScoredResults)
    BY <1>0, <2>1
  <2>4. DistinctAds(new)
    BY <2>2, <1>2 DEF DistinctAds, BestList
  <2> HIDE DEF new
  <2>5. \A k \in DOMAIN new : new[k] \in offers \cup {data}
    BY <2>2 DEF BestList
  <2>6. \A o \in offers : \E k \in DOMAIN new :
          new[k].adgroup_id = o.adgroup_id /\ NoWorse(new[k], o)
    BY <2>2 DEF BestList
  <2>7. new[Len(list) + 1].adgroup_id = data.adgroup_id /\ NoWorse(new[Len(list) + 1], data)
    BY <2>2, <1>0, Ranks
  <2>8. \A o \in offers \cup {data} : \E k \in DOMAIN new :
          new[k].adgroup_id = o.adgroup_id /\ NoWorse(new[k], o)
    BY <2>2, <2>6, <2>7
  <2>9. BestList(new, offers \cup {data})
    BY <2>3, <2>4, <2>5, <2>8 DEF BestList
  <2> QED BY <2>9 DEF new
<1> QED BY <1>1, <1>2

-----------------------------------------------------------------------------
(* The loops of searchTopNByKeyword *)

Lists == {list \in Seq(ScoredResults) : DistinctAds(list)}

\* The offers among rows that match the hour.
Matching(rows, hour) == {Scored(row) : row \in {r \in rows : hour \in r.timings}}

LEMMA ScoredType ==
  ASSUME NEW row \in Rows
  PROVE  Scored(row) \in ScoredResults
<1>1. row.ctr \in Nat \ {0} /\ row.price \in Nat /\ row.adgroup_id \in Nat
  BY DEF Rows
<1>2. row.ctr * row.price \in Nat
  BY <1>1
<1> QED BY <1>1, <1>2 DEF Scored, ScoredResults, Results

LEMMA BestOfItself ==
  ASSUME NEW list \in Lists
  PROVE  ToSet(list) \in SUBSET ScoredResults /\ BestList(list, ToSet(list))
<1>1. list \in Seq(ScoredResults) /\ DistinctAds(list)
  BY DEF Lists
<1>2. \A i \in DOMAIN list : list[i] \in ScoredResults /\ list[i] \in Results
  BY <1>1 DEF ScoredResults
<1> QED BY <1>1, <1>2, Ranks DEF BestList, ToSet

LEMMA RowAdded ==
  ASSUME NEW list \in Lists, NEW row \in Rows, NEW hour
  PROVE  AddRow(list, row, hour) \in Lists
<1>1. BestList(InsertResult(list, Scored(row)), ToSet(list) \cup {Scored(row)})
  BY ScoredType, BestOfItself, Inserted
<1> QED BY <1>1 DEF AddRow, BestList, Lists

\* A keyword's rows that match the hour are all taken into account.
LEMMA RowsAdded ==
  ASSUME NEW list, NEW offers \in SUBSET ScoredResults, BestList(list, offers),
         NEW rows \in Seq(Rows), NEW hour
  PROVE  BestList(AddRows(list, rows, hour), offers \cup Matching(ToSet(rows), hour))
<1> DEFINE n == Len(rows)
           g == [i \in 1..n |-> [l \in Lists |-> AddRow(l, rows[i], hour)]]
           turn(f, s) == IF s = {} THEN list ELSE AddRow(f[s \ {Max(s)}], rows[Max(s)], hour)
           iter == CHOOSE f : f = [s \in SUBSET (1..n) |-> turn(f, s)]
           matching(i) ==
             {Scored(row) : row \in {r \in {rows[j] : j \in 1..i} : hour \in r.timings}}
           after(i) == BestList(iter[1..i], offers \cup matching(i))
           U == {i \in Nat : i <= n => after(i)}
<1>1. n \in Nat /\ DOMAIN rows = 1..n /\ \A i \in 1..n : rows[i] \in Rows
  OBVIOUS
<1>2. AddRows(list, rows, hour) = iter[1..n]
  BY <1>1 DEF AddRows, FoldLeft, MapThenFoldSet
<1>3. list \in Lists
  BY DEF BestList, Lists
<1>4. g \in [1..n -> [Lists -> Lists]]
  BY <1>1, RowAdded
<1>5. \A s \in SUBSET (1..n) : iter[s] = turn(iter, s)
  <2>1. PICK f \in [SUBSET (1..n) -> Lists] : Folds(f, n, list, g)
    <3> HIDE DEF g, n
    <3> QED BY <1>1, <1>3, <1>4, Folding
  <2>2. ASSUME NEW s \in SUBSET (1..n) PROVE f[s] = turn(f, s)
    <3>1. CASE s # {}
      <4>1. Max(s) \in 1..n
        BY <1>1, <3>1, MaxOfSet
      <4>2. f[s \ {Max(s)}] \in Lists
        BY <2>1
      <4> QED BY <2>1, <3>1, <4>1, <4>2 DEF Folds
    <3>2. CASE s = {}
      BY <2>1, <3>2 DEF Folds
    <3> QED BY <3>1, <3>2
  <2>3. f = [s \in SUBSET (1..n) |-> turn(f, s)]
    BY <2>1, <2>2
  <2>4. iter = [s \in SUBSET (1..n) |-> turn(iter, s)]
    BY <2>3
  <2> HIDE DEF iter
  <2> QED BY <2>4
<1> HIDE DEF iter
<1>6. 0 \in U
  <2>1. matching(0) = {} /\ 1..0 = {}
    OBVIOUS
  <2>2. iter[1..0] = list
    BY <1>5, <2>1
  <2> QED BY <2>1, <2>2
<1>7. ASSUME NEW i \in Nat, i \in U PROVE i + 1 \in U
  <2> SUFFICES ASSUME i + 1 <= n PROVE after(i + 1)
    OBVIOUS
  <2>1. after(i)
    BY <1>7
  <2>2. iter[1..(i + 1)] = AddRow(iter[1..i], rows[i + 1], hour)
    <3>1. 1..(i+1) # {} /\ Max(1..(i+1)) = i + 1 /\ (1..(i+1)) \ {i + 1} = 1..i
      <4> i + 1 \in Nat \ {0} /\ i = (i + 1) - 1
        OBVIOUS
      <4> QED BY MaxOfPrefix
    <3>2. 1..(i+1) \in SUBSET (1..n)
      BY <1>1
    <3> QED BY <1>5, <3>1, <3>2
  <2>3. matching(i + 1) = matching(i) \cup
          (IF hour \in rows[i + 1].timings THEN {Scored(rows[i + 1])} ELSE {})
    <3>1. {rows[j] : j \in 1..(i+1)} = {rows[j] : j \in 1..i} \cup {rows[i + 1]}
      BY <1>1
    <3> QED BY <3>1
  <2>4. matching(i) \in SUBSET ScoredResults /\ rows[i + 1] \in Rows
    BY <1>1, ScoredType
  <2> HIDE DEF matching
  <2>5. offers \cup matching(i) \in SUBSET ScoredResults
    BY <2>4
  <2>6. CASE hour \in rows[i + 1].timings
    <3>1. BestList(InsertResult(iter[1..i], Scored(rows[i + 1])),
                   (offers \cup matching(i)) \cup {Scored(rows[i + 1])})
      BY <2>1, <2>4, <2>5, ScoredType, Inserted
    <3>2. (offers \cup matching(i)) \cup {Scored(rows[i + 1])} = offers \cup matching(i + 1)
      BY <2>3, <2>6
    <3>3. iter[1..(i + 1)] = InsertResult(iter[1..i], Scored(rows[i + 1]))
      BY <2>2, <2>6 DEF AddRow
    <3> QED BY <3>1, <3>2, <3>3
  <2>7. CASE hour \notin rows[i + 1].timings
    BY <2>1, <2>2, <2>3, <2>7 DEF AddRow
  <2> QED BY <2>6, <2>7
<1>8. after(n)
  <2> HIDE DEF after
  <2>1. Nat \subseteq U
    <3> HIDE DEF U
    <3> QED BY <1>6, <1>7, Induction
  <2> QED BY <1>1, <2>1
<1>9. ToSet(rows) = {rows[j] : j \in 1..n}
  BY <1>1 DEF ToSet
<1> QED BY <1>2, <1>8, <1>9 DEF Matching

Requests == [keywords : Seq(Nat), hour : Nat, topn : Nat]

IsIndex(idx) == \A k \in DOMAIN idx : idx[k] \in Seq(Rows)

\* The offers under keywords ks that match the hour.
OffersUnder(ks, node, idx, hour) ==
  Matching(UNION {ToSet(idx[k]) : k \in {k \in ks : Recalls(node, idx, k)}}, hour)

LEMMA OffersType ==
  ASSUME NEW ks, NEW node, NEW idx, IsIndex(idx), NEW hour
  PROVE  OffersUnder(ks, node, idx, hour) \in SUBSET ScoredResults
<1>1. \A k \in ks : Recalls(node, idx, k) => ToSet(idx[k]) \subseteq Rows
  BY DEF Recalls, IsIndex, ToSet
<1> QED BY <1>1, ScoredType DEF OffersUnder, Matching

LEMMA OneMoreKeyword ==
  ASSUME NEW ks, NEW k, NEW node, NEW idx, NEW hour
  PROVE  OffersUnder(ks \cup {k}, node, idx, hour) =
           OffersUnder(ks, node, idx, hour) \cup
             (IF Recalls(node, idx, k) THEN Matching(ToSet(idx[k]), hour) ELSE {})
<1> DEFINE Under(S) == UNION {ToSet(idx[x]) : x \in {x \in S : Recalls(node, idx, x)}}
           Match(S) == {r \in S : hour \in r.timings}
<1>1. CASE Recalls(node, idx, k)
  <2>1. Under(ks \cup {k}) = Under(ks) \cup ToSet(idx[k])
    BY <1>1
  <2>2. Match(Under(ks \cup {k})) = Match(Under(ks)) \cup Match(ToSet(idx[k]))
    BY <2>1
  <2> HIDE DEF Under
  <2>3. {Scored(row) : row \in Match(Under(ks \cup {k}))} =
          {Scored(row) : row \in Match(Under(ks))} \cup
          {Scored(row) : row \in Match(ToSet(idx[k]))}
    <3> HIDE DEF Match
    <3> QED BY <2>2
  <2> QED BY <1>1, <2>3 DEF OffersUnder, Under, Matching
<1>2. CASE ~Recalls(node, idx, k)
  <2>1. {x \in ks \cup {k} : Recalls(node, idx, x)} = {x \in ks : Recalls(node, idx, x)}
    BY <1>2
  <2> QED BY <1>2, <2>1 DEF OffersUnder
<1> QED BY <1>1, <1>2

LEMMA KeywordAdded ==
  ASSUME NEW list \in Lists, NEW k, NEW node, NEW idx, IsIndex(idx), NEW hour
  PROVE  AddKeyword(list, k, node, idx, hour) \in Lists
<1>1. CASE Recalls(node, idx, k)
  <2>1. idx[k] \in Seq(Rows)
    BY <1>1 DEF Recalls, IsIndex
  <2>2. BestList(AddRows(list, idx[k], hour),
                ToSet(list) \cup Matching(ToSet(idx[k]), hour))
    BY <2>1, BestOfItself, RowsAdded
  <2> QED BY <1>1, <2>2 DEF AddKeyword, BestList, Lists
<1>2. CASE ~Recalls(node, idx, k)
  BY <1>2 DEF AddKeyword
<1> QED BY <1>1, <1>2

\* A node takes every offer of its keywords into account.
LEMMA KeywordsAdded ==
  ASSUME NEW node, NEW idx, IsIndex(idx), NEW rq \in Requests
  PROVE  BestList(Recalled(node, idx, rq),
                  OffersUnder(ToSet(rq.keywords), node, idx, rq.hour))
<1> DEFINE keys == rq.keywords
           hour == rq.hour
           n == Len(keys)
           g == [i \in 1..n |-> [l \in Lists |-> AddKeyword(l, keys[i], node, idx, hour)]]
           turn(f, s) == IF s = {} THEN <<>>
                         ELSE AddKeyword(f[s \ {Max(s)}], keys[Max(s)], node, idx, hour)
           iter == CHOOSE f : f = [s \in SUBSET (1..n) |-> turn(f, s)]
           first(i) == {keys[j] : j \in 1..i}
           after(i) == BestList(iter[1..i], OffersUnder(first(i), node, idx, hour))
           U == {i \in Nat : i <= n => after(i)}
<1>1. n \in Nat /\ DOMAIN keys = 1..n /\ \A i \in 1..n : keys[i] \in Nat
  BY DEF Requests
<1>2. Recalled(node, idx, rq) = iter[1..n]
  BY <1>1 DEF Recalled, FoldLeft, MapThenFoldSet
<1>3. <<>> \in Lists /\ BestList(<<>>, {})
  BY DEF BestList, Lists, DistinctAds
<1>4. g \in [1..n -> [Lists -> Lists]]
  BY <1>1, KeywordAdded
<1>5. \A s \in SUBSET (1..n) : iter[s] = turn(iter, s)
  <2>1. PICK f \in [SUBSET (1..n) -> Lists] : Folds(f, n, <<>>, g)
    <3> HIDE DEF g, n
    <3> QED BY <1>1, <1>3, <1>4, Folding
  <2>2. ASSUME NEW s \in SUBSET (1..n) PROVE f[s] = turn(f, s)
    <3>1. CASE s # {}
      <4>1. Max(s) \in 1..n
        BY <1>1, <3>1, MaxOfSet
      <4>2. f[s \ {Max(s)}] \in Lists
        BY <2>1
      <4> QED BY <2>1, <3>1, <4>1, <4>2 DEF Folds
    <3>2. CASE s = {}
      BY <2>1, <3>2 DEF Folds
    <3> QED BY <3>1, <3>2
  <2>3. f = [s \in SUBSET (1..n) |-> turn(f, s)]
    BY <2>1, <2>2
  <2>4. iter = [s \in SUBSET (1..n) |-> turn(iter, s)]
    BY <2>3
  <2> HIDE DEF iter
  <2> QED BY <2>4
<1> HIDE DEF iter
<1>6. 0 \in U
  <2>1. first(0) = {} /\ 1..0 = {}
    OBVIOUS
  <2>2. iter[1..0] = <<>>
    BY <1>5, <2>1
  <2>3. OffersUnder({}, node, idx, hour) = {}
    BY DEF OffersUnder, Matching
  <2> QED BY <1>3, <2>1, <2>2, <2>3
<1>7. ASSUME NEW i \in Nat, i \in U PROVE i + 1 \in U
  <2> SUFFICES ASSUME i + 1 <= n PROVE after(i + 1)
    OBVIOUS
  <2> DEFINE k == keys[i + 1]
             more == Matching(ToSet(idx[k]), hour)
             old == OffersUnder(first(i), node, idx, hour)
  <2>1. BestList(iter[1..i], old)
    BY <1>7
  <2>2. iter[1..(i + 1)] = AddKeyword(iter[1..i], k, node, idx, hour)
    <3>1. 1..(i+1) # {} /\ Max(1..(i+1)) = i + 1 /\ (1..(i+1)) \ {i + 1} = 1..i
      <4> i + 1 \in Nat \ {0} /\ i = (i + 1) - 1
        OBVIOUS
      <4> QED BY MaxOfPrefix
    <3>2. 1..(i+1) \in SUBSET (1..n)
      BY <1>1
    <3> QED BY <1>5, <3>1, <3>2
  <2>3. first(i + 1) = first(i) \cup {k}
    BY <1>1
  <2>4. OffersUnder(first(i + 1), node, idx, hour) =
          old \cup (IF Recalls(node, idx, k) THEN more ELSE {})
    <3>1. OffersUnder(first(i) \cup {k}, node, idx, hour) =
            OffersUnder(first(i), node, idx, hour) \cup
              (IF Recalls(node, idx, k) THEN Matching(ToSet(idx[k]), hour) ELSE {})
      <4> HIDE DEF first, k, hour
      <4> QED BY OneMoreKeyword
    <3> HIDE DEF first, k, hour
    <3> QED BY <2>3, <3>1
  <2>5. old \in SUBSET ScoredResults
    BY OffersType
  <2> HIDE DEF more, old, k
  <2>6. CASE Recalls(node, idx, k)
    <3>1. idx[k] \in Seq(Rows)
      BY <2>6 DEF Recalls, IsIndex
    <3>2. BestList(AddRows(iter[1..i], idx[k], hour), old \cup more)
      BY <2>1, <2>5, <3>1, RowsAdded DEF more
    <3> QED BY <2>2, <2>4, <2>6, <3>2 DEF AddKeyword
  <2>7. CASE ~Recalls(node, idx, k)
    BY <2>1, <2>2, <2>4, <2>7 DEF AddKeyword
  <2> QED BY <2>6, <2>7
<1>8. after(n)
  <2> HIDE DEF after
  <2>1. Nat \subseteq U
    <3> HIDE DEF U
    <3> QED BY <1>6, <1>7, Induction
  <2> QED BY <1>1, <2>1
<1>9. ToSet(keys) = first(n)
  BY <1>1 DEF ToSet
<1> QED BY <1>2, <1>8, <1>9

LEMMA Appended ==
  ASSUME NEW S, NEW list \in Seq(S), NEW x \in S
  PROVE  ToSet(Append(list, x)) = ToSet(list) \cup {x}
<1> DEFINE new == Append(list, x)
<1>1. /\ DOMAIN new = 1..Len(list) + 1 /\ DOMAIN list = 1..Len(list) /\ Len(list) \in Nat
      /\ \A i \in DOMAIN list : i \in DOMAIN new /\ new[i] = list[i]
      /\ new[Len(list) + 1] = x
  OBVIOUS
<1> HIDE DEF new
<1>2. ToSet(new) = ToSet(list) \cup {x}
  BY <1>1 DEF ToSet
<1> QED BY <1>2 DEF new

\* The keywords sent to node 1 are those it owns.
LEMMA RemoteKeywords ==
  ASSUME NEW keys \in Seq(Nat)
  PROVE  Remote(keys) \in Seq(Nat) /\ ToSet(Remote(keys)) = {k \in ToSet(keys) : k % NodeNum = 1}
<1> DEFINE n == Len(keys)
           add(l, k) == IF k % NodeNum = 1 THEN Append(l, k) ELSE l
           g == [i \in 1..n |-> [l \in Seq(Nat) |-> add(l, keys[i])]]
           turn(f, s) == IF s = {} THEN <<>> ELSE add(f[s \ {Max(s)}], keys[Max(s)])
           iter == CHOOSE f : f = [s \in SUBSET (1..n) |-> turn(f, s)]
           first(i) == {keys[j] : j \in 1..i}
           owned(ks) == {k \in ks : k % NodeNum = 1}
           after(i) == iter[1..i] \in Seq(Nat) /\ ToSet(iter[1..i]) = owned(first(i))
           U == {i \in Nat : i <= n => after(i)}
<1>1. n \in Nat /\ DOMAIN keys = 1..n /\ \A i \in 1..n : keys[i] \in Nat
  OBVIOUS
<1>2. Remote(keys) = iter[1..n]
  BY <1>1 DEF Remote, FoldLeft, MapThenFoldSet
<1>4. g \in [1..n -> [Seq(Nat) -> Seq(Nat)]]
  BY <1>1
<1>5. \A s \in SUBSET (1..n) : iter[s] = turn(iter, s)
  <2>1. PICK f \in [SUBSET (1..n) -> Seq(Nat)] : Folds(f, n, <<>>, g)
    <3>1. <<>> \in Seq(Nat)
      OBVIOUS
    <3> HIDE DEF g, n
    <3> QED BY <1>1, <1>4, <3>1, Folding
  <2>2. ASSUME NEW s \in SUBSET (1..n) PROVE f[s] = turn(f, s)
    <3>1. CASE s # {}
      <4>1. Max(s) \in 1..n
        BY <1>1, <3>1, MaxOfSet
      <4>2. f[s \ {Max(s)}] \in Seq(Nat)
        BY <2>1
      <4> QED BY <2>1, <3>1, <4>1, <4>2 DEF Folds
    <3>2. CASE s = {}
      BY <2>1, <3>2 DEF Folds
    <3> QED BY <3>1, <3>2
  <2>3. f = [s \in SUBSET (1..n) |-> turn(f, s)]
    BY <2>1, <2>2
  <2>4. iter = [s \in SUBSET (1..n) |-> turn(iter, s)]
    BY <2>3
  <2> HIDE DEF iter
  <2> QED BY <2>4
<1> HIDE DEF iter
<1>6. 0 \in U
  <2>1. first(0) = {} /\ 1..0 = {}
    OBVIOUS
  <2>2. iter[1..0] = <<>>
    BY <1>5, <2>1
  <2>3. ToSet(<<>>) = {}
    BY DEF ToSet
  <2>4. iter[1..0] \in Seq(Nat) /\ ToSet(iter[1..0]) = owned(first(0))
    BY <2>1, <2>2, <2>3
  <2> QED BY <2>4
<1>7. ASSUME NEW i \in Nat, i \in U PROVE i + 1 \in U
  <2> SUFFICES ASSUME i + 1 <= n PROVE after(i + 1)
    OBVIOUS
  <2> DEFINE k == keys[i + 1]
  <2>1. after(i)
    <3> HIDE DEF after
    <3> QED BY <1>7
  <2>2. iter[1..(i + 1)] = add(iter[1..i], k)
    <3>1. 1..(i+1) # {} /\ Max(1..(i+1)) = i + 1 /\ (1..(i+1)) \ {i + 1} = 1..i
      <4> i + 1 \in Nat \ {0} /\ i = (i + 1) - 1
        OBVIOUS
      <4> QED BY MaxOfPrefix
    <3>2. 1..(i+1) \in SUBSET (1..n)
      BY <1>1
    <3> QED BY <1>5, <3>1, <3>2
  <2>3. owned(first(i + 1)) = owned(first(i)) \cup owned({k})
    <3>1. first(i + 1) = first(i) \cup {k}
      BY <1>1
    <3> HIDE DEF first, k
    <3> QED BY <3>1
  <2>4. k \in Nat
    BY <1>1
  <2> HIDE DEF first, k
  <2>5. CASE k % NodeNum = 1
    <3>1. iter[1..(i + 1)] = Append(iter[1..i], k) /\ owned({k}) = {k}
      BY <2>2, <2>5
    <3>2. ToSet(iter[1..(i + 1)]) = ToSet(iter[1..i]) \cup {k}
      <4>1. iter[1..i] \in Seq(Nat)
        BY <2>1
      <4> DEFINE l == iter[1..i]
      <4> HIDE DEF l
      <4>2. ToSet(Append(l, k)) = ToSet(l) \cup {k}
        <5> l \in Seq(Nat) /\ k \in Nat
          BY <2>4, <4>1 DEF l
        <5> QED BY Appended
      <4> QED BY <3>1, <4>2 DEF l
    <3> QED BY <2>1, <2>3, <2>4, <3>1, <3>2
  <2>6. CASE k % NodeNum # 1
    BY <2>1, <2>2, <2>3, <2>6
  <2> QED BY <2>5, <2>6
<1>8. after(n)
  <2> HIDE DEF after
  <2>1. Nat \subseteq U
    <3> HIDE DEF U
    <3> QED BY <1>6, <1>7, Induction
  <2> QED BY <1>1, <2>1
<1>9. ToSet(keys) = {keys[j] : j \in 1..n}
  BY <1>1 DEF ToSet
<1> QED BY <1>2, <1>8, <1>9

\* The results of a list ranked before r.
Above(r, all) == {p \in all : OutRanks(p, r)}

\* Elements of a list of distinct ads with the same ad are the same.
LEMMA OnePerAd ==
  ASSUME NEW list, DistinctAds(list), NEW a \in ToSet(list), NEW b \in ToSet(list),
         a.adgroup_id = b.adgroup_id
  PROVE  a = b
  BY DEF DistinctAds, ToSet

LEMMA SizeOfList ==
  ASSUME NEW S, NEW list \in Seq(S), DistinctAds(list)
  PROVE  IsFiniteSet(ToSet(list)) /\ Cardinality(ToSet(list)) = Len(list)
<1> DEFINE n == Len(list)
<1>1. n \in Nat /\ DOMAIN list = 1..n /\ list \in [1..n -> ToSet(list)]
  BY DEF ToSet
<1>2. list \in Bijection(1..n, ToSet(list))
  <2>1. \A i, j \in 1..n : list[i] = list[j] => i = j
    BY <1>1 DEF DistinctAds
  <2>2. \A x \in ToSet(list) : \E i \in 1..n : list[i] = x
    BY <1>1 DEF ToSet
  <2> QED BY <1>1, <2>1, <2>2 DEF Bijection, Injection, Surjection, IsInjective
<1>3. ExistsBijection(1..n, ToSet(list))
  BY <1>2 DEF ExistsBijection
<1> HIDE DEF n
<1>4. IsFiniteSet(ToSet(list)) /\ Cardinality(ToSet(list)) = n
  BY <1>1, <1>3, FS_NatBijection, FS_CountingElements
<1> QED BY <1>4 DEF n

\* Sorting puts every result in its place.
LEMMA RankedList ==
  ASSUME NEW list, NEW offers \in SUBSET ScoredResults, BestList(list, offers)
  PROVE  BestList(Ranked(list), offers) /\ InOrder(Ranked(list))
<1> DEFINE n == Len(list)
           all == ToSet(list)
           rank == [r \in all |-> Cardinality(Above(r, all))]
           sorted == Ranked(list)
<1>1. /\ list \in Seq(ScoredResults) /\ DistinctAds(list)
      /\ n \in Nat /\ DOMAIN list = 1..n
      /\ IsFiniteSet(all) /\ Cardinality(all) = n
  BY SizeOfList DEF BestList
<1>2. all \in SUBSET ScoredResults /\ all \in SUBSET Results /\ all \in SUBSET offers
  BY <1>1 DEF BestList, ToSet, ScoredResults
<1>3. ASSUME NEW a \in all, NEW b \in all, a # b PROVE OutRanks(a, b) \/ OutRanks(b, a)
  <2>1. a.adgroup_id # b.adgroup_id
    BY <1>1, <1>3, OnePerAd
  <2> QED BY <1>2, <2>1, StrictOrder
<1>4. ASSUME NEW r \in all PROVE IsFiniteSet(Above(r, all)) /\ rank[r] \in 0..n - 1
  <2>1. Above(r, all) \in SUBSET all /\ r \notin Above(r, all)
    BY <1>2, StrictOrder DEF Above
  <2>2. IsFiniteSet(Above(r, all)) /\ Cardinality(Above(r, all)) <= n
    BY <1>1, <2>1, FS_Subset
  <2>3. Cardinality(Above(r, all)) # n
    BY <1>1, <2>1, FS_Subset
  <2>4. Cardinality(Above(r, all)) \in Nat
    BY <2>2, FS_CardinalityType
  <2> QED BY <1>1, <2>2, <2>3, <2>4
<1>5. ASSUME NEW a \in all, NEW b \in all, OutRanks(a, b) PROVE rank[a] < rank[b]
  <2>1. Above(a, all) \in SUBSET Above(b, all)
    BY <1>2, <1>5, StrictOrder DEF Above
  <2>2. Above(a, all) # Above(b, all)
    BY <1>2, <1>5, StrictOrder DEF Above
  <2>3. Cardinality(Above(a, all)) <= Cardinality(Above(b, all))
        /\ Cardinality(Above(a, all)) # Cardinality(Above(b, all))
    BY <1>4, <2>1, <2>2, FS_Subset
  <2> QED BY <1>4, <2>3
<1>6. rank \in Injection(all, 0..n - 1)
  <2>1. \A a, b \in all : rank[a] = rank[b] => a = b
    BY <1>3, <1>4, <1>5
  <2>2. rank \in [all -> 0..n - 1]
    BY <1>4
  <2> QED BY <2>1, <2>2 DEF Injection, IsInjective
<1>7. rank \in Surjection(all, 0..n - 1)
  <2>1. IsFiniteSet(0..n - 1) /\ Cardinality(0..n - 1) = n
    <3>1. 0 \in Int /\ n - 1 \in Int /\ (n - 1) - 0 + 1 = n /\ (0 > n - 1 => n = 0)
      BY <1>1
    <3> DEFINE m == n - 1
    <3> HIDE DEF m, n
    <3>2. IsFiniteSet(0..m) /\ Cardinality(0..m) = IF 0 > m THEN 0 ELSE m - 0 + 1
      BY <3>1, FS_Interval DEF m
    <3> QED BY <3>1, <3>2 DEF m
  <2> HIDE DEF rank, all, n
  <2> QED BY <1>1, <1>6, <2>1, FS_Injection
<1>8. \A i \in 1..n : sorted[i] \in all /\ rank[sorted[i]] = i - 1
  <2> TAKE i \in 1..n
  <2>1. PICK ranked \in all : rank[ranked] = i - 1
    <3>1. i - 1 \in 0..n - 1
      BY <1>1
    <3> QED BY <1>7, <3>1 DEF Surjection
  <2>2. sorted[i] = CHOOSE r \in all : Cardinality(Above(r, all)) = i - 1
    BY <1>1 DEF Ranked, Above
  <2>3. ranked \in all /\ Cardinality(Above(ranked, all)) = i - 1
    BY <2>1
  <2>4. sorted[i] \in all /\ Cardinality(Above(sorted[i], all)) = i - 1
    BY <2>2, <2>3
  <2> QED BY <2>4
<1>9. sorted \in Seq(ScoredResults) /\ DOMAIN sorted = 1..n
  <2>1. DOMAIN sorted = 1..n /\ sorted = [i \in 1..n |-> sorted[i]]
    <3> DEFINE place(i) == CHOOSE r \in all : Cardinality({p \in all : OutRanks(p, r)}) = i - 1
    <3>1. sorted = [i \in DOMAIN list |-> place(i)]
      BY DEF Ranked
    <3> HIDE DEF place, sorted
    <3> QED BY <1>1, <3>1
  <2>2. \A i \in 1..n : sorted[i] \in ScoredResults
    BY <1>2, <1>8
  <2>3. sorted \in [1..n -> ScoredResults]
    BY <2>1, <2>2
  <2> QED BY <1>1, <2>1, <2>3
<1> HIDE DEF sorted, rank
<1>10. InOrder(sorted)
  <2> SUFFICES ASSUME NEW i \in 1..n, NEW j \in 1..n, i < j
               PROVE  OutRanks(sorted[i], sorted[j])
    BY <1>9 DEF InOrder
  <2>1. sorted[i] # sorted[j] /\ ~OutRanks(sorted[j], sorted[i])
    BY <1>1, <1>5, <1>8
  <2> QED BY <1>3, <1>8, <2>1
<1>11. DistinctAds(sorted)
  <2> SUFFICES ASSUME NEW i \in 1..n, NEW j \in 1..n,
                      sorted[i].adgroup_id = sorted[j].adgroup_id
               PROVE  i = j
    BY <1>9 DEF DistinctAds
  <2>1. sorted[i] = sorted[j]
    BY <1>1, <1>8, OnePerAd
  <2> QED BY <1>1, <1>8, <2>1
<1>12. \A o \in offers : \E i \in DOMAIN sorted :
         sorted[i].adgroup_id = o.adgroup_id /\ NoWorse(sorted[i], o)
  <2> TAKE o \in offers
  <2>1. PICK k \in DOMAIN list : list[k].adgroup_id = o.adgroup_id /\ NoWorse(list[k], o)
    BY DEF BestList
  <2>2. list[k] \in all
    BY DEF ToSet
  <2> DEFINE i == rank[list[k]] + 1
  <2>3. i \in 1..n /\ rank[list[k]] = i - 1
    BY <1>1, <1>4, <2>2 DEF rank
  <2>4. sorted[i] = list[k]
    BY <1>6, <1>8, <2>2, <2>3 DEF Injection, IsInjective
  <2> QED BY <1>9, <2>1, <2>3, <2>4
<1>13. BestList(sorted, offers)
  BY <1>2, <1>8, <1>9, <1>11, <1>12 DEF BestList
<1> QED BY <1>10, <1>13 DEF sorted

\* The offers of the topn + 1 first results are kept, and one at least.
LEMMA KeptList ==
  ASSUME NEW list \in Seq(ScoredResults), NEW topn \in Nat
  PROVE  /\ KeepTop(list, topn) \in Seq(ScoredResults)
         /\ Len(KeepTop(list, topn)) <= Len(list)
         /\ \A i \in DOMAIN KeepTop(list, topn) : KeepTop(list, topn)[i] = list[i]
         /\ list # <<>> => KeepTop(list, topn) # <<>>
         /\ topn < IntHalf => Len(KeepTop(list, topn)) <= topn + 1
         /\ topn < 2 * IntHalf /\ Len(KeepTop(list, topn)) < Len(list) =>
              Len(KeepTop(list, topn)) = topn + 1
<1> DEFINE n == topn % (2 * IntHalf)
           kept == KeepTop(list, topn)
<1>1. IntHalf \in Nat \ {0}
  BY RankingAssumption
<1>2. n \in Nat /\ (topn < 2 * IntHalf => n = topn)
  BY <1>1
<1>3. kept = IF n < IntHalf /\ Len(list) > n THEN SubSeq(list, 1, n + 1) ELSE list
  BY DEF KeepTop
<1> HIDE DEF n, kept
<1>4. CASE n < IntHalf /\ Len(list) > n
  <2>1. /\ kept = SubSeq(list, 1, n + 1) /\ 1 \in 1..Len(list) + 1
        /\ n + 1 \in 1..Len(list) /\ Len(list) \in Nat
    BY <1>2, <1>3, <1>4
  <2>2. /\ kept \in Seq(ScoredResults) /\ Len(kept) = n + 1
        /\ \A i \in DOMAIN kept : kept[i] = list[i]
    BY <1>2, <2>1
  <2>3. kept # <<>>
    BY <1>2, <2>2
  <2> QED BY <1>1, <1>2, <1>4, <2>2, <2>3 DEF kept
<1>5. CASE ~(n < IntHalf /\ Len(list) > n)
  <2>1. kept = list
    BY <1>3, <1>5
  <2>2. topn < IntHalf => Len(list) <= topn
    BY <1>1, <1>2, <1>5
  <2> QED BY <2>1, <2>2 DEF kept
<1> QED BY <1>4, <1>5

-----------------------------------------------------------------------------
(* The loops of mergeResult *)

\* The first n results of a list.
Taken(list, n) == {list[x] : x \in 1..n}

\* None of the first results outranks one that is left in the list.
Leads(results, list, n) ==
  \A y \in DOMAIN results : \A x \in n..Len(list) : NoWorse(results[y], list[x])

\* After k turns the fronts have moved by k places, what was taken is merged, and
\* nothing that is left outranks it.
MergeInv(a, b, k, m) ==
  /\ m \in [i : 1..Len(a) + 1, j : 1..Len(b) + 1, results : Lists]
  /\ (m.i - 1) + (m.j - 1) = k
  /\ BestList(m.results, Taken(a, m.i - 1) \cup Taken(b, m.j - 1))
  /\ InOrder(m.results)
  /\ Leads(m.results, a, m.i)
  /\ Leads(m.results, b, m.j)

\* A ranked list of distinct ads.
RankedLists == {list \in Lists : InOrder(list)}

LEMMA TakenType ==
  ASSUME NEW list \in Seq(ScoredResults), NEW n \in Nat, n <= Len(list)
  PROVE  /\ Taken(list, n) \in SUBSET ScoredResults
         /\ n < Len(list) => Taken(list, n + 1) = Taken(list, n) \cup {list[n + 1]}
  BY DEF Taken

\* A result that outranks none of those merged goes to their end, or is dropped.
LEMMA InsertedLast ==
  ASSUME NEW results \in Lists, InOrder(results), NEW data \in ScoredResults,
         \A y \in DOMAIN results : NoWorse(results[y], data)
  PROVE  /\ InOrder(InsertResult(results, data))
         /\ \A y \in DOMAIN InsertResult(results, data) :
              InsertResult(results, data)[y] \in ToSet(results) \cup {data}
<1> DEFINE new == InsertResult(results, data)
<1>1. /\ results \in Seq(ScoredResults) /\ data \in Results
      /\ \A y \in DOMAIN results : results[y] \in ScoredResults /\ results[y] \in Results
      /\ \A y \in DOMAIN results : results[y] \in ToSet(results)
  BY DEF Lists, ScoredResults, ToSet
<1>2. CASE \E y \in DOMAIN results : results[y].adgroup_id = data.adgroup_id
  <2>1. \A y \in DOMAIN results :
          ~(results[y].adgroup_id = data.adgroup_id /\ Replaces(data, results[y]))
    BY <1>1, Ranks DEF NoWorse
  <2>2. new = [y \in DOMAIN results |-> results[y]]
    BY <1>2, <2>1 DEF InsertResult
  <2>3. new = results
    BY <1>1, <2>2
  <2> HIDE DEF new
  <2>4. InOrder(new) /\ \A y \in DOMAIN new : new[y] \in ToSet(results) \cup {data}
    BY <1>1, <2>3
  <2> QED BY <2>4 DEF new
<1>3. CASE ~ \E y \in DOMAIN results : results[y].adgroup_id = data.adgroup_id
  <2>1. new = Append(results, data)
    BY <1>3 DEF InsertResult
  <2>2. /\ DOMAIN new = 1..Len(results) + 1 /\ DOMAIN results = 1..Len(results)
        /\ Len(results) \in Nat
        /\ \A y \in DOMAIN results : y \in DOMAIN new /\ new[y] = results[y]
        /\ new[Len(results) + 1] = data
    BY <1>1, <2>1
  <2>3. \A y \in DOMAIN results : OutRanks(results[y], data)
    BY <1>1, <1>3, Ranks
  <2> HIDE DEF new
  <2>4. InOrder(new)
    BY <2>2, <2>3 DEF InOrder
  <2>5. \A y \in DOMAIN new : new[y] \in ToSet(results) \cup {data}
    BY <1>1, <2>2
  <2> QED BY <2>4, <2>5 DEF new
<1> QED BY <1>2, <1>3

\* One turn takes the front of list a, which outranks what is left of b.
LEMMA FrontTaken ==
  ASSUME NEW a \in RankedLists, NEW b \in RankedLists,
         NEW i \in 1..Len(a), NEW j \in 1..Len(b) + 1, NEW results \in Lists,
         BestList(results, Taken(a, i - 1) \cup Taken(b, j - 1)), InOrder(results),
         Leads(results, a, i), Leads(results, b, j),
         j <= Len(b) => NoWorse(a[i], b[j])
  PROVE  LET new == InsertResult(results, a[i])
         IN /\ new \in Lists
            /\ BestList(new, Taken(a, i) \cup Taken(b, j - 1))
            /\ InOrder(new) /\ Leads(new, a, i + 1) /\ Leads(new, b, j)
<1> DEFINE new == InsertResult(results, a[i])
           before == Taken(a, i - 1) \cup Taken(b, j - 1)
<1>1. /\ a \in Seq(ScoredResults) /\ b \in Seq(ScoredResults)
      /\ \A x \in 1..Len(a) : a[x] \in ScoredResults /\ a[x] \in Results
      /\ \A x \in 1..Len(b) : b[x] \in ScoredResults /\ b[x] \in Results
  BY DEF RankedLists, Lists, ScoredResults
<1>2. before \in SUBSET ScoredResults /\ Taken(a, i) = Taken(a, i - 1) \cup {a[i]}
  <2>1. i - 1 \in Nat /\ i - 1 < Len(a) /\ (i - 1) + 1 = i /\ j - 1 \in Nat /\ j - 1 <= Len(b)
    BY <1>1
  <2>2. Taken(a, i - 1) \in SUBSET ScoredResults /\ Taken(a, (i - 1) + 1) = Taken(a, i - 1) \cup {a[(i - 1) + 1]}
    BY <1>1, <2>1, TakenType
  <2>3. Taken(b, j - 1) \in SUBSET ScoredResults
    BY <1>1, <2>1, TakenType
  <2> QED BY <2>1, <2>2, <2>3
<1>3. BestList(new, Taken(a, i) \cup Taken(b, j - 1))
  <2>1. BestList(new, before \cup {a[i]})
    BY <1>1, <1>2, Inserted
  <2>2. before \cup {a[i]} = Taken(a, i) \cup Taken(b, j - 1)
    BY <1>2
  <2> QED BY <2>1, <2>2
<1>4. \A y \in DOMAIN results : NoWorse(results[y], a[i])
  BY <1>1 DEF Leads
<1>5. InOrder(new) /\ \A y \in DOMAIN new : new[y] \in ToSet(results) \cup {a[i]}
  BY <1>1, <1>4, InsertedLast
<1>6. \A x \in i + 1..Len(a) : NoWorse(a[i], a[x])
  <2> TAKE x \in i + 1..Len(a)
  <2>1. OutRanks(a[i], a[x])
    BY <1>1 DEF RankedLists, InOrder
  <2>2. x \in 1..Len(a)
    BY <1>1
  <2> QED BY <1>1, <2>1, <2>2, Ranks
<1>7. \A x \in j..Len(b) : NoWorse(a[i], b[x])
  <2> TAKE x \in j..Len(b)
  <2>1. j \in 1..Len(b) /\ x \in 1..Len(b) /\ NoWorse(a[i], b[j])
    BY <1>1
  <2>2. CASE x = j
    BY <2>1, <2>2
  <2>3. CASE j < x
    <3>1. OutRanks(b[j], b[x])
      BY <1>1, <2>1, <2>3 DEF RankedLists, InOrder
    <3>2. OutRanks(a[i], b[x])
      BY <1>1, <2>1, <3>1, Ranks
    <3> QED BY <1>1, <2>1, <3>2, Ranks
  <2> QED BY <2>1, <2>2, <2>3
<1> HIDE DEF new
<1>8. \A y \in DOMAIN new : new[y] = a[i] \/ \E z \in DOMAIN results : new[y] = results[z]
  BY <1>5 DEF ToSet
<1>9. Leads(new, a, i + 1) /\ Leads(new, b, j)
  <2>1. \A z \in DOMAIN results : \A x \in i + 1..Len(a) : NoWorse(results[z], a[x])
    BY <1>1 DEF Leads
  <2> QED BY <1>6, <1>7, <1>8, <2>1 DEF Leads
<1>10. new \in Lists
  BY <1>3 DEF Lists, BestList
<1> QED BY <1>3, <1>5, <1>9, <1>10 DEF new

LEMMA MergeTurn ==
  ASSUME NEW a \in RankedLists, NEW b \in RankedLists, NEW k \in Nat,
         k < Len(a) + Len(b), NEW m, MergeInv(a, b, k, m)
  PROVE  MergeInv(a, b, k + 1, MergeStep(a, b, m))
<1> DEFINE i == m.i
           j == m.j
           results == m.results
           new == MergeStep(a, b, m)
<1>1. /\ a \in Seq(ScoredResults) /\ b \in Seq(ScoredResults)
      /\ \A x \in 1..Len(a) : a[x] \in ScoredResults /\ a[x] \in Results
      /\ \A x \in 1..Len(b) : b[x] \in ScoredResults /\ b[x] \in Results
      /\ Len(a) \in Nat /\ Len(b) \in Nat
  BY DEF RankedLists, Lists, ScoredResults
<1>2. /\ m = [i |-> i, j |-> j, results |-> results]
      /\ i \in 1..Len(a) + 1 /\ j \in 1..Len(b) + 1 /\ results \in Lists
      /\ (i - 1) + (j - 1) = k
      /\ BestList(results, Taken(a, i - 1) \cup Taken(b, j - 1))
      /\ InOrder(results) /\ Leads(results, a, i) /\ Leads(results, b, j)
  BY DEF MergeInv
<1>3. CASE i <= Len(a) /\ (j <= Len(b) => OutRanks(a[i], b[j]))
  <2> DEFINE r == InsertResult(results, a[i])
  <2>1. new = [i |-> i + 1, j |-> j, results |-> r]
    BY <1>2, <1>3 DEF MergeStep
  <2>2. i \in 1..Len(a) /\ (j <= Len(b) => NoWorse(a[i], b[j]))
    <3>1. i \in 1..Len(a) /\ (j <= Len(b) => j \in 1..Len(b))
      BY <1>1, <1>2, <1>3
    <3> QED BY <1>1, <1>3, <3>1, Ranks
  <2> HIDE DEF i, j, results
  <2>3. /\ r \in Lists /\ BestList(r, Taken(a, i) \cup Taken(b, j - 1))
        /\ InOrder(r) /\ Leads(r, a, i + 1) /\ Leads(r, b, j)
    BY <1>2, <2>2, FrontTaken
  <2> HIDE DEF r, new
  <2>4. /\ new \in [i : 1..Len(a) + 1, j : 1..Len(b) + 1, results : Lists]
        /\ (new.i - 1) + (new.j - 1) = k + 1
        /\ new.i = i + 1 /\ new.i - 1 = i /\ new.j = j /\ new.results = r
    BY <1>1, <1>2, <2>1, <2>2, <2>3
  <2> QED BY <2>3, <2>4 DEF MergeInv, new
<1>4. CASE ~(i <= Len(a) /\ (j <= Len(b) => OutRanks(a[i], b[j])))
  <2> DEFINE r == InsertResult(results, b[j])
  <2>1. new = [i |-> i, j |-> j + 1, results |-> r]
    BY <1>2, <1>4 DEF MergeStep
  <2>2. j \in 1..Len(b) /\ (i <= Len(a) => NoWorse(b[j], a[i]))
    BY <1>1, <1>2, <1>4 DEF NoWorse
  <2> HIDE DEF i, j, results
  <2>3. BestList(results, Taken(b, j - 1) \cup Taken(a, i - 1))
    <3>1. Taken(b, j - 1) \cup Taken(a, i - 1) = Taken(a, i - 1) \cup Taken(b, j - 1)
      OBVIOUS
    <3> QED BY <1>2, <3>1
  <2>4. /\ r \in Lists /\ BestList(r, Taken(b, j) \cup Taken(a, i - 1))
        /\ InOrder(r) /\ Leads(r, b, j + 1) /\ Leads(r, a, i)
    BY <1>2, <2>2, <2>3, FrontTaken
  <2>5. BestList(r, Taken(a, i - 1) \cup Taken(b, j))
    <3>1. Taken(b, j) \cup Taken(a, i - 1) = Taken(a, i - 1) \cup Taken(b, j)
      OBVIOUS
    <3> QED BY <2>4, <3>1
  <2> HIDE DEF r, new
  <2>6. /\ new \in [i : 1..Len(a) + 1, j : 1..Len(b) + 1, results : Lists]
        /\ (new.i - 1) + (new.j - 1) = k + 1
        /\ new.i = i /\ new.j = j + 1 /\ new.j - 1 = j /\ new.results = r
    BY <1>1, <1>2, <2>1, <2>2, <2>4
  <2> QED BY <2>4, <2>5, <2>6 DEF MergeInv, new
<1> QED BY <1>3, <1>4

LEMMA MergeStart ==
  ASSUME NEW a \in RankedLists, NEW b \in RankedLists
  PROVE  MergeInv(a, b, 0, [i |-> 1, j |-> 1, results |-> <<>>])
<1>1. <<>> \in Lists /\ BestList(<<>>, {}) /\ InOrder(<<>>)
  BY DEF BestList, Lists, DistinctAds, InOrder
<1>2. Leads(<<>>, a, 1) /\ Leads(<<>>, b, 1)
  BY DEF Leads
<1>3. Taken(a, 0) \cup Taken(b, 0) = {}
  BY DEF Taken
<1>4. Len(a) \in Nat /\ Len(b) \in Nat
  BY DEF RankedLists, Lists
<1> DEFINE start == [i |-> 1, j |-> 1, results |-> <<>>]
<1>5. /\ start \in [i : 1..Len(a) + 1, j : 1..Len(b) + 1, results : Lists]
      /\ start.i = 1 /\ start.j = 1 /\ start.results = <<>>
      /\ start.i - 1 = 0 /\ start.j - 1 = 0
  BY <1>1, <1>4
<1> HIDE DEF start
<1>6. MergeInv(a, b, 0, start)
  <2>1. (start.i - 1) + (start.j - 1) = 0
    BY <1>5
  <2>2. Leads(start.results, a, start.i) /\ Leads(start.results, b, start.j)
    BY <1>2, <1>5
  <2>3. BestList(start.results, Taken(a, start.i - 1) \cup Taken(b, start.j - 1))
    BY <1>1, <1>3, <1>5
  <2>4. InOrder(start.results)
    BY <1>1, <1>5
  <2> QED BY <1>5, <2>1, <2>2, <2>3, <2>4 DEF MergeInv
<1> QED BY <1>6 DEF start

\* The states of the loops, turn by turn.
Merges(f, a, b) ==
  /\ f[0] = [i |-> 1, j |-> 1, results |-> <<>>]
  /\ \A k \in 1..Len(a) + Len(b) :
       MergeInv(a, b, k - 1, f[k - 1]) => f[k] = MergeStep(a, b, f[k - 1])

LEMMA MergeTurns ==
  ASSUME NEW a \in RankedLists, NEW b \in RankedLists, NEW f, Merges(f, a, b)
  PROVE  \A k \in 0..Len(a) + Len(b) : MergeInv(a, b, k, f[k])
<1> DEFINE n == Len(a) + Len(b)
           U == {k \in Nat : k <= n => MergeInv(a, b, k, f[k])}
<1>1. n \in Nat
  BY DEF RankedLists, Lists
<1>2. 0 \in U
  BY MergeStart DEF Merges
<1>3. ASSUME NEW k \in Nat, k \in U PROVE k + 1 \in U
  <2> SUFFICES ASSUME k + 1 <= n PROVE MergeInv(a, b, k + 1, f[k + 1])
    OBVIOUS
  <2>1. MergeInv(a, b, k, f[k]) /\ k < n /\ k + 1 \in 1..n /\ (k + 1) - 1 = k
    BY <1>1, <1>3
  <2>2. f[k + 1] = MergeStep(a, b, f[k])
    BY <2>1 DEF Merges
  <2> QED BY <2>1, <2>2, MergeTurn
<1> HIDE DEF U
<1>4. Nat \subseteq U
  BY <1>2, <1>3, Induction
<1> QED BY <1>1, <1>4 DEF U

\* The merged list has the best offer of each ad of the two lists, ranked.
LEMMA Merged ==
  ASSUME NEW a \in RankedLists, NEW b \in RankedLists
  PROVE  /\ BestList(MergeResult(a, b), ToSet(a) \cup ToSet(b))
         /\ InOrder(MergeResult(a, b))
<1> DEFINE n == Len(a) + Len(b)
           start == [i |-> 1, j |-> 1, results |-> <<>>]
           T == [i : 1..Len(a) + 1, j : 1..Len(b) + 1, results : Lists]
           g == [k \in 1..n |-> [m \in T |->
                   IF MergeStep(a, b, m) \in T THEN MergeStep(a, b, m) ELSE m]]
           loop(f) == [k \in 0..n |-> IF k = 0 THEN start ELSE MergeStep(a, b, f[k - 1])]
           merged == CHOOSE f : f = loop(f)
<1>1. /\ n \in Nat /\ Len(a) \in Nat /\ Len(b) \in Nat
      /\ DOMAIN a = 1..Len(a) /\ DOMAIN b = 1..Len(b)
  BY DEF RankedLists, Lists
<1>2. MergeResult(a, b) = merged[n].results
  BY DEF MergeResult
<1>3. start \in T
  BY MergeStart DEF MergeInv
<1>4. \E f : f = loop(f)
  <2>1. g \in [1..n -> [T -> T]]
    OBVIOUS
  <2>2. PICK f \in [0..n -> T] : f[0] = start /\ \A k \in 1..n : f[k] = g[k][f[k - 1]]
    <3>1. PICK f \in [0..n -> T] : Turns(f, n, start, g)
      <4> HIDE DEF n, T, g, start
      <4> QED BY <1>1, <1>3, <2>1, Recursion
    <3> QED BY <3>1 DEF Turns
  <2>3. ASSUME NEW k \in 1..n, MergeInv(a, b, k - 1, f[k - 1])
        PROVE  f[k] = MergeStep(a, b, f[k - 1])
    <3>1. k - 1 \in Nat /\ k - 1 < n /\ k - 1 \in 0..n
      BY <1>1
    <3>2. MergeInv(a, b, (k - 1) + 1, MergeStep(a, b, f[k - 1]))
      <4> HIDE DEF n
      <4>1. k - 1 < Len(a) + Len(b)
        BY <3>1 DEF n
      <4> QED BY <2>3, <3>1, <4>1, MergeTurn
    <3>3. MergeStep(a, b, f[k - 1]) \in T
      BY <3>2 DEF MergeInv
    <3>4. f[k] = g[k][f[k - 1]] /\ f[k - 1] \in T
      BY <2>2, <3>1
    <3> HIDE DEF T
    <3> QED BY <3>3, <3>4
  <2>4. Merges(f, a, b)
    BY <2>2, <2>3 DEF Merges
  <2>5. \A k \in 0..n : MergeInv(a, b, k, f[k])
    BY <2>4, MergeTurns
  <2>6. \A k \in 0..n : f[k] = IF k = 0 THEN start ELSE MergeStep(a, b, f[k - 1])
    <3> TAKE k \in 0..n
    <3>1. CASE k # 0
      <4>1. k \in 1..n /\ k - 1 \in 0..n
        BY <1>1, <3>1
      <4> QED BY <2>3, <2>5, <3>1, <4>1
    <3> QED BY <2>2, <3>1
  <2> HIDE DEF start
  <2> QED BY <2>2, <2>6
<1>5. merged = loop(merged)
  BY <1>4
<1> HIDE DEF merged
<1>6. /\ merged[0] = start
      /\ \A k \in 1..n : merged[k] = MergeStep(a, b, merged[k - 1])
  BY <1>1, <1>5
<1>7. MergeInv(a, b, n, merged[n])
  <2>1. Merges(merged, a, b)
    BY <1>6 DEF Merges
  <2> QED BY <1>1, <2>1, MergeTurns
<1>8. merged[n].i - 1 = Len(a) /\ merged[n].j - 1 = Len(b)
  BY <1>1, <1>7 DEF MergeInv
<1>9. Taken(a, Len(a)) = ToSet(a) /\ Taken(b, Len(b)) = ToSet(b)
  BY <1>1 DEF Taken, ToSet
<1> QED BY <1>2, <1>7, <1>8, <1>9 DEF MergeInv

-----------------------------------------------------------------------------
(* What the cut to topn + 1 on each node cannot change *)

\* The first results of a list: all, or topn + 1 of them.
IsCut(cut, list, topn) ==
  /\ cut \in RankedLists
  /\ Len(cut) <= Len(list)
  /\ \A i \in DOMAIN cut : cut[i] = list[i]
  /\ Len(cut) < Len(list) => Len(cut) = topn + 1

LEMMA InPlace ==
  ASSUME NEW list \in RankedLists, NEW i \in DOMAIN list, NEW j \in DOMAIN list
  PROVE  /\ list[i] \in ScoredResults /\ list[i] \in Results
         /\ OutRanks(list[i], list[j]) <=> i < j
         /\ i \in Nat /\ 1 <= i /\ i <= Len(list)
         /\ \A k \in 1..i : k \in DOMAIN list
<1>1. /\ list \in Seq(ScoredResults) /\ InOrder(list) /\ DOMAIN list = 1..Len(list)
      /\ Len(list) \in Nat
  BY DEF RankedLists, Lists
<1>2. \A k \in DOMAIN list : list[k] \in ScoredResults /\ list[k] \in Results
  BY <1>1 DEF ScoredResults
<1>3. i < j => OutRanks(list[i], list[j])
  BY <1>1 DEF InOrder
<1>4. ~(i < j) => ~OutRanks(list[i], list[j])
  <2>1. j < i => OutRanks(list[j], list[i])
    BY <1>1 DEF InOrder
  <2>2. i = j => ~OutRanks(list[i], list[j])
    BY <1>2, StrictOrder
  <2> QED BY <1>1, <1>2, <2>1, <2>2, Ranks DEF NoWorse
<1> QED BY <1>1, <1>2, <1>3, <1>4

\* A result with at most topn others ranked before it, among all offers, is kept
\* by the node that has it: topn + 1 kept before it would all be ranked before it.
LEMMA NothingLost ==
  ASSUME NEW list \in RankedLists, NEW topn \in Nat, NEW cut, IsCut(cut, list, topn),
         NEW offers, ToSet(list) \subseteq offers,
         NEW best \in RankedLists, BestList(best, offers),
         NEW i \in DOMAIN best, i <= topn + 1, best[i] \in ToSet(list)
  PROVE  best[i] \in ToSet(cut)
<1>1. PICK p \in DOMAIN list : list[p] = best[i]
  BY DEF ToSet
<1>2. /\ DOMAIN cut = 1..Len(cut) /\ DOMAIN list = 1..Len(list)
      /\ DOMAIN best = 1..Len(best) /\ i \in Nat
      /\ Len(cut) \in Nat /\ Len(list) \in Nat /\ Len(best) \in Nat
  BY DEF IsCut, RankedLists, Lists
<1>3. CASE p <= Len(cut)
  <2>1. p \in DOMAIN cut
    BY <1>1, <1>2, <1>3
  <2>2. cut[p] = list[p]
    BY <2>1 DEF IsCut
  <2> QED BY <1>1, <2>1, <2>2 DEF ToSet
<1>4. CASE ~(p <= Len(cut))
  <2>1. topn + 1 < p /\ 1..topn + 1 \subseteq DOMAIN list
    <3>1. p \in 1..Len(list) /\ Len(cut) < Len(list)
      BY <1>1, <1>2, <1>4
    <3>2. Len(cut) = topn + 1
      BY <3>1 DEF IsCut
    <3> QED BY <1>2, <1>4, <3>1, <3>2
  <2>2. ASSUME NEW q \in 1..topn + 1
        PROVE  \E z \in 1..i - 1 : best[z].adgroup_id = list[q].adgroup_id
    <3>1. q \in DOMAIN list /\ q < p
      BY <1>1, <1>2, <2>1
    <3>2. OutRanks(list[q], best[i])
      BY <1>1, <3>1, InPlace
    <3>3. list[q] \in offers
      BY <3>1 DEF ToSet
    <3>4. PICK z \in DOMAIN best : best[z].adgroup_id = list[q].adgroup_id
                                   /\ NoWorse(best[z], list[q])
      BY <3>3 DEF BestList
    <3>5. OutRanks(best[z], best[i])
      <4> best[z] \in Results /\ best[i] \in Results /\ list[q] \in Results
        BY <3>1, InPlace
      <4> QED BY <3>2, <3>4, Ranks
    <3>6. z < i
      BY <3>5, InPlace
    <3> QED BY <1>2, <3>4, <3>6
  <2> DEFINE f == [q \in 1..topn + 1 |->
                     CHOOSE z \in 1..i - 1 : best[z].adgroup_id = list[q].adgroup_id]
  <2>3. \A q \in 1..topn + 1 :
          f[q] \in 1..i - 1 /\ best[f[q]].adgroup_id = list[q].adgroup_id
    BY <2>2
  <2>4. f \in [1..topn + 1 -> 1..i - 1]
    BY <2>3
  <2> HIDE DEF f
  <2>5. IsFiniteSet(1..topn + 1) /\ Cardinality(1..topn + 1) = topn + 1
    <3> DEFINE m == topn + 1
    <3>1. m \in Nat
      OBVIOUS
    <3> HIDE DEF m
    <3>2. IsFiniteSet(1..m) /\ Cardinality(1..m) = IF 1 > m THEN 0 ELSE m - 1 + 1
      BY <3>1, FS_Interval
    <3>3. IsFiniteSet(1..m) /\ Cardinality(1..m) = m
      BY <3>1, <3>2
    <3> QED BY <3>3 DEF m
  <2>6. IsFiniteSet(1..i - 1) /\ Cardinality(1..i - 1) = i - 1
    <3> DEFINE m == i - 1
    <3>1. m \in Nat
      BY <1>2
    <3> HIDE DEF m
    <3>2. IsFiniteSet(1..m) /\ Cardinality(1..m) = IF 1 > m THEN 0 ELSE m - 1 + 1
      BY <3>1, FS_Interval
    <3>3. IsFiniteSet(1..m) /\ Cardinality(1..m) = m
      BY <3>1, <3>2
    <3> QED BY <3>3 DEF m
  <2>7. PICK q, r \in 1..topn + 1 : q # r /\ f[q] = f[r]
    <3>1. Cardinality(1..i - 1) < Cardinality(1..topn + 1)
      BY <1>2, <2>5, <2>6
    <3> QED BY <2>4, <2>5, <2>6, <3>1, FS_PigeonHole
  <2>8. list[q].adgroup_id = list[r].adgroup_id
    BY <2>3, <2>7
  <2> QED BY <2>1, <2>7, <2>8 DEF RankedLists, Lists, DistinctAds
<1> QED BY <1>3, <1>4

\* The lists agree up to position topn + 1.
Agree(list, best, topn) ==
  \A i \in 1..topn + 1 :
    /\ i \in DOMAIN best <=> i \in DOMAIN list
    /\ i \in DOMAIN best => Alike(list[i], best[i])

\* The best of fewer offers, with the first topn + 1 still among them.
LEMMA SameFirst ==
  ASSUME NEW topn \in Nat, NEW offers, NEW kept, kept \subseteq offers,
         NEW best \in RankedLists, BestList(best, offers),
         NEW list \in RankedLists, BestList(list, kept),
         \A i \in DOMAIN best : i <= topn + 1 => best[i] \in kept
  PROVE  Agree(list, best, topn)
<1>1. /\ DOMAIN list = 1..Len(list) /\ DOMAIN best = 1..Len(best)
      /\ Len(list) \in Nat /\ Len(best) \in Nat
      /\ DistinctAds(list) /\ DistinctAds(best)
  BY DEF RankedLists, Lists
<1>2. ASSUME NEW y \in DOMAIN list
      PROVE  \E z \in DOMAIN best : /\ best[z].adgroup_id = list[y].adgroup_id
                                    /\ NoWorse(best[z], list[y])
  BY DEF BestList
<1>3. ASSUME NEW i \in DOMAIN best, i <= topn + 1
      PROVE  \E y \in DOMAIN list : Alike(list[y], best[i])
  <2>1. PICK y \in DOMAIN list : /\ list[y].adgroup_id = best[i].adgroup_id
                                 /\ NoWorse(list[y], best[i])
    BY <1>3 DEF BestList
  <2>2. NoWorse(best[i], list[y])
    BY <1>1, <1>2, <2>1 DEF DistinctAds
  <2> QED BY <2>1, <2>2, InPlace, Ranks
<1>4. ASSUME NEW i \in DOMAIN best, i <= topn + 1,
             \A k \in 1..i - 1 : k \in DOMAIN list /\ Alike(list[k], best[k])
      PROVE  i \in DOMAIN list /\ Alike(list[i], best[i])
  <2>1. PICK y \in DOMAIN list : Alike(list[y], best[i])
    BY <1>3, <1>4
  <2>2. ~(y < i)
    <3> SUFFICES ASSUME y < i PROVE FALSE
      OBVIOUS
    <3>1. y \in 1..i - 1
      BY <1>1
    <3>2. Alike(list[y], best[y]) /\ y \in DOMAIN best
      BY <1>1, <1>4, <3>1
    <3>3. best[y].adgroup_id = best[i].adgroup_id
      BY <2>1, <3>2 DEF Alike
    <3>4. y = i
      BY <1>1, <3>2, <3>3 DEF DistinctAds
    <3> QED BY <1>1, <3>1, <3>4
  <2>3. ~(i < y)
    <3> SUFFICES ASSUME i < y PROVE FALSE
      OBVIOUS
    <3>1. i \in DOMAIN list /\ OutRanks(list[i], list[y])
      BY <1>1, InPlace
    <3>2. PICK z \in DOMAIN best : /\ best[z].adgroup_id = list[i].adgroup_id
                                   /\ NoWorse(best[z], list[i])
      BY <1>2, <3>1
    <3>3. OutRanks(best[z], best[i])
      <4>1. /\ best[z] \in Results /\ best[i] \in Results
            /\ list[i] \in Results /\ list[y] \in Results
        BY <3>1, InPlace
      <4>2. OutRanks(list[i], best[i])
        BY <2>1, <3>1, <4>1, Ranks
      <4> QED BY <3>2, <4>1, <4>2, Ranks
    <3>4. z \in 1..i - 1
      BY <1>1, <3>3, InPlace
    <3>5. z \in DOMAIN list /\ Alike(list[z], best[z])
      BY <1>4, <3>4
    <3> QED BY <1>1, <3>1, <3>2, <3>4, <3>5 DEF Alike, DistinctAds
  <2>4. y = i
    BY <1>1, <2>2, <2>3
  <2> QED BY <2>1, <2>4
<1>5. \A i \in DOMAIN best : i <= topn + 1 => i \in DOMAIN list /\ Alike(list[i], best[i])
  <2> DEFINE good(i) == i \in DOMAIN list /\ Alike(list[i], best[i])
             Bad == {i \in DOMAIN best : i <= topn + 1 /\ ~good(i)}
  <2> SUFFICES ASSUME Bad # {} PROVE FALSE
    OBVIOUS
  <2>1. Bad \in SUBSET Nat
    BY <1>1
  <2>2. PICK i \in Bad : \A m \in Bad : i <= m
    <3> HIDE DEF Bad
    <3> QED BY <2>1, LeastNumber
  <2>3. i \in DOMAIN best /\ i <= topn + 1 /\ ~good(i)
    OBVIOUS
  <2>4. \A k \in 1..i - 1 : good(k)
    <3> TAKE k \in 1..i - 1
    <3>1. k \in DOMAIN best /\ k <= topn + 1 /\ ~(i <= k)
      BY <1>1, <2>3
    <3> QED BY <2>2, <3>1
  <2> QED BY <1>4, <2>3, <2>4
<1>6. ASSUME NEW i \in DOMAIN list, i <= topn + 1 PROVE i \in DOMAIN best
  <2> SUFFICES ASSUME i \notin DOMAIN best PROVE FALSE
    OBVIOUS
  <2>1. PICK z \in DOMAIN best : best[z].adgroup_id = list[i].adgroup_id
    BY <1>2
  <2>2. z < i /\ z <= topn + 1
    BY <1>1, <1>6
  <2>3. z \in DOMAIN list /\ Alike(list[z], best[z])
    BY <1>5, <2>2
  <2> QED BY <1>1, <2>1, <2>2, <2>3 DEF Alike, DistinctAds
<1> QED BY <1>5, <1>6 DEF Agree

-----------------------------------------------------------------------------
(* The reference *)

LEMMA AdsOfFirst ==
  ASSUME NEW list \in RankedLists, NEW n \in 0..Len(list)
  PROVE  Cardinality({list[w].adgroup_id : w \in 1..n}) = n
<1> DEFINE ads == {list[w].adgroup_id : w \in 1..n}
           f == [w \in 1..n |-> list[w].adgroup_id]
<1>1. n \in Nat /\ 1..n \subseteq DOMAIN list /\ DistinctAds(list)
  BY DEF RankedLists, Lists
<1>2. f \in Bijection(1..n, ads)
  <2>1. f \in [1..n -> ads]
    OBVIOUS
  <2>2. \A v, w \in 1..n : f[v] = f[w] => v = w
    BY <1>1 DEF DistinctAds
  <2>3. \A x \in ads : \E w \in 1..n : f[w] = x
    OBVIOUS
  <2> QED BY <2>1, <2>2, <2>3 DEF Bijection, Injection, Surjection, IsInjective
<1>3. ExistsBijection(1..n, ads)
  BY <1>2 DEF ExistsBijection
<1> HIDE DEF ads
<1>4. Cardinality(ads) = n
  BY <1>1, <1>3, FS_CountingElements
<1> QED BY <1>4 DEF ads

\* The best offers of each ad are those of the list, up to the rate of an ad
\* that bids nothing.
LEMMA BestOffers ==
  ASSUME NEW offers \in SUBSET ScoredResults,
         NEW list \in RankedLists, BestList(list, offers)
  PROVE  /\ \A o \in BestOf(offers) : \E z \in DOMAIN list : Alike(list[z], o)
         /\ \A z \in DOMAIN list : list[z] \in BestOf(offers)
<1>0. \A o \in offers : o \in Results
  BY DEF ScoredResults
<1>1. ASSUME NEW o \in BestOf(offers) PROVE \E z \in DOMAIN list : Alike(list[z], o)
  <2>1. o \in offers /\ \A p \in offers : ~(p.adgroup_id = o.adgroup_id /\ Replaces(p, o))
    BY DEF BestOf
  <2>2. PICK z \in DOMAIN list : list[z].adgroup_id = o.adgroup_id /\ NoWorse(list[z], o)
    BY <2>1 DEF BestList
  <2>3. list[z] \in offers /\ list[z] \in Results /\ o \in Results
    BY <1>0, <2>1 DEF BestList
  <2>4. ~Replaces(list[z], o)
    BY <2>1, <2>2, <2>3
  <2>5. NoWorse(o, list[z])
    BY <2>2, <2>3, <2>4, Ranks DEF NoWorse
  <2> QED BY <2>2, <2>3, <2>5, Ranks
<1>2. ASSUME NEW z \in DOMAIN list PROVE list[z] \in BestOf(offers)
  <2>1. list[z] \in offers /\ list[z] \in Results
    BY <1>0 DEF BestList
  <2>2. ASSUME NEW p \in offers, p.adgroup_id = list[z].adgroup_id PROVE ~Replaces(p, list[z])
    <3>1. PICK y \in DOMAIN list : list[y].adgroup_id = p.adgroup_id /\ NoWorse(list[y], p)
      BY DEF BestList
    <3>2. y = z
      BY <2>2, <3>1 DEF RankedLists, Lists, DistinctAds
    <3> QED BY <1>0, <2>1, <3>1, <3>2, Ranks DEF NoWorse
  <2> QED BY <2>1, <2>2 DEF BestOf
<1> QED BY <1>1, <1>2

LEMMA AdsFound ==
  ASSUME NEW offers \in SUBSET ScoredResults,
         NEW list \in RankedLists, BestList(list, offers)
  PROVE  Cardinality(Ads(BestOf(offers))) = Len(list)
<1>1. Len(list) \in 0..Len(list) /\ DOMAIN list = 1..Len(list)
  BY DEF RankedLists, Lists
<1>2. Ads(BestOf(offers)) = {list[w].adgroup_id : w \in 1..Len(list)}
  <2>1. \A o \in BestOf(offers) : \E z \in DOMAIN list : list[z].adgroup_id = o.adgroup_id
    BY BestOffers DEF Alike
  <2>2. \A z \in DOMAIN list : list[z] \in BestOf(offers)
    BY BestOffers
  <2> DEFINE listed == {list[w].adgroup_id : w \in 1..Len(list)}
  <2>3. ASSUME NEW a \in Ads(BestOf(offers)) PROVE a \in listed
    <3>1. PICK o \in BestOf(offers) : a = o.adgroup_id
      BY DEF Ads
    <3> QED BY <1>1, <2>1, <3>1
  <2>4. ASSUME NEW w \in 1..Len(list) PROVE list[w].adgroup_id \in Ads(BestOf(offers))
    BY <1>1, <2>2 DEF Ads
  <2> QED BY <2>3, <2>4
<1> QED BY <1>1, <1>2, AdsOfFirst

LEMMA Place ==
  ASSUME NEW offers \in SUBSET ScoredResults,
         NEW list \in RankedLists, BestList(list, offers),
         NEW o \in BestOf(offers), NEW z \in DOMAIN list, Alike(list[z], o)
  PROVE  Ahead(o, BestOf(offers)) = z - 1
<1> DEFINE best == BestOf(offers)
           before == {p \in best : OutRanks(p, o)}
<1>1. z - 1 \in 0..Len(list) /\ DOMAIN list = 1..Len(list) /\ Len(list) \in Nat
  BY DEF RankedLists, Lists
<1>2. o \in Results /\ \A p \in best : p \in Results
  BY DEF BestOf, ScoredResults
<1>3. ASSUME NEW p \in before PROVE \E w \in 1..z - 1 : list[w].adgroup_id = p.adgroup_id
  <2>1. PICK w \in DOMAIN list : Alike(list[w], p)
    BY BestOffers
  <2>2. list[w] \in Results /\ list[z] \in Results /\ p \in Results /\ OutRanks(p, o)
    BY <1>2, InPlace
  <2>3. OutRanks(list[w], list[z])
    <3>1. OutRanks(list[w], o)
      BY <1>2, <2>1, <2>2, Ranks
    <3> QED BY <1>2, <2>2, <3>1, Ranks
  <2>4. w < z
    BY <2>3, InPlace
  <2> QED BY <1>1, <2>1, <2>4 DEF Alike
<1>4. ASSUME NEW w \in 1..z - 1 PROVE list[w] \in before
  <2>1. w \in DOMAIN list /\ w < z
    BY <1>1
  <2>2. list[w] \in Results /\ list[z] \in Results /\ OutRanks(list[w], list[z])
    BY <2>1, InPlace
  <2>3. OutRanks(list[w], o)
    BY <1>2, <2>2, Ranks
  <2>4. list[w] \in best
    BY <2>1, BestOffers
  <2> QED BY <2>3, <2>4
<1> HIDE DEF before
<1>5. Ads(before) = {list[w].adgroup_id : w \in 1..z - 1}
  BY <1>3, <1>4 DEF Ads
<1>6. Cardinality(Ads(before)) = z - 1
  BY <1>1, <1>5, AdsOfFirst
<1> QED BY <1>6 DEF Ahead, before

-----------------------------------------------------------------------------
(* Billing *)

\* x / y rounded is at most p when x is at most y * p.
LEMMA RoundBound ==
  ASSUME NEW x \in Nat, NEW y \in Nat \ {0}, NEW p \in Nat, x <= y * p
  PROVE  Round(x, y) <= p
<1> DEFINE q == (2 * x + y) \div (2 * y)
<1>1. q \in Int /\ 2 * y * q <= 2 * x + y
  OBVIOUS
<1>2. 2 * x + y < 2 * y * (p + 1)
  <2>1. 2 * y * (p + 1) = 2 * (y * p) + 2 * y
    OBVIOUS
  <2>2. y * p \in Nat
    OBVIOUS
  <2> QED BY <2>1, <2>2
<1>3. 2 * y * q < 2 * y * (p + 1)
  BY <1>1, <1>2
<1>4. q < p + 1
  BY <1>1, <1>3
<1> QED BY <1>1, <1>4 DEF Round

LEMMA RoundType ==
  ASSUME NEW x \in Nat, NEW y \in Nat \ {0}
  PROVE  Round(x, y) \in Nat
<1> DEFINE q == (2 * x + y) \div (2 * y)
<1>1. q \in Int /\ 2 * x + y < 2 * y * (q + 1)
  OBVIOUS
<1>2. 0 < 2 * y * (q + 1)
  BY <1>1
<1>3. 0 < q + 1
  BY <1>1, <1>2
<1> QED BY <1>1, <1>3 DEF Round

\* The rate divides nothing out of an ad that bids nothing: it pays nothing.
LEMMA RoundAlike ==
  ASSUME NEW p \in ScoredResults, NEW o \in ScoredResults, Alike(p, o),
         NEW x \in Nat, x <= p.score
  PROVE  Round(x, p.ctr) = Round(x, o.ctr)
<1>1. /\ p.ctr \in Nat \ {0} /\ o.ctr \in Nat \ {0} /\ p.price \in Nat /\ o.price = p.price
      /\ p.score = p.ctr * p.price /\ o.score = o.ctr * p.price /\ o.score = p.score
  BY DEF ScoredResults, Results, Alike
<1>2. CASE p.price = 0
  <2>1. x <= p.ctr * 0 /\ x <= o.ctr * 0
    BY <1>1, <1>2
  <2>2. Round(x, p.ctr) <= 0 /\ Round(x, o.ctr) <= 0
    BY <1>1, <2>1, RoundBound
  <2>3. Round(x, p.ctr) \in Nat /\ Round(x, o.ctr) \in Nat
    BY <1>1, RoundType
  <2> QED BY <2>2, <2>3
<1>3. CASE p.price # 0
  <2>1. p.ctr = o.ctr
    <3>1. ASSUME NEW c \in Nat, NEW d \in Nat, NEW q \in Nat \ {0}, c * q = d * q
          PROVE  c = d
      <4>1. (c - d) * q = 0
        BY <3>1
      <4> QED BY <4>1
    <3> QED BY <1>1, <1>3, <3>1
  <2> QED BY <2>1
<1> QED BY <1>2, <1>3

\* In a list ranked by OutRanks an ad pays at most its bid: its follower scores
\* no higher, and the last one pays the bid itself (billing in Search).
THEOREM BilledWithinBid ==
  ASSUME NEW list \in RankedLists, NEW topn \in Nat, NEW k \in 1..Listed(list, topn)
  PROVE  /\ k \in DOMAIN list
         /\ Billed(list, topn)[k].adgroup_id = list[k].adgroup_id
         /\ Billed(list, topn)[k].price \in Nat
         /\ Billed(list, topn)[k].price <= list[k].price
<1>1. /\ k \in DOMAIN list /\ k \in 1..Len(list)
      /\ list \in Seq(ScoredResults) /\ InOrder(list)
  BY DEF Listed, RankedLists, Lists
<1>2. Billed(list, topn)[k] = [adgroup_id |-> list[k].adgroup_id, price |-> BillPrice(list, k)]
  BY DEF Billed
<1>3. /\ list[k] \in ScoredResults /\ list[k].ctr \in Nat \ {0} /\ list[k].price \in Nat
      /\ list[k].score \in Nat /\ list[k].score = list[k].ctr * list[k].price
  BY <1>1 DEF ScoredResults, Results
<1>4. CASE k < Len(list)
  <2>1. k + 1 \in DOMAIN list /\ list[k + 1] \in Results /\ OutRanks(list[k], list[k + 1])
    BY <1>1, <1>4 DEF ScoredResults, InOrder
  <2>2. list[k + 1].score \in Nat /\ list[k + 1].score <= list[k].score
    BY <1>3, <2>1 DEF OutRanks, Results
  <2>3. /\ Round(list[k + 1].score, list[k].ctr) <= list[k].price
        /\ Round(list[k + 1].score, list[k].ctr) \in Nat
    BY <1>3, <2>2, RoundBound, RoundType
  <2> QED BY <1>1, <1>2, <1>4, <2>3 DEF BillPrice
<1>5. CASE ~(k < Len(list))
  BY <1>1, <1>2, <1>3, <1>5 DEF BillPrice
<1> QED BY <1>4, <1>5

LEMMA ListOf ==
  ASSUME NEW S, NEW n \in Nat, NEW list \in [1..n -> S]
  PROVE  list \in Seq(S) /\ Len(list) = n
<1>1. list \in Seq(S) /\ DOMAIN list = 1..n
  OBVIOUS
<1> QED BY <1>1

LEMMA BilledType ==
  ASSUME NEW list \in RankedLists, NEW topn \in Nat
  PROVE  /\ Billed(list, topn) \in Seq([adgroup_id : Nat, price : Nat])
         /\ Len(Billed(list, topn)) = Listed(list, topn)
         /\ Listed(list, topn) \in Nat /\ Listed(list, topn) <= topn
<1> DEFINE n == Listed(list, topn)
<1>1. n \in Nat /\ n <= topn
  BY DEF Listed, RankedLists, Lists
<1>2. \A k \in 1..n : Billed(list, topn)[k] \in [adgroup_id : Nat, price : Nat]
  <2> TAKE k \in 1..n
  <2>1. k \in DOMAIN list /\ Billed(list, topn)[k].price \in Nat
    BY BilledWithinBid
  <2>2. list[k].adgroup_id \in Nat
    BY <2>1, InPlace DEF Results
  <2> QED BY <2>1, <2>2 DEF Billed
<1>3. Billed(list, topn) = [k \in 1..n |-> Billed(list, topn)[k]]
  BY DEF Billed
<1> DEFINE bill == Billed(list, topn)
<1> HIDE DEF bill, n
<1>4. bill \in [1..n -> [adgroup_id : Nat, price : Nat]]
  BY <1>2, <1>3 DEF bill
<1>5. bill \in Seq([adgroup_id : Nat, price : Nat]) /\ Len(bill) = n
  BY <1>1, <1>4, ListOf
<1> QED BY <1>1, <1>5 DEF bill, n

-----------------------------------------------------------------------------
(* The answer *)

\* What AnswerIsCentralised says of the offers and the bill.
IsAnswer(bill, offers, topn) ==
  LET best == BestOf(offers)
      found == Cardinality(Ads(best))
  IN /\ Len(bill) = IF found <= topn THEN found ELSE topn
     /\ \A o \in best : Ahead(o, best) < topn =>
          bill[Ahead(o, best) + 1] =
            [adgroup_id |-> o.adgroup_id, price |-> ReferencePrice(o, best)]

\* A list that agrees with the reference up to position topn + 1 is billed like it.
LEMMA BilledAsReference ==
  ASSUME NEW offers \in SUBSET ScoredResults, NEW topn \in Nat,
         NEW best \in RankedLists, BestList(best, offers),
         NEW list \in RankedLists, Agree(list, best, topn)
  PROVE  IsAnswer(Billed(list, topn), offers, topn)
<1> DEFINE all == BestOf(offers)
           found == Cardinality(Ads(all))
           bill == Billed(list, topn)
<1>1. /\ DOMAIN list = 1..Len(list) /\ DOMAIN best = 1..Len(best)
      /\ Len(list) \in Nat /\ Len(best) \in Nat
  BY DEF RankedLists, Lists
<1>0. Len(list) \in Nat /\ Len(best) \in Nat
  BY <1>1
<1>2. found = Len(best)
  BY AdsFound
<1>3. \A i \in 1..topn + 1 : i <= Len(best) <=> i <= Len(list)
  BY <1>1 DEF Agree
<1>4. Len(bill) = IF found <= topn THEN found ELSE topn
  <2>1. Len(bill) = IF Len(list) <= topn THEN Len(list) ELSE topn
    BY BilledType DEF Listed
  <2> HIDE DEF bill, found
  <2>2. CASE Len(list) <= topn
    <3>1. ~(Len(list) + 1 <= Len(best))
      BY <1>1, <1>3, <2>2
    <3>2. Len(list) # 0 => Len(list) <= Len(best)
      BY <1>1, <1>3, <2>2
    <3>3. Len(best) = Len(list)
      BY <1>0, <3>1, <3>2
    <3> QED BY <1>2, <2>1, <2>2, <3>3
  <2>3. CASE ~(Len(list) <= topn)
    <3>1. topn + 1 <= Len(best)
      BY <1>1, <1>3, <2>3
    <3> QED BY <1>0, <1>2, <2>1, <2>3, <3>1
  <2> QED BY <2>2, <2>3
<1>5. ASSUME NEW o \in all, Ahead(o, all) < topn
      PROVE  bill[Ahead(o, all) + 1] =
               [adgroup_id |-> o.adgroup_id, price |-> ReferencePrice(o, all)]
  <2>1. PICK z \in DOMAIN best : Alike(best[z], o)
    BY BestOffers
  <2>2. Ahead(o, all) = z - 1
    BY <2>1, Place
  <2>3. z \in 1..topn /\ z \in 1..topn + 1 /\ z + 1 \in 1..topn + 1
    BY <1>1, <1>5, <2>1, <2>2
  <2>4. z \in DOMAIN list /\ Alike(list[z], best[z])
    BY <2>1, <2>3 DEF Agree
  <2>5. z \in 1..Listed(list, topn)
    BY <1>1, <2>3, <2>4 DEF Listed
  <2>6. bill[z] = [adgroup_id |-> list[z].adgroup_id, price |-> BillPrice(list, z)]
    BY <2>5 DEF Billed
  <2>7. Alike(list[z], o)
    BY <2>1, <2>4 DEF Alike
  <2>8. list[z] \in ScoredResults /\ o \in ScoredResults
    BY <2>4, InPlace DEF BestOf
  <2> DEFINE behind == {p \in all : Ahead(p, all) = Ahead(o, all) + 1}
  <2>9. BillPrice(list, z) = ReferencePrice(o, all)
    <3>1. CASE z < Len(list)
      <4>1. z + 1 \in DOMAIN best /\ z + 1 \in DOMAIN list /\ Alike(list[z + 1], best[z + 1])
        BY <1>1, <2>1, <2>3, <3>1 DEF Agree
      <4>2. best[z + 1] \in all /\ best[z + 1] \in Results
        BY <4>1, BestOffers, InPlace
      <4>3. Alike(best[z + 1], best[z + 1])
        BY DEF Alike
      <4>4. Ahead(best[z + 1], all) = (z + 1) - 1
        BY <4>1, <4>2, <4>3, Place
      <4>5. best[z + 1] \in behind
        BY <1>1, <2>1, <2>2, <4>2, <4>4
      <4> DEFINE next == CHOOSE p \in behind : TRUE
      <4>6. next \in behind
        BY <4>5
      <4>7. next \in all /\ Ahead(next, all) = z
        <5>1. Ahead(next, all) = (z - 1) + 1 /\ next \in all
          BY <2>2, <4>6
        <5> QED BY <1>1, <2>1, <5>1
      <4> HIDE DEF next
      <4>8. PICK y \in DOMAIN best : Alike(best[y], next)
        BY <4>7, BestOffers
      <4>9. y = z + 1
        <5>1. Ahead(next, all) = y - 1
          BY <4>7, <4>8, Place
        <5> QED BY <1>1, <2>1, <4>7, <4>8, <5>1
      <4>10. next.score = list[z + 1].score
        BY <4>1, <4>8, <4>9 DEF Alike
      <4>11. list[z + 1].score \in Nat /\ list[z + 1].score <= list[z].score
        <5>1. OutRanks(list[z], list[z + 1]) /\ list[z] \in Results /\ list[z + 1] \in Results
          BY <1>1, <2>4, <4>1, InPlace
        <5> QED BY <5>1 DEF OutRanks, Results
      <4>12. Round(list[z + 1].score, list[z].ctr) = Round(list[z + 1].score, o.ctr)
        BY <2>7, <2>8, <4>11, RoundAlike
      <4>13. ReferencePrice(o, all) = Round(next.score, o.ctr)
        BY <4>5 DEF ReferencePrice, next
      <4> QED BY <3>1, <4>10, <4>12, <4>13 DEF BillPrice
    <3>2. CASE ~(z < Len(list))
      <4>1. z = Len(list)
        BY <1>1, <2>4, <3>2
      <4>2. z + 1 \notin DOMAIN best
        BY <1>1, <2>3, <4>1 DEF Agree
      <4>3. behind = {}
        <5> SUFFICES ASSUME NEW p \in all, Ahead(p, all) = Ahead(o, all) + 1 PROVE FALSE
          OBVIOUS
        <5>1. PICK y \in DOMAIN best : Alike(best[y], p)
          BY BestOffers
        <5>2. Ahead(p, all) = y - 1
          BY <5>1, Place
        <5>3. y - 1 = (z - 1) + 1
          BY <2>2, <5>2
        <5>4. y = z + 1
          BY <1>1, <2>1, <5>1, <5>3
        <5> QED BY <4>2, <5>1, <5>4
      <4>4. ReferencePrice(o, all) = o.price
        BY <4>3 DEF ReferencePrice
      <4> QED BY <2>7, <3>2, <4>4 DEF BillPrice, Alike
    <3> QED BY <3>1, <3>2
  <2>10. Ahead(o, all) + 1 = z
    BY <1>1, <2>1, <2>2
  <2> QED BY <2>6, <2>7, <2>9, <2>10 DEF Alike
<1> HIDE DEF bill
<1> QED BY <1>4, <1>5 DEF IsAnswer, bill

\* Merging what two nodes kept of their lists agrees with merging the lists.
LEMMA CutsMerged ==
  ASSUME NEW topn \in Nat,
         NEW offersA \in SUBSET ScoredResults, NEW a \in RankedLists, BestList(a, offersA),
         NEW offersB \in SUBSET ScoredResults, NEW b \in RankedLists, BestList(b, offersB),
         NEW cutA, IsCut(cutA, a, topn), NEW cutB, IsCut(cutB, b, topn)
  PROVE  \E best \in RankedLists : /\ BestList(best, offersA \cup offersB)
                                   /\ Agree(MergeResult(cutA, cutB), best, topn)
<1> DEFINE best == MergeResult(a, b)
           list == MergeResult(cutA, cutB)
           full == ToSet(a) \cup ToSet(b)
           kept == ToSet(cutA) \cup ToSet(cutB)
<1>1. /\ BestList(best, full) /\ InOrder(best) /\ best \in RankedLists
  BY Merged DEF RankedLists, Lists, BestList
<1>2. /\ BestList(list, kept) /\ InOrder(list) /\ list \in RankedLists
  <2>1. cutA \in RankedLists /\ cutB \in RankedLists
    BY DEF IsCut
  <2> QED BY <2>1, Merged DEF RankedLists, Lists, BestList
<1> HIDE DEF best, list
<1>3. kept \subseteq full
  <2>1. ToSet(cutA) \subseteq ToSet(a)
    BY DEF IsCut, ToSet, RankedLists, Lists
  <2>2. ToSet(cutB) \subseteq ToSet(b)
    BY DEF IsCut, ToSet, RankedLists, Lists
  <2> QED BY <2>1, <2>2
<1>4. \A i \in DOMAIN best : i <= topn + 1 => best[i] \in kept
  <2> SUFFICES ASSUME NEW i \in DOMAIN best, i <= topn + 1 PROVE best[i] \in kept
    OBVIOUS
  <2>1. best[i] \in ToSet(a) \/ best[i] \in ToSet(b)
    BY <1>1 DEF BestList
  <2>2. ToSet(a) \subseteq full /\ ToSet(b) \subseteq full
    OBVIOUS
  <2> HIDE DEF full
  <2>3. CASE best[i] \in ToSet(a)
    <3> best[i] \in ToSet(cutA)
      BY <1>1, <2>2, <2>3, NothingLost
    <3> QED OBVIOUS
  <2>4. CASE best[i] \in ToSet(b)
    <3> best[i] \in ToSet(cutB)
      BY <1>1, <2>2, <2>4, NothingLost
    <3> QED OBVIOUS
  <2> QED BY <2>1, <2>3, <2>4
<1>5. Agree(list, best, topn)
  <2> HIDE DEF full, kept
  <2> QED BY <1>1, <1>2, <1>3, <1>4, SameFirst
<1>6. BestList(best, offersA \cup offersB)
  <2>1. /\ best \in Seq(ScoredResults) /\ DistinctAds(best)
        /\ \A i \in DOMAIN best : best[i] \in ToSet(a) \cup ToSet(b)
    BY <1>1 DEF BestList
  <2>2. ToSet(a) \subseteq offersA /\ ToSet(b) \subseteq offersB
    BY DEF BestList, ToSet
  <2>3. ASSUME NEW o \in ScoredResults, NEW p \in full,
               p.adgroup_id = o.adgroup_id, NoWorse(p, o)
        PROVE  \E z \in DOMAIN best : /\ best[z].adgroup_id = o.adgroup_id
                                      /\ NoWorse(best[z], o)
    <3>1. PICK z \in DOMAIN best : /\ best[z].adgroup_id = p.adgroup_id
                                   /\ NoWorse(best[z], p)
      BY <1>1 DEF BestList
    <3>2. p \in Results /\ o \in Results /\ best[z] \in Results
      BY <1>1, <2>2, InPlace DEF ScoredResults
    <3> QED BY <2>3, <3>1, <3>2, Ranks
  <2>4. ASSUME NEW o \in offersA
        PROVE  \E z \in DOMAIN best : /\ best[z].adgroup_id = o.adgroup_id
                                      /\ NoWorse(best[z], o)
    <3>1. PICK k \in DOMAIN a : a[k].adgroup_id = o.adgroup_id /\ NoWorse(a[k], o)
      BY DEF BestList
    <3>2. a[k] \in full
      BY DEF ToSet
    <3> QED BY <2>3, <3>1, <3>2
  <2>5. ASSUME NEW o \in offersB
        PROVE  \E z \in DOMAIN best : /\ best[z].adgroup_id = o.adgroup_id
                                      /\ NoWorse(best[z], o)
    <3>1. PICK k \in DOMAIN b : b[k].adgroup_id = o.adgroup_id /\ NoWorse(b[k], o)
      BY DEF BestList
    <3>2. b[k] \in full
      BY DEF ToSet
    <3> QED BY <2>3, <3>1, <3>2
  <2> QED BY <2>1, <2>2, <2>4, <2>5 DEF BestList
<1> QED BY <1>1, <1>5, <1>6 DEF list

\* What a node answers: the first of its ranked offers, and one at least.
LEMMA NodeAnswer ==
  ASSUME NEW node, NEW idx, IsIndex(idx), NEW rq \in Requests
  PROVE  LET answer == SearchTopNByKeyword(node, idx, rq)
             offers == OffersUnder(ToSet(rq.keywords), node, idx, rq.hour)
         IN /\ answer \in RankedLists
            /\ ToSet(answer) \subseteq offers
            /\ answer = <<>> => offers = {}
            /\ rq.topn < IntHalf => Len(answer) <= rq.topn + 1
            /\ rq.topn < 2 * IntHalf =>
                 \E list \in RankedLists : /\ BestList(list, offers)
                                           /\ IsCut(answer, list, rq.topn)
<1> DEFINE answer == SearchTopNByKeyword(node, idx, rq)
           offers == OffersUnder(ToSet(rq.keywords), node, idx, rq.hour)
           list == Ranked(Recalled(node, idx, rq))
           topn == rq.topn
<1>1. topn \in Nat /\ answer = KeepTop(list, topn)
  BY DEF Requests, SearchTopNByKeyword
<1>2. offers \in SUBSET ScoredResults
  BY OffersType
<1>3. BestList(list, offers) /\ InOrder(list)
  <2>1. BestList(Recalled(node, idx, rq), offers)
    BY KeywordsAdded
  <2> HIDE DEF offers
  <2> QED BY <1>2, <2>1, RankedList
<1> HIDE DEF list, answer, offers, topn
<1>4. list \in RankedLists /\ list \in Seq(ScoredResults)
  BY <1>3 DEF BestList, RankedLists, Lists
<1>5. /\ answer \in Seq(ScoredResults) /\ Len(answer) <= Len(list)
      /\ \A i \in DOMAIN answer : answer[i] = list[i]
      /\ list # <<>> => answer # <<>>
      /\ topn < IntHalf => Len(answer) <= topn + 1
      /\ topn < 2 * IntHalf /\ Len(answer) < Len(list) => Len(answer) = topn + 1
  BY <1>1, <1>4, KeptList
<1>6. DOMAIN answer \subseteq DOMAIN list
  BY <1>4, <1>5
<1>7. answer \in RankedLists
  <2>1. DistinctAds(answer)
    BY <1>3, <1>5, <1>6 DEF BestList, DistinctAds
  <2>2. InOrder(answer)
    BY <1>3, <1>5, <1>6 DEF InOrder
  <2> QED BY <1>5, <2>1, <2>2 DEF RankedLists, Lists
<1>8. ToSet(answer) \subseteq offers
  BY <1>3, <1>5, <1>6 DEF ToSet, BestList
<1>9. answer = <<>> => offers = {}
  <2> SUFFICES ASSUME list = <<>> PROVE offers = {}
    BY <1>5
  <2> QED BY <1>3 DEF BestList
<1>10. topn < 2 * IntHalf => IsCut(answer, list, topn)
  BY <1>5, <1>7 DEF IsCut
<1> QED BY <1>3, <1>4, <1>5, <1>7, <1>8, <1>9, <1>10 DEF answer, offers, topn

-----------------------------------------------------------------------------
(* The inductive invariant: where the request stands determines every list *)

Asked == [request EXCEPT !.keywords = Remote(request.keywords)]

Merging == {"merged", "answered", "crashed"}

SearchInv ==
  /\ \E input \in Inputs : index = input[1] /\ request = input[2]
  /\ stage \in {"arrived", "searching", "waiting"} \cup Merging
  /\ call \in {"none", "local", "pending", "ok", "failed"}
  /\ call = "none" <=> stage = "arrived"
  /\ stage \in Merging => call # "pending"
  /\ call \in {"none", "local"} => remoteReq = NoRequest
  /\ call \in {"pending", "ok", "failed"} =>
       remoteReq = Asked /\ Remote(request.keywords) # <<>>
  /\ stage \in {"arrived", "searching"} => local = <<>>
  /\ stage \in {"waiting"} \cup Merging =>
       local = SearchTopNByKeyword(0, index[0], request)
  /\ call # "ok" => reply = <<>>
  /\ call = "ok" => reply = SearchTopNByKeyword(1, index[1], Asked)
  /\ stage \notin Merging => final = <<>>
  /\ stage \in Merging => final = MergeResult(local, reply)
  /\ stage # "answered" => response = <<>>
  /\ stage = "answered" => response = Billed(final, request.topn)
  /\ stage = "crashed" => Listed(final, request.topn) = 0

LEMMA InitInv == Init => SearchInv
  BY DEF Init, SearchInv, Merging

LEMMA NothingBilled ==
  ASSUME NEW list, NEW topn, Listed(list, topn) = 0
  PROVE  Billed(list, topn) = <<>>
  BY DEF Billed

LEMMA NextInv == SearchInv /\ [Next]_vars => SearchInv'
<1> SUFFICES ASSUME SearchInv, [Next]_vars PROVE SearchInv'
  OBVIOUS
<1>1. CASE Split
  BY <1>1 DEF Split, SearchInv, Merging, Asked
<1>2. CASE SearchLocally
  BY <1>2 DEF SearchLocally, SearchInv, Merging, Asked
<1>3. CASE InernalSearch
  BY <1>3 DEF InernalSearch, SearchInv, Merging, Asked
<1>4. CASE CallFails
  BY <1>4 DEF CallFails, SearchInv, Merging, Asked
<1>5. CASE Merge
  BY <1>5 DEF Merge, SearchInv, Merging, Asked
<1>6. CASE Bill
  BY <1>6 DEF Bill, SearchInv, Merging, Asked
<1>7. CASE BillNothing
  <2>1. Billed(final, request.topn) = <<>>
    BY <1>7, NothingBilled DEF BillNothing
  <2> QED BY <1>7, <2>1 DEF BillNothing, SearchInv, Merging, Asked
<1>8. CASE UNCHANGED vars
  BY <1>8 DEF vars, SearchInv, Merging, Asked
<1> QED BY <1>1, <1>2, <1>3, <1>4, <1>5, <1>6, <1>7, <1>8 DEF Next

LEMMA SearchCorrect == Spec => []SearchInv
  BY InitInv, NextInv, PTL DEF Spec

LEMMA Asking ==
  ASSUME SearchInv
  PROVE  /\ request \in Requests /\ IsIndex(index[0]) /\ IsIndex(index[1])
         /\ Asked \in Requests /\ Asked.topn = request.topn /\ Asked.hour = request.hour
         /\ ToSet(Asked.keywords) = {k \in ToSet(request.keywords) : k % NodeNum = 1}
<1>1. PICK input \in Inputs : index = input[1] /\ request = input[2]
  BY DEF SearchInv
<1>2. request \in Requests /\ IsIndex(index[0]) /\ IsIndex(index[1])
  BY <1>1, SearchAssumption DEF Requests, IsIndex
<1>3. /\ Remote(request.keywords) \in Seq(Nat)
      /\ ToSet(Remote(request.keywords)) = {k \in ToSet(request.keywords) : k % NodeNum = 1}
  BY <1>2, RemoteKeywords DEF Requests
<1> QED BY <1>2, <1>3 DEF Asked, Requests

\* The offers of the reference are those each node finds with the request it gets.
LEMMA NodeOffers ==
  ASSUME SearchInv
  PROVE  /\ OffersOf(0) = OffersUnder(ToSet(request.keywords), 0, index[0], request.hour)
         /\ OffersOf(1) = OffersUnder(ToSet(Asked.keywords), 1, index[1], Asked.hour)
         /\ OffersOf(0) \in SUBSET ScoredResults /\ OffersOf(1) \in SUBSET ScoredResults
<1>1. OffersOf(0) = OffersUnder(ToSet(request.keywords), 0, index[0], request.hour)
  BY DEF OffersOf, RowsAsked, OffersUnder, Matching
<1>2. OffersOf(1) = OffersUnder(ToSet(Asked.keywords), 1, index[1], Asked.hour)
  <2>1. {k \in ToSet(request.keywords) : Recalls(1, index[1], k)} =
          {k \in ToSet(Asked.keywords) : Recalls(1, index[1], k)}
    <3>1. \A k : Recalls(1, index[1], k) => k % NodeNum = 1
      BY DEF Recalls
    <3> QED BY <3>1, Asking
  <2>2. OffersOf(1) = OffersUnder(ToSet(request.keywords), 1, index[1], request.hour)
    BY DEF OffersOf, RowsAsked, OffersUnder, Matching
  <2>3. OffersUnder(ToSet(request.keywords), 1, index[1], request.hour) =
          OffersUnder(ToSet(Asked.keywords), 1, index[1], request.hour)
    BY <2>1 DEF OffersUnder
  <2> QED BY <2>2, <2>3, Asking
<1> QED BY <1>1, <1>2, Asking, OffersType

LEMMA OfferedBy ==
  /\ call = "ok" => Offers = OffersOf(0) \cup OffersOf(1)
  /\ call # "ok" => Offers = OffersOf(0) \cup {}
  BY DEF Offers, Answering

LEMMA EmptyList ==
  /\ <<>> \in RankedLists /\ ToSet(<<>>) = {} /\ BestList(<<>>, {})
  /\ \A topn : IsCut(<<>>, <<>>, topn)
<1>1. <<>> \in RankedLists /\ ToSet(<<>>) = {} /\ BestList(<<>>, {})
  BY DEF RankedLists, Lists, DistinctAds, InOrder, ToSet, BestList
<1> QED BY <1>1 DEF IsCut

\* What the two lists hold at every moment.
LEMMA HeldLists ==
  ASSUME SearchInv
  PROVE  /\ local \in RankedLists /\ reply \in RankedLists
         /\ request.topn < IntHalf =>
              Len(local) <= request.topn + 1 /\ Len(reply) <= request.topn + 1
         /\ ToSet(local) \cup ToSet(reply) \subseteq Offers
         /\ stage \in Merging /\ local = <<>> /\ reply = <<>> => Offers = {}
<1> DEFINE offers1 == OffersUnder(ToSet(Asked.keywords), 1, index[1], Asked.hour)
<1>0. request.topn \in Nat /\ Asked.topn = request.topn
  BY Asking DEF Requests
<1>1. /\ local \in RankedLists
      /\ request.topn < IntHalf => Len(local) <= request.topn + 1
      /\ ToSet(local) \subseteq OffersOf(0)
      /\ stage \in Merging /\ local = <<>> => OffersOf(0) = {}
  <2>1. CASE stage \in {"arrived", "searching"}
    <3>1. local = <<>> /\ stage \notin Merging
      BY <2>1 DEF SearchInv, Merging
    <3> QED BY <1>0, <3>1, EmptyList
  <2>2. CASE stage \in {"waiting"} \cup Merging
    <3>1. local = SearchTopNByKeyword(0, index[0], request)
      BY <2>2 DEF SearchInv
    <3> QED BY <3>1, Asking, NodeOffers, NodeAnswer
  <2> QED BY <2>1, <2>2 DEF SearchInv
<1>2. /\ reply \in RankedLists
      /\ request.topn < IntHalf => Len(reply) <= request.topn + 1
      /\ call # "ok" => ToSet(reply) = {}
      /\ call = "ok" => ToSet(reply) \subseteq OffersOf(1)
      /\ call = "ok" /\ reply = <<>> => OffersOf(1) = {}
  <2>1. CASE call # "ok"
    BY <1>0, <2>1, EmptyList DEF SearchInv
  <2>2. CASE call = "ok"
    <3>1. reply = SearchTopNByKeyword(1, index[1], Asked)
      BY <2>2 DEF SearchInv
    <3>2. /\ reply \in RankedLists
          /\ ToSet(reply) \subseteq offers1
          /\ reply = <<>> => offers1 = {}
          /\ Asked.topn < IntHalf => Len(reply) <= Asked.topn + 1
      BY <3>1, Asking, NodeAnswer
    <3>3. OffersOf(1) = offers1
      BY NodeOffers
    <3> HIDE DEF offers1
    <3> QED BY <1>0, <2>2, <3>2, <3>3
  <2> QED BY <2>1, <2>2
<1> QED BY <1>1, <1>2, OfferedBy

\* The merged list holds best offers, and is empty only without offers.
LEMMA FinalList ==
  ASSUME SearchInv
  PROVE  /\ final \in RankedLists
         /\ ToSet(final) \subseteq Offers
         /\ stage \in Merging /\ final = <<>> => Offers = {}
<1>1. CASE stage \in Merging
  <2>1. final = MergeResult(local, reply)
    BY <1>1 DEF SearchInv
  <2>2. local \in RankedLists /\ reply \in RankedLists
    BY HeldLists
  <2>3. BestList(final, ToSet(local) \cup ToSet(reply)) /\ InOrder(final)
    BY <2>1, <2>2, Merged
  <2>4. final \in RankedLists /\ ToSet(final) \subseteq ToSet(local) \cup ToSet(reply)
    BY <2>3 DEF BestList, RankedLists, Lists, ToSet
  <2>5. final = <<>> => local = <<>> /\ reply = <<>>
    <3> SUFFICES ASSUME final = <<>> PROVE local = <<>> /\ reply = <<>>
      OBVIOUS
    <3>1. ToSet(local) \cup ToSet(reply) = {}
      BY <2>3 DEF BestList
    <3>2. DOMAIN local = {} /\ DOMAIN reply = {}
      BY <3>1 DEF ToSet
    <3> QED BY <2>2, <3>2 DEF RankedLists, Lists
  <2> QED BY <1>1, <2>4, <2>5, HeldLists
<1>2. CASE stage \notin Merging
  BY <1>2, EmptyList DEF SearchInv
<1> QED BY <1>1, <1>2

-----------------------------------------------------------------------------
(* Theorems *)

LEMMA RankedType ==
  ASSUME NEW list \in RankedLists
  PROVE  list \in Seq(Results) /\ list \in Seq(ScoredResults)
<1>1. list \in Seq(ScoredResults) /\ Len(list) \in Nat
  BY DEF RankedLists, Lists
<1>2. list \in [1..Len(list) -> Results]
  BY <1>1 DEF ScoredResults
<1> HIDE DEF Results
<1> QED BY <1>1, <1>2, ListOf

LEMMA InvTypeOK == SearchInv => TypeOK
<1> SUFFICES ASSUME SearchInv PROVE TypeOK
  OBVIOUS
<1>1. request.topn \in Nat
  BY Asking DEF Requests
<1>2. /\ local \in Seq(Results) /\ reply \in Seq(Results) /\ final \in Seq(Results)
  BY HeldLists, FinalList, RankedType
<1>3. response \in Seq([adgroup_id : Nat, price : Nat]) /\ Len(response) <= request.topn
  <2>1. CASE stage = "answered"
    <3>1. response = Billed(final, request.topn)
      BY <2>1 DEF SearchInv
    <3> QED BY <1>1, <3>1, FinalList, BilledType
  <2>2. CASE stage # "answered"
    <3>1. response = <<>>
      BY <2>2 DEF SearchInv
    <3>2. <<>> \in Seq([adgroup_id : Nat, price : Nat]) /\ Len(<<>>) = 0
      OBVIOUS
    <3> QED BY <1>1, <3>1, <3>2
  <2> QED BY <2>1, <2>2
<1>4. remoteReq # NoRequest <=> call \in {"pending", "ok", "failed"}
  <2>1. call \in {"pending", "ok", "failed"} => remoteReq.keywords # <<>>
    BY Asking DEF SearchInv, Asked, Requests
  <2>2. NoRequest.keywords = <<>>
    BY DEF NoRequest
  <2> QED BY <2>1, <2>2 DEF SearchInv
<1>5. reply # <<>> => call = "ok"
  BY DEF SearchInv
<1>6. /\ stage \in {"arrived", "searching", "waiting", "merged", "answered", "crashed"}
      /\ call \in {"none", "local", "pending", "ok", "failed"}
      /\ call = "none" <=> stage = "arrived"
  BY DEF SearchInv, Merging
<1>7. request.topn < IntHalf =>
        Len(local) <= request.topn + 1 /\ Len(reply) <= request.topn + 1
  BY HeldLists
<1> QED BY <1>2, <1>3, <1>4, <1>5, <1>6, <1>7 DEF TypeOK

\* Search takes its steps in order, each node cuts its list to topn + 1 for every
\* topn an int holds, and only a completed call leaves a reply.
THEOREM TypeCorrect == Spec => []TypeOK
  BY SearchCorrect, InvTypeOK, PTL

\* Whatever the lists and however the call to node 1 ends, an ad is billed at most
\* what it bids for a keyword of the request (billing in Search).
THEOREM WithinBid == Spec => []BillWithinBid
<1>1. SearchInv => BillWithinBid
  <2> SUFFICES ASSUME SearchInv, NEW i \in DOMAIN response
               PROVE  \E o \in Offers : /\ o.adgroup_id = response[i].adgroup_id
                                        /\ response[i].price <= o.price
    BY DEF BillWithinBid
  <2>1. request.topn \in Nat /\ final \in RankedLists /\ ToSet(final) \subseteq Offers
    BY Asking, FinalList DEF Requests
  <2>2. response = Billed(final, request.topn)
    BY DEF SearchInv
  <2>3. i \in 1..Listed(final, request.topn)
    BY <2>2 DEF Billed
  <2>4. /\ i \in DOMAIN final /\ response[i].adgroup_id = final[i].adgroup_id
        /\ response[i].price <= final[i].price
    BY <2>1, <2>2, <2>3, BilledWithinBid
  <2>5. final[i] \in Offers
    BY <2>1, <2>4 DEF ToSet
  <2> QED BY <2>4, <2>5
<1> QED BY <1>1, SearchCorrect, PTL

\* The write in front of the results happens only when no row of an answering
\* node matches, or no ad is asked for: with an offer, one result reaches billing.
THEOREM CrashOnlyEmpty == Spec => []CrashOnlyWithoutAds
<1>1. SearchInv => CrashOnlyWithoutAds
  <2> SUFFICES ASSUME SearchInv, stage = "crashed", request.topn # 0
               PROVE  Offers = {}
    BY DEF CrashOnlyWithoutAds
  <2>1. request.topn \in Nat /\ final \in RankedLists
    BY Asking, FinalList DEF Requests
  <2>2. Listed(final, request.topn) = 0
    BY DEF SearchInv
  <2>3. Len(final) = 0
    BY <2>1, <2>2 DEF Listed
  <2>4. final = <<>>
    BY <2>1, <2>3 DEF RankedLists, Lists
  <2> QED BY <2>4, FinalList DEF Merging
<1> QED BY <1>1, SearchCorrect, PTL

LEMMA AnswerIsReference ==
  ASSUME SearchInv, stage = "answered", request.topn < 2 * IntHalf
  PROVE  IsAnswer(response, Offers, request.topn)
<1> DEFINE topn == request.topn
<1>1. /\ topn \in Nat /\ final \in RankedLists /\ Asked.topn = topn
      /\ final = MergeResult(local, reply) /\ response = Billed(final, topn)
      /\ local = SearchTopNByKeyword(0, index[0], request)
  BY Asking, FinalList DEF Requests, SearchInv, Merging
<1>2. PICK a \in RankedLists : BestList(a, OffersOf(0)) /\ IsCut(local, a, topn)
  <2>1. \E a \in RankedLists :
          /\ BestList(a, OffersUnder(ToSet(request.keywords), 0, index[0], request.hour))
          /\ IsCut(local, a, topn)
    BY <1>1, Asking, NodeAnswer
  <2> QED BY <2>1, NodeOffers
<1> HIDE DEF topn
<1>3. CASE call = "ok"
  <2>1. PICK b \in RankedLists : BestList(b, OffersOf(1)) /\ IsCut(reply, b, topn)
    <3>1. reply = SearchTopNByKeyword(1, index[1], Asked) /\ Asked.topn < 2 * IntHalf
      BY <1>1, <1>3 DEF SearchInv, topn
    <3>2. \E b \in RankedLists :
            /\ BestList(b, OffersUnder(ToSet(Asked.keywords), 1, index[1], Asked.hour))
            /\ IsCut(reply, b, Asked.topn)
      BY <3>1, Asking, NodeAnswer
    <3> QED BY <1>1, <3>2, NodeOffers
  <2>2. PICK best \in RankedLists : /\ BestList(best, OffersOf(0) \cup OffersOf(1))
                                    /\ Agree(MergeResult(local, reply), best, topn)
    BY <1>1, <1>2, <2>1, NodeOffers, CutsMerged
  <2>3. Offers = OffersOf(0) \cup OffersOf(1) /\ Offers \in SUBSET ScoredResults
    BY <1>3, OfferedBy, NodeOffers
  <2>4. IsAnswer(Billed(final, topn), Offers, topn)
    BY <1>1, <2>2, <2>3, BilledAsReference
  <2> QED BY <1>1, <2>4 DEF topn
<1>4. CASE call # "ok"
  <2>1. reply = <<>>
    BY <1>4 DEF SearchInv
  <2>2. PICK best \in RankedLists : /\ BestList(best, OffersOf(0) \cup {})
                                    /\ Agree(MergeResult(local, reply), best, topn)
    <3>1. {} \in SUBSET ScoredResults
      OBVIOUS
    <3> QED BY <1>1, <1>2, <2>1, <3>1, NodeOffers, EmptyList, CutsMerged
  <2>3. Offers = OffersOf(0) \cup {} /\ Offers \in SUBSET ScoredResults
    BY <1>4, OfferedBy, NodeOffers
  <2>4. IsAnswer(Billed(final, topn), Offers, topn)
    BY <1>1, <2>2, <2>3, BilledAsReference
  <2> QED BY <1>1, <2>4 DEF topn
<1> QED BY <1>3, <1>4

\* For every index and every request whose topn fits the unsigned range of int,
\* the two nodes' answer is the centralised one: the same ads in the same order at
\* the same prices, although searchTopNByKeyword cuts each list to topn + 1.
THEOREM Centralised ==
  ASSUME \A input \in Inputs : input[2].topn < 2 * IntHalf
  PROVE  Spec => []AnswerIsCentralised
<1>1. SearchInv => AnswerIsCentralised
  <2> SUFFICES ASSUME SearchInv, stage = "answered" PROVE AnswerIsCentralised
    BY DEF AnswerIsCentralised
  <2>1. request.topn < 2 * IntHalf
    BY DEF SearchInv
  <2>2. IsAnswer(response, Offers, request.topn)
    BY <2>1, AnswerIsReference
  <2> QED BY <2>2 DEF IsAnswer, AnswerIsCentralised
<1> QED BY <1>1, SearchCorrect, PTL
=============================================================================
