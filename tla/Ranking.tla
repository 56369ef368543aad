------------------------------- MODULE Ranking -------------------------------
(***************************************************************************)
(* The algorithms of SearchServiceImpl: recall, scoring, de-duplication    *)
(* and ranking on one node (searchTopNByKeyword), the merge of two nodes'  *)
(* lists (mergeResult) and the second-price billing at the end of Search.  *)
(*                                                                         *)
(* The estimated click-through rate of a row is given with the row as a    *)
(* positive integer, so that score = ctr * price is exact; how the floats  *)
(* are computed from the vectors is left out.  An index maps a keyword to  *)
(* the rows of its range (see AdIndex).                                    *)
(***************************************************************************)
EXTENDS Integers, FiniteSets, SequencesExt

CONSTANT IntHalf      \* half the values of int, which topn is narrowed to: 2^31

ASSUME RankingAssumption == IntHalf \in Nat \ {0}

NodeNum == 2

-----------------------------------------------------------------------------
(* searchTopNByKeyword *)

\* A recalled row as a search result.
Scored(row) == [adgroup_id |-> row.adgroup_id, price |-> row.price,
                ctr |-> row.ctr, score |-> row.ctr * row.price]

\* The ranking: higher score, then lower price, then higher adgroup_id.
OutRanks(l, r) ==
  \/ l.score > r.score
  \/ l.score = r.score /\ l.price < r.price
  \/ l.score = r.score /\ l.price = r.price /\ l.adgroup_id > r.adgroup_id

\* Whether data replaces an earlier result of the same ad.
Replaces(data, result) ==
  \/ data.score > result.score
  \/ data.score = result.score /\ data.price < result.price

\* An ad is listed once, in the place it was first met.
InsertResult(results, data) ==
  IF \E i \in DOMAIN results : results[i].adgroup_id = data.adgroup_id
  THEN [i \in DOMAIN results |->
          IF /\ results[i].adgroup_id = data.adgroup_id
             /\ Replaces(data, results[i])
          THEN data ELSE results[i]]
  ELSE Append(results, data)

\* The node owns the keyword and has rows for it.
Recalls(node, index, k) == k % NodeNum = node /\ k \in DOMAIN index

\* One turn of the loop over a keyword's rows, and the whole loop.
AddRow(results, row, hour) ==
  IF hour \in row.timings THEN InsertResult(results, Scored(row)) ELSE results

\* Mutant of AddRows: the range of a keyword is taken to end before its last row.
Bug_HalfOpenRange(results, rows, hour) ==
  FoldLeft(LAMBDA r, row : AddRow(r, row, hour), results, SubSeq(rows, 1, Len(rows) - 1))

AddRows(results, rows, hour) ==
  FoldLeft(LAMBDA r, row : AddRow(r, row, hour), results, rows)

\* One turn of the loop over the keywords, and the whole loop.
AddKeyword(results, k, node, index, hour) ==
  IF Recalls(node, index, k) THEN AddRows(results, index[k], hour) ELSE results

Recalled(node, index, request) ==
  FoldLeft(LAMBDA r, k : AddKeyword(r, k, node, index, request.hour),
           <<>>, request.keywords)

\* std::sort with the ranking: each result behind those that outrank it.
Ranked(results) ==
  LET all == ToSet(results)
  IN [i \in DOMAIN results |->
        CHOOSE r \in all : Cardinality({p \in all : OutRanks(p, r)}) = i - 1]

\* Mutant of KeepTop: the runner-up that prices the last ad is cut off.
Bug_KeepTopWithoutRunnerUp(s, topn) ==
  LET n == topn % (2 * IntHalf) IN IF Len(s) > n THEN SubSeq(s, 1, n) ELSE s

\* resize(topn + 1): one more than asked for, whose score prices the last one.
\* topn is narrowed to int, and a negative int compares as a huge size.
KeepTop(s, topn) ==
  LET n == topn % (2 * IntHalf)
  IN IF n < IntHalf /\ Len(s) > n THEN SubSeq(s, 1, n + 1) ELSE s

SearchTopNByKeyword(node, index, request) ==
  KeepTop(Ranked(Recalled(node, index, request)), request.topn)

-----------------------------------------------------------------------------
(* mergeResult *)

\* One turn of the three loops: the better front of the two lists, the second
\* list's on a tie, and what is left of either at the end.
MergeStep(a, b, m) ==
  IF m.i <= Len(a) /\ (m.j <= Len(b) => OutRanks(a[m.i], b[m.j]))
  THEN [m EXCEPT !.i = m.i + 1, !.results = InsertResult(m.results, a[m.i])]
  ELSE [m EXCEPT !.j = m.j + 1, !.results = InsertResult(m.results, b[m.j])]

MergeResult(a, b) ==
  LET merged[k \in 0..Len(a) + Len(b)] ==
        IF k = 0 THEN [i |-> 1, j |-> 1, results |-> <<>>]
        ELSE MergeStep(a, b, merged[k - 1])
  IN merged[Len(a) + Len(b)].results

-----------------------------------------------------------------------------
(* Billing in Search *)

\* std::round of x / y for positive integers.
Round(x, y) == (2 * x + y) \div (2 * y)

\* Mutant of Listed: the runner-up is answered too.
Bug_ListEverything(final, topn) == Len(final)

\* The number of ads answered.
Listed(final, topn) == IF Len(final) <= topn THEN Len(final) ELSE topn

\* Mutant of BillPrice: the next ad's own rate divides its score.
Bug_BillByNextRate(final, i) ==
  IF i < Len(final) THEN Round(final[i + 1].score, final[i + 1].ctr)
  ELSE final[i].price

\* An ad pays what keeps it ahead of the next one; without a next one, its bid.
BillPrice(final, i) ==
  IF i < Len(final) THEN Round(final[i + 1].score, final[i].ctr)
  ELSE final[i].price

Billed(final, topn) ==
  [i \in 1..Listed(final, topn) |->
     [adgroup_id |-> final[i].adgroup_id, price |-> BillPrice(final, i)]]
=============================================================================
