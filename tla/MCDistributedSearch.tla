------------------------- MODULE MCDistributedSearch -------------------------
(* Instances of DistributedSearch: small tables of ads, few requests. *)
EXTENDS DistributedSearch

\* Prices and rates: equal scores at different prices and a far worse one; bids of
\* nothing.  Hour 1 matches every request.
Offered == {<<2, 3>>, <<3, 2>>, <<1, 2>>}
Unpaid == {<<0, 2>>, <<0, 3>>, <<1, 2>>}

RowsFor(ads, offered) ==
  {[adgroup_id |-> a, price |-> o[1], ctr |-> o[2], timings |-> {1}] :
     <<a, o>> \in ads \X offered}
  \cup {[adgroup_id |-> 1, price |-> 9, ctr |-> 1, timings |-> {2}]}

\* The range of a keyword: up to n rows, in one order each.
Ranges(rows, n) == {SetToSeq(S) : S \in UNION {kSubset(k, rows) : k \in 0..n}}

\* Keywords 0 and 2 belong to node 0, keyword 1 to node 1.
IndexPairs(rows, n0, n1, n2) ==
  {[node \in {0, 1} |-> IF node = 0 THEN (0 :> k0) @@ (2 :> k2) ELSE 1 :> k1] :
     k0 \in Ranges(rows, n0), k1 \in Ranges(rows, n1), k2 \in Ranges(rows, n2)}

Ask(keywords, topn) == [keywords |-> keywords, hour |-> 1, topn |-> topn]

\* Three ads under keyword 1: node 1 cuts its list when one ad is asked for.
CutIndexes == IndexPairs(RowsFor(1..3, Offered), 2, 3, 0)
CutRequests == {Ask(<<0, 1>>, 1), Ask(<<1>>, 1)}

\* Two keywords of node 0 and one of node 1 share ads; a topn of 5 is negative as
\* an int of three bits.
SharedIndexes == IndexPairs(RowsFor(1..2, Offered), 1, 2, 1)
SharedRequests ==
  {Ask(ks, n) : ks \in {<<0, 1, 2>>, <<2, 1, 1, 0>>, <<0>>}, n \in {0, 1, 2, 5}}

\* Ads that tie at a score of zero with different rates.
UnpaidIndexes == IndexPairs(RowsFor(1..2, Unpaid), 1, 2, 1)
UnpaidRequests == {Ask(<<0, 1, 2>>, n) : n \in {1, 2}}

SearchInputs == (CutIndexes \X CutRequests) \cup (SharedIndexes \X SharedRequests)
                  \cup (UnpaidIndexes \X UnpaidRequests)

\* A keyword without ads.
EmptyIndexes == IndexPairs(RowsFor(1..1, Offered), 0, 0, 0)
EmptyInputs == EmptyIndexes \X {Ask(<<0>>, 1)}
=============================================================================
