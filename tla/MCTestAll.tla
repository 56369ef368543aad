------------------------------ MODULE MCTestAll ------------------------------
EXTENDS TestAll

MCRates == 1..10
MCCapacities == 0..11

Lists == UNION {[1..k -> {1, 2}] : k \in 0..3}
Prices == {<<>>, <<1>>, <<2, 1>>, <<1, 2, 1>>}
Responses == {[ids |-> i, prices |-> p] : i \in Lists, p \in Prices}
References == {r \in Responses : r.ids # <<>>}
Right == [ids |-> <<1, 2>>, prices |-> <<1, 1>>]

Searches(baselines, uppers, steps0, steps1, capacities) ==
  baselines \X uppers \X steps0 \X steps1 \X capacities \X {TRUE}
    \cup baselines \X uppers \X steps0 \X steps1 \X {0} \X {FALSE}

Inputs(searches, resps, refs, empty, numbers, clients, samples, rates) ==
  [search : searches, resp : resps, ref : refs, emptyRef : empty, cases : numbers,
   threads : clients, sample_num : samples, accurate : rates]

\* The search with many configurations, the scores with many answers, the
\* rest with few of both, and with a reference without ads.
MCSetups ==
  Inputs(Searches({1, 3, 5}, {2, 8}, {2, 3, 4}, {1, 2, 3}, 0..9),
         {Right}, {Right}, {FALSE}, {5}, {2}, {4}, {4, 11})
    \cup Inputs(Searches({1}, {1}, {1}, {1}, {0}), Responses, References, {FALSE}, {5}, {2}, {4}, {0})
    \cup Inputs(Searches({1, 3}, {5}, {2}, {1}, {2, 5}),
                {Right}, {Right}, {FALSE}, {1, 4, 7}, 0..2, {1, 3}, {2, 11})
    \cup Inputs(Searches({1, 3}, {5}, {2}, {1}, {2, 5}), {Right}, {Right}, {TRUE}, {4}, {2}, {3}, {2})
=============================================================================
