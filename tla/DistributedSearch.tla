-------------------------- MODULE DistributedSearch --------------------------
(***************************************************************************)
(* One Search request across the two nodes.  Node 0 sends node 1 the       *)
(* keywords node 1 owns, both search their own index, and node 0 merges    *)
(* the two ranked lists and bills the ads (SearchServiceImpl::Search,      *)
(* SearchServiceClient::Search, InernalSearch).  The question is whether   *)
(* the distributed answer is the one a single node holding every row would *)
(* give, although each node sees and cuts off only its own list.           *)
(*                                                                         *)
(* How the reply reaches the waiting handler is modelled in SearchHandoff. *)
(***************************************************************************)
EXTENDS Ranking

CONSTANT Inputs  \* the indexes the nodes may have loaded, each with a request

\* A row of an index: what searchTopNByKeyword reads of it.
Rows == [adgroup_id : Nat, price : Nat, ctr : Nat \ {0}, timings : SUBSET Nat]

ASSUME SearchAssumption ==
  \A input \in Inputs :
    /\ \A node \in {0, 1} : \A k \in DOMAIN input[1][node] :
         input[1][node][k] \in Seq(Rows)
    /\ input[2] \in [keywords : Seq(Nat), hour : Nat, topn : Nat]

VARIABLES
  index,        \* per node, the rows of each keyword it indexes
  request,      \* the request being answered
  stage,        \* where node 0 stands in Search
  call,         \* the InernalSearch call to node 1
  remoteReq,    \* the request sent to node 1
  local,        \* node 0's own ranked list
  reply,        \* node 1's ranked list, as received
  final,        \* the merged list
  response      \* the ads and prices returned to the caller

vars == <<index, request, stage, call, remoteReq, local, reply, final, response>>

NoRequest == [keywords |-> <<>>, hour |-> 0, topn |-> 0]

Init ==
  /\ \E input \in Inputs : index = input[1] /\ request = input[2]
  /\ stage = "arrived"
  /\ call = "none"
  /\ remoteReq = NoRequest
  /\ local = <<>>
  /\ reply = <<>>
  /\ final = <<>>
  /\ response = <<>>

\* The keywords node 1 owns.
Remote(keywords) ==
  FoldLeft(LAMBDA ks, k : IF k % NodeNum = 1 THEN Append(ks, k) ELSE ks,
           <<>>, keywords)

\* SearchServiceClient::Search: node 1 is asked if it owns a keyword.
Split ==
  /\ stage = "arrived"
  /\ LET remote == Remote(request.keywords)
     IN IF remote = <<>>
        THEN call' = "local" /\ UNCHANGED remoteReq
        ELSE call' = "pending" /\ remoteReq' = [request EXCEPT !.keywords = remote]
  /\ stage' = "searching"
  /\ UNCHANGED <<index, request, local, reply, final, response>>

\* Node 0's own search, with the whole request.
SearchLocally ==
  /\ stage = "searching"
  /\ local' = SearchTopNByKeyword(0, index[0], request)
  /\ stage' = "waiting"
  /\ UNCHANGED <<index, request, call, remoteReq, reply, final, response>>

\* InernalSearch on node 1, and HandleResponse on node 0.
InernalSearch ==
  /\ call = "pending"
  /\ reply' = SearchTopNByKeyword(1, index[1], remoteReq)
  /\ call' = "ok"
  /\ UNCHANGED <<index, request, stage, remoteReq, local, final, response>>

\* The call fails: Cancel() leaves the remote results empty.
CallFails ==
  /\ call = "pending"
  /\ call' = "failed"
  /\ UNCHANGED <<index, request, stage, remoteReq, local, reply, final, response>>

\* After wait(), whatever ended it.
Merge ==
  /\ stage = "waiting"
  /\ call \in {"local", "ok", "failed"}
  /\ final' = MergeResult(local, reply)
  /\ stage' = "merged"
  /\ UNCHANGED <<index, request, call, remoteReq, local, reply, response>>

\* Billing and filling in the response, with at least one ad to list.
Bill ==
  /\ stage = "merged"
  /\ Listed(final, request.topn) > 0
  /\ response' = Billed(final, request.topn)
  /\ stage' = "answered"
  /\ UNCHANGED <<index, request, call, remoteReq, local, reply, final>>

\* With none, final_results[n-1] lies before the vector's buffer: an empty
\* vector has no buffer and the write faults; with topn = 0 the write lands in
\* front of a live buffer, which may go unnoticed.
BillNothing ==
  /\ stage = "merged"
  /\ Listed(final, request.topn) = 0
  /\ \/ stage' = "crashed"
     \/ final # <<>> /\ stage' = "answered"
  /\ UNCHANGED <<index, request, call, remoteReq, local, reply, final, response>>

Next == Split \/ SearchLocally \/ InernalSearch \/ CallFails \/ Merge
          \/ Bill \/ BillNothing

Spec == Init /\ [][Next]_vars

-----------------------------------------------------------------------------
Results == [adgroup_id : Nat, price : Nat, ctr : Nat \ {0}, score : Nat]

\* The steps of Search come in order, a list asked for with a positive topn is
\* cut to topn + 1, and only a completed call leaves a reply.
TypeOK ==
  /\ stage \in {"arrived", "searching", "waiting", "merged", "answered", "crashed"}
  /\ call \in {"none", "local", "pending", "ok", "failed"}
  /\ call = "none" <=> stage = "arrived"
  /\ remoteReq # NoRequest <=> call \in {"pending", "ok", "failed"}
  /\ local \in Seq(Results) /\ reply \in Seq(Results) /\ final \in Seq(Results)
  /\ response \in Seq([adgroup_id : Nat, price : Nat])
  /\ request.topn < IntHalf =>
       Len(local) <= request.topn + 1 /\ Len(reply) <= request.topn + 1
  /\ reply # <<>> => call = "ok"
  /\ Len(response) <= request.topn

-----------------------------------------------------------------------------
(* The reference: one node that holds every row of the answering nodes *)

Answering == IF call = "ok" THEN {0, 1} ELSE {0}

\* The rows a node holds under the keywords of the request, and every offer
\* among them that matches the hour, as scored results.
RowsAsked(node) ==
  UNION {ToSet(index[node][k]) :
           k \in {k \in ToSet(request.keywords) : Recalls(node, index[node], k)}}

OffersOf(node) ==
  {Scored(row) : row \in {r \in RowsAsked(node) : request.hour \in r.timings}}

Offers == UNION {OffersOf(node) : node \in Answering}

\* The best offers of each ad: no other offer of the ad replaces them.
BestOf(offers) ==
  {o \in offers : ~ \E p \in offers : p.adgroup_id = o.adgroup_id /\ Replaces(p, o)}

Ads(offers) == {o.adgroup_id : o \in offers}

\* How many ads are ranked before o.
Ahead(o, best) == Cardinality(Ads({p \in best : OutRanks(p, o)}))

\* The price of an offer: that of the offer ranked right behind it.
ReferencePrice(o, best) ==
  LET behind == {p \in best : Ahead(p, best) = Ahead(o, best) + 1}
  IN IF behind = {} THEN o.price
     ELSE LET next == CHOOSE p \in behind : TRUE IN Round(next.score, o.ctr)

\* The distributed answer is the centralised one: the topn best offers of
\* distinct ads in order, each at the price its follower sets, although
\* searchTopNByKeyword cuts each node's list before mergeResult sees it.
AnswerIsCentralised ==
  stage = "answered" =>
    LET best == BestOf(Offers)
        found == Cardinality(Ads(best))
    IN /\ Len(response) = IF found <= request.topn THEN found ELSE request.topn
       /\ \A o \in best : Ahead(o, best) < request.topn =>
            response[Ahead(o, best) + 1] =
              [adgroup_id |-> o.adgroup_id, price |-> ReferencePrice(o, best)]

\* No ad is billed more than it bids for a keyword of the request.
BillWithinBid ==
  \A i \in DOMAIN response :
    \E o \in Offers : /\ o.adgroup_id = response[i].adgroup_id
                      /\ response[i].price <= o.price

\* Search crashes only when it has nothing to list.
CrashOnlyWithoutAds ==
  stage = "crashed" => Offers = {} \/ request.topn = 0

\* A request is answered with all matching ads when there are fewer than topn,
\* none included (alimama.proto on topn).
ReturnsAllMatching ==
  stage \in {"answered", "crashed"} =>
    /\ stage = "answered"
    /\ LET found == Cardinality(Ads(BestOf(Offers)))
       IN found <= request.topn => Len(response) = found
=============================================================================
