---------------------------- MODULE SearchHandoff ----------------------------
(***************************************************************************)
(* How node 0 hands node 1's share of a request to the handler waiting for *)
(* it.  SearchServiceImpl::Search allocates an AyncSearchResult, starts an *)
(* asynchronous InernalSearch call, searches its own shard and blocks in   *)
(* AyncSearchResult::wait.  The one background thread of                   *)
(* SearchServiceClient takes completed calls off the completion queue,     *)
(* stores the reply and calls Finish or Cancel.  The handler then merges   *)
(* the results and deletes the object.                                     *)
(*                                                                         *)
(* Each access to the shared object is a step of its own, because wait()   *)
(* reads the flags without the mutex and Finish() still unlocks and        *)
(* notifies after the flag is visible.  Memory is a set of slots the       *)
(* allocator hands out again after a delete, so a late access falls on     *)
(* free memory or on the object of a later request.                        *)
(***************************************************************************)
EXTENDS Naturals

CONSTANTS
  Requests,     \* Search requests, each with a handler thread of its own
  Slots,        \* memory slots an AyncSearchResult can be allocated in
  Losable,      \* requests whose call may never complete: no deadline is set
  MaxSpurious,  \* bound on spurious wakeups of the condition variable
  Nobody,       \* owner of a free slot, holder of a free mutex
  Bg,           \* the background thread, as holder of a mutex
  NoSlot        \* the searchResult pointer before the allocation

ASSUME HandoffAssumption ==
  /\ Losable \subseteq Requests
  /\ MaxSpurious \in Nat
  /\ {Nobody, Bg} \cap Requests = {}
  /\ Nobody # Bg
  /\ NoSlot \notin Slots

VARIABLES
  pc,         \* per request, where its handler stands in Search
  at,         \* per request, the slot its searchResult points to
  owner,      \* per slot, the request whose object lives there
  finish,     \* per slot, AyncSearchResult::finish
  faild,      \* per slot, AyncSearchResult::faild
  results,    \* per slot, whose replies were appended to results
  mu,         \* per slot, the holder of AyncSearchResult::mu
  call,       \* per request, the InernalSearch call
  cq,         \* completed calls the background thread has not taken yet
  bgpc,       \* where the background thread stands
  bgreq,      \* the request whose completed call it handles
  answer,     \* per request, the remote replies merged into its answer
  spurious,   \* spurious wakeups so far
  trampled    \* history: requests whose held mutex a late Finish released

vars == <<pc, at, owner, finish, faild, results, mu, call, cq, bgpc, bgreq,
          answer, spurious, trampled>>

object == <<owner, finish, faild, results>>
background == <<bgpc, bgreq>>
network == <<call, cq>>

Ready(a) == finish[a] \/ faild[a]
Sleepers(a) == {r \in Requests : pc[r] = "asleep" /\ at[r] = a}
Goto(r, l) == pc' = [pc EXCEPT ![r] = l]
Release(a) == mu' = [mu EXCEPT ![a] = Nobody]

Init ==
  /\ pc = [r \in Requests |-> "idle"]
  /\ at = [r \in Requests |-> NoSlot]
  /\ owner = [a \in Slots |-> Nobody]
  /\ finish = [a \in Slots |-> FALSE]
  /\ faild = [a \in Slots |-> FALSE]
  /\ results = [a \in Slots |-> {}]
  /\ mu = [a \in Slots |-> Nobody]
  /\ call = [r \in Requests |-> "none"]
  /\ cq = {}
  /\ bgpc = "next"
  /\ bgreq = Nobody
  /\ answer = [r \in Requests |-> {}]
  /\ spurious = 0
  /\ trampled = {}

-----------------------------------------------------------------------------
(* The handler thread of a request: SearchServiceImpl::Search *)

\* Mutant of Allocate: the object is reused without clearing results.
Bug_AllocateKeepsResults(r) ==
  /\ pc[r] = "idle"
  /\ \E a \in Slots :
       /\ owner[a] = Nobody
       /\ at' = [at EXCEPT ![r] = a]
       /\ owner' = [owner EXCEPT ![a] = r]
       /\ finish' = [finish EXCEPT ![a] = FALSE]
       /\ faild' = [faild EXCEPT ![a] = FALSE]
       /\ Release(a)
  /\ Goto(r, "send")
  /\ UNCHANGED <<results, network, background, answer, spurious, trampled>>

\* new AyncSearchResult(): any free slot, every member initialised.
Allocate(r) ==
  /\ pc[r] = "idle"
  /\ \E a \in Slots :
       /\ owner[a] = Nobody
       /\ at' = [at EXCEPT ![r] = a]
       /\ owner' = [owner EXCEPT ![a] = r]
       /\ finish' = [finish EXCEPT ![a] = FALSE]
       /\ faild' = [faild EXCEPT ![a] = FALSE]
       /\ results' = [results EXCEPT ![a] = {}]
       /\ Release(a)
  /\ Goto(r, "send")
  /\ UNCHANGED <<network, background, answer, spurious, trampled>>

\* Mutant of StartCall: the tag is queued when the call starts.
Bug_StartCallQueuesTag(r) ==
  /\ pc[r] = "send"
  /\ call' = [call EXCEPT ![r] = "pending"]
  /\ cq' = cq \cup {r}
  /\ Goto(r, "local")
  /\ UNCHANGED <<at, object, mu, background, answer, spurious, trampled>>

\* SearchServiceClient::Search, node 1 owns a keyword: the call is started.
StartCall(r) ==
  /\ pc[r] = "send"
  /\ call' = [call EXCEPT ![r] = "pending"]
  /\ Goto(r, "local")
  /\ UNCHANGED <<at, object, mu, cq, background, answer, spurious, trampled>>

\* SearchServiceClient::Search, no keyword for node 1: Finish() is called here,
\* where no other thread has a pointer to the object yet.
FinishLocally(r) ==
  /\ pc[r] = "send"
  /\ call' = [call EXCEPT ![r] = "local"]
  /\ finish' = [finish EXCEPT ![at[r]] = TRUE]
  /\ Goto(r, "local")
  /\ UNCHANGED <<at, owner, faild, results, mu, cq, background, answer,
                 spurious, trampled>>

\* searchTopNByKeyword on node 0's own shard, while the call is in flight.
SearchLocally(r) ==
  /\ pc[r] = "local"
  /\ Goto(r, "check")
  /\ UNCHANGED <<at, object, mu, network, background, answer, spurious, trampled>>

\* Mutant of CheckUnlocked: Search goes on without waiting for node 1.
Bug_CheckDoesNotWait(r) ==
  /\ pc[r] = "check"
  /\ Goto(r, "merge")
  /\ UNCHANGED <<at, object, mu, network, background, answer, spurious, trampled>>

\* wait(): the flags are read without the mutex.
CheckUnlocked(r) ==
  /\ pc[r] = "check"
  /\ Goto(r, IF Ready(at[r]) THEN "merge" ELSE "lock")
  /\ UNCHANGED <<at, object, mu, network, background, answer, spurious, trampled>>

\* Mutant of Lock: cv.wait without a predicate.
Bug_SleepWithoutTest(r) ==
  /\ pc[r] \in {"lock", "relock"}
  /\ mu[at[r]] = Nobody
  /\ mu' = [mu EXCEPT ![at[r]] = r]
  /\ Goto(r, IF pc[r] = "lock" THEN "sleep" ELSE "leave")
  /\ UNCHANGED <<at, object, network, background, answer, spurious, trampled>>

\* wait(): the unique_lock, and the reacquisition when cv.wait wakes up.
Lock(r) ==
  /\ pc[r] \in {"lock", "relock"}
  /\ mu[at[r]] = Nobody
  /\ mu' = [mu EXCEPT ![at[r]] = r]
  /\ Goto(r, "pred")
  /\ UNCHANGED <<at, object, network, background, answer, spurious, trampled>>

\* cv.wait evaluates its predicate, with the mutex held.
Predicate(r) ==
  /\ pc[r] = "pred"
  /\ Goto(r, IF Ready(at[r]) THEN "leave" ELSE "sleep")
  /\ UNCHANGED <<at, object, mu, network, background, answer, spurious, trampled>>

\* cv.wait enqueues the thread and releases the mutex, whoever holds it.
Sleep(r) ==
  /\ pc[r] = "sleep"
  /\ Release(at[r])
  /\ Goto(r, "asleep")
  /\ UNCHANGED <<at, object, network, background, answer, spurious, trampled>>

\* A condition variable may wake up without a notification.
WakeSpuriously(r) ==
  /\ pc[r] = "asleep"
  /\ spurious < MaxSpurious
  /\ spurious' = spurious + 1
  /\ Goto(r, "relock")
  /\ UNCHANGED <<at, object, mu, network, background, answer, trampled>>

\* wait(): the test after cv.wait; the mutex is released on both ways out.
Leave(r) ==
  /\ pc[r] = "leave"
  /\ Release(at[r])
  /\ Goto(r, IF Ready(at[r]) THEN "merge" ELSE "check")
  /\ UNCHANGED <<at, object, network, background, answer, spurious, trampled>>

\* mergeResult reads searchResult->results, failed call or not.
Merge(r) ==
  /\ pc[r] = "merge"
  /\ answer' = [answer EXCEPT ![r] = results[at[r]]]
  /\ Goto(r, "free")
  /\ UNCHANGED <<at, object, mu, network, background, spurious, trampled>>

\* delete searchResult; the response is filled in and returned.
Delete(r) ==
  /\ pc[r] = "free"
  /\ owner' = [owner EXCEPT ![at[r]] = Nobody]
  /\ Goto(r, "done")
  /\ UNCHANGED <<at, finish, faild, results, mu, network, background, answer,
                 spurious, trampled>>

-----------------------------------------------------------------------------
(* gRPC and node 1: the call completes once, with a reply or an error *)

Complete(r) ==
  /\ call[r] = "pending"
  /\ \E s \in {"ok", "failed"} : call' = [call EXCEPT ![r] = s]
  /\ cq' = cq \cup {r}
  /\ UNCHANGED <<pc, at, object, mu, background, answer, spurious, trampled>>

\* Node 1 vanishes without closing the connection: with no deadline on the
\* call nothing ever completes it.
Lose(r) ==
  /\ r \in Losable
  /\ call[r] = "pending"
  /\ call' = [call EXCEPT ![r] = "lost"]
  /\ UNCHANGED <<pc, at, object, mu, cq, background, answer, spurious, trampled>>

-----------------------------------------------------------------------------
(* The background thread of SearchServiceClient: init() and HandleResponse *)

\* cq_.Next returns a completed call; an error status goes straight to Cancel.
BgNext(r) ==
  /\ bgpc = "next"
  /\ r \in cq
  /\ cq' = cq \ {r}
  /\ bgreq' = r
  /\ bgpc' = IF call[r] = "ok" THEN "fill" ELSE "lock"
  /\ UNCHANGED <<pc, at, object, mu, call, answer, spurious, trampled>>

\* Mutant of BgFill: the flag is raised with the results, before Finish().
Bug_FillFinishes ==
  /\ bgpc = "fill"
  /\ results' = [results EXCEPT ![at[bgreq]] = @ \cup {bgreq}]
  /\ finish' = [finish EXCEPT ![at[bgreq]] = TRUE]
  /\ bgpc' = "lock"
  /\ UNCHANGED <<pc, at, owner, faild, mu, network, bgreq, answer, spurious,
                 trampled>>

\* HandleResponse appends node 1's results, without the mutex.
BgFill ==
  /\ bgpc = "fill"
  /\ results' = [results EXCEPT ![at[bgreq]] = @ \cup {bgreq}]
  /\ bgpc' = "lock"
  /\ UNCHANGED <<pc, at, owner, finish, faild, mu, network, bgreq, answer,
                 spurious, trampled>>

\* Finish() or Cancel(): lock, set the flag, unlock, notify.
BgLock ==
  /\ bgpc = "lock"
  /\ mu[at[bgreq]] = Nobody
  /\ mu' = [mu EXCEPT ![at[bgreq]] = Bg]
  /\ bgpc' = "set"
  /\ UNCHANGED <<pc, at, object, network, bgreq, answer, spurious, trampled>>

BgSet ==
  /\ bgpc = "set"
  /\ IF call[bgreq] = "ok"
     THEN finish' = [finish EXCEPT ![at[bgreq]] = TRUE] /\ UNCHANGED faild
     ELSE faild' = [faild EXCEPT ![at[bgreq]] = TRUE] /\ UNCHANGED finish
  /\ bgpc' = "unlock"
  /\ UNCHANGED <<pc, at, owner, results, mu, network, bgreq, answer, spurious,
                 trampled>>

\* A plain pthread mutex is released whoever holds it: when the handler has
\* already deleted the object, the unlock hits what now lives in its slot.
BgUnlock ==
  /\ bgpc = "unlock"
  /\ Release(at[bgreq])
  /\ trampled' = trampled \cup ({mu[at[bgreq]]} \cap Requests)
  /\ bgpc' = "notify"
  /\ UNCHANGED <<pc, at, object, network, bgreq, answer, spurious>>

\* Mutant of BgNotify: Cancel does not notify.
Bug_CancelDoesNotNotify ==
  /\ bgpc = "notify"
  /\ IF Sleepers(at[bgreq]) = {} \/ call[bgreq] = "failed"
     THEN UNCHANGED pc
     ELSE \E w \in Sleepers(at[bgreq]) : Goto(w, "relock")
  /\ bgpc' = "next"
  /\ bgreq' = Nobody
  /\ UNCHANGED <<at, object, mu, network, answer, spurious, trampled>>

\* notify_one wakes a thread asleep on the slot, if there is one; then the call
\* object is deleted.
BgNotify ==
  /\ bgpc = "notify"
  /\ IF Sleepers(at[bgreq]) = {}
     THEN UNCHANGED pc
     ELSE \E w \in Sleepers(at[bgreq]) : Goto(w, "relock")
  /\ bgpc' = "next"
  /\ bgreq' = Nobody
  /\ UNCHANGED <<at, object, mu, network, answer, spurious, trampled>>

-----------------------------------------------------------------------------
\* Everything the handler does once its request has arrived.
Handler(r) ==
  \/ StartCall(r) \/ FinishLocally(r) \/ SearchLocally(r)
  \/ CheckUnlocked(r) \/ Lock(r) \/ Predicate(r) \/ Sleep(r)
  \/ Leave(r) \/ Merge(r) \/ Delete(r)

Background ==
  \/ \E r \in Requests : BgNext(r)
  \/ BgFill \/ BgLock \/ BgSet \/ BgUnlock \/ BgNotify

Next ==
  \/ \E r \in Requests : Allocate(r)
  \/ \E r \in Requests : Handler(r)
  \/ \E r \in Requests : WakeSpuriously(r)
  \/ \E r \in Requests : Complete(r)
  \/ \E r \in Requests : Lose(r)
  \/ Background

Spec == Init /\ [][Next]_vars

\* Threads are scheduled; a call that is not lost completes, because a TCP
\* connection either delivers its data or is reported broken.
Fairness ==
  /\ \A r \in Requests : WF_vars(Handler(r))
  /\ \A r \in Requests : WF_vars(Complete(r))
  /\ WF_vars(Background)

FairSpec == Spec /\ Fairness

-----------------------------------------------------------------------------
(* Type invariant *)

Stages == {"idle", "send", "local", "check", "lock", "pred", "sleep", "asleep",
           "relock", "leave", "merge", "free", "done"}
CallStates == {"none", "pending", "lost", "local", "ok", "failed"}

\* Every variable has its type, a tag sits in the completion queue only once
\* its call is over, and the background thread has a call exactly when it is
\* not waiting in cq_.Next (search_service_client.h, init and Search).
TypeOK ==
  /\ pc \in [Requests -> Stages]
  /\ at \in [Requests -> Slots \cup {NoSlot}]
  /\ owner \in [Slots -> Requests \cup {Nobody}]
  /\ finish \in [Slots -> BOOLEAN]
  /\ faild \in [Slots -> BOOLEAN]
  /\ results \in [Slots -> SUBSET Requests]
  /\ mu \in [Slots -> Requests \cup {Bg, Nobody}]
  /\ call \in [Requests -> CallStates]
  /\ cq \in SUBSET {r \in Requests : call[r] \in {"ok", "failed"}}
  /\ bgpc \in {"next", "fill", "lock", "set", "unlock", "notify"}
  /\ bgreq \in Requests \cup {Nobody}
  /\ bgpc = "next" <=> bgreq = Nobody
  /\ answer \in [Requests -> SUBSET Requests]
  /\ spurious \in 0..MaxSpurious
  /\ trampled \in SUBSET Requests

-----------------------------------------------------------------------------
(* Safety *)

Alive == Stages \ {"idle", "done"}
Waiting == {"local", "check", "lock", "pred", "sleep", "asleep", "relock"}

\* A request is answered with the reply of its own call and no other, and a
\* failed call contributes nothing, however slots are reused and wakeups are
\* interleaved (Search reads searchResult->results after wait()).
OwnReplyMerged ==
  \A r \in Requests : pc[r] \in {"free", "done"} =>
    answer[r] = IF call[r] = "ok" THEN {r} ELSE {}

\* HandleResponse and Finish/Cancel write results and flags only into the live
\* object of the call they handle: wait() keeps the object until the flag is
\* set, which is their last write.
WritesReachOwnObject ==
  bgpc \in {"fill", "lock", "set"} =>
    pc[bgreq] \in Alive /\ owner[at[bgreq]] = bgreq

\* No wakeup is lost: a handler asleep in cv.wait although its flag is set is
\* about to be notified, unless the late unlock of a deleted object released
\* its mutex between its predicate and its sleep.
StrandedOnlyIfTrampled ==
  \A r \in Requests \ trampled : pc[r] = "asleep" /\ Ready(at[r]) =>
    bgreq = r /\ bgpc \in {"unlock", "notify"}

-----------------------------------------------------------------------------
(* The inductive invariant behind the three properties above *)

\* A live handler owns the slot its pointer names; the pointer dangles after.
OwnershipInv ==
  \A r \in Requests :
    /\ pc[r] # "idle" => at[r] \in Slots
    /\ pc[r] \in Alive => owner[at[r]] = r

\* The call of r has not set r's flag yet.
Undelivered(r) ==
  \/ call[r] \in {"pending", "lost"}
  \/ r \in cq
  \/ bgreq = r /\ bgpc \in {"fill", "lock", "set"}

DeliveryInv ==
  \A r \in Requests :
    /\ call[r] = "none" <=> pc[r] \in {"idle", "send"}
    /\ pc[r] = "send" => ~Ready(at[r])
    /\ Undelivered(r) => pc[r] \in Waiting /\ ~Ready(at[r])
    /\ pc[r] \in {"leave", "merge"} => Ready(at[r])
    /\ bgreq = r => call[r] \in {"ok", "failed"} /\ r \notin cq
    /\ bgreq = r /\ bgpc = "fill" => call[r] = "ok"

Stored(r) == call[r] = "ok" /\ r \notin cq /\ ~(bgreq = r /\ bgpc = "fill")

ResultsInv ==
  \A r \in Requests :
    /\ pc[r] \in Alive => results[at[r]] = IF Stored(r) THEN {r} ELSE {}
    /\ pc[r] \notin {"free", "done"} => answer[r] = {}
    /\ pc[r] \in {"free", "done"} => ~Undelivered(r)

\* Mutual exclusion, for as long as no late unlock broke it.
MutexInv ==
  \A r \in Requests \ trampled :
    /\ pc[r] \in {"pred", "sleep", "leave"} => mu[at[r]] = r
    /\ bgreq = r /\ bgpc = "set" => mu[at[r]] = Bg
    /\ pc[r] = "sleep" => ~Ready(at[r])

IInv ==
  /\ TypeOK
  /\ OwnershipInv
  /\ DeliveryInv
  /\ ResultsInv
  /\ OwnReplyMerged
  /\ MutexInv
  /\ StrandedOnlyIfTrampled

-----------------------------------------------------------------------------
(* Liveness and refinement *)

\* Every request that arrived is answered, whether its call succeeds or fails
\* (Finish and Cancel both end wait()), with two exceptions the code allows:
\* its call is lost, as no deadline is set, or its mutex was trampled.
AnsweredUnlessLostOrTrampled ==
  \A r \in Requests :
    pc[r] # "idle" ~> pc[r] = "done" \/ call[r] = "lost" \/ r \in trampled

\* Without lost calls "wait node1 relpy" should end for every request.
EveryRequestAnswered == \A r \in Requests : pc[r] # "idle" ~> pc[r] = "done"

Promise == INSTANCE SearchPromise WITH
  remote <- [r \in Requests |-> IF call[r] = "lost" THEN "pending" ELSE call[r]],
  answered <- {r \in Requests : pc[r] \in {"free", "done"}}

\* The hand-off keeps the promise of SearchPromise: an answer comes after its
\* own share is settled and contains that share and nothing else.
PromiseKept == Promise!Spec
=============================================================================
