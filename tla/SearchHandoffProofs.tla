------------------------- MODULE SearchHandoffProofs -------------------------
(***************************************************************************)
(* Proofs about SearchHandoff, for any number of requests, slots, lost     *)
(* calls and spurious wakeups.  IInv is inductive: one lemma per action,   *)
(* with one step per conjunct.  The argument that carries it: a live       *)
(* handler owns its slot (OwnershipInv), a call that has not raised its    *)
(* flag has its handler in wait() or before (DeliveryInv), so every write  *)
(* of the background thread before the flag finds the object alive; and an *)
(* unlock that comes too late is recorded in trampled (MutexInv).          *)
(***************************************************************************)
EXTENDS SearchHandoff, TLAPS

USE DEF object, background, network, Goto, Release, Ready

-----------------------------------------------------------------------------
(* Every step preserves the inductive invariant *)

\* The slot is free, so no live handler points to it.
LEMMA AllocateStep ==
  ASSUME IInv, NEW r \in Requests, Allocate(r)
  PROVE  IInv'
<1> USE HandoffAssumption DEF IInv, TypeOK, Allocate
<1>1. TypeOK'
  BY DEF Stages
<1>2. OwnershipInv'
  BY DEF OwnershipInv, Alive
<1>3. DeliveryInv'
  BY DEF DeliveryInv, Undelivered, Waiting, OwnershipInv, Alive, Stages
<1>4. ResultsInv'
  BY DEF ResultsInv, Stored, Undelivered, Alive, DeliveryInv, OwnershipInv,
          Waiting, Stages
<1>5. OwnReplyMerged'
  BY DEF OwnReplyMerged
<1>6. MutexInv'
  BY DEF MutexInv, OwnershipInv, Alive, Stages, DeliveryInv, Undelivered,
          Waiting
<1>7. StrandedOnlyIfTrampled'
  BY DEF StrandedOnlyIfTrampled
<1> QED BY <1>1, <1>2, <1>3, <1>4, <1>5, <1>6, <1>7

\* The call becomes pending while the flags are still down.
LEMMA StartCallStep ==
  ASSUME IInv, NEW r \in Requests, StartCall(r)
  PROVE  IInv'
<1> USE HandoffAssumption DEF IInv, TypeOK, StartCall
<1>1. TypeOK'
  BY DEF Stages, CallStates, OwnershipInv, Alive, Sleepers, DeliveryInv
<1>2. OwnershipInv'
  BY DEF OwnershipInv, Alive
<1>3. DeliveryInv'
  BY DEF DeliveryInv, Undelivered, Waiting
<1>4. ResultsInv'
  BY DEF ResultsInv, Stored, Undelivered, Alive, DeliveryInv
<1>5. OwnReplyMerged'
  BY DEF OwnReplyMerged
<1>6. MutexInv'
  BY DEF MutexInv
<1>7. StrandedOnlyIfTrampled'
  BY DEF StrandedOnlyIfTrampled
<1> QED BY <1>1, <1>2, <1>3, <1>4, <1>5, <1>6, <1>7

\* Only the handler's own object is written.
LEMMA FinishLocallyStep ==
  ASSUME IInv, NEW r \in Requests, FinishLocally(r)
  PROVE  IInv'
<1> USE HandoffAssumption DEF IInv, TypeOK, FinishLocally
<1>1. TypeOK'
  BY DEF Stages, CallStates, OwnershipInv, Alive, Sleepers, DeliveryInv
<1>2. OwnershipInv'
  BY DEF OwnershipInv, Alive
<1>3. DeliveryInv'
  BY DEF DeliveryInv, Undelivered, Waiting, OwnershipInv, Alive, Stages
<1>4. ResultsInv'
  BY DEF ResultsInv, Stored, Undelivered, Alive, DeliveryInv
<1>5. OwnReplyMerged'
  BY DEF OwnReplyMerged
<1>6. MutexInv'
  BY DEF MutexInv, OwnershipInv, Alive, Stages
<1>7. StrandedOnlyIfTrampled'
  BY DEF StrandedOnlyIfTrampled, OwnershipInv, Alive, Stages
<1> QED BY <1>1, <1>2, <1>3, <1>4, <1>5, <1>6, <1>7

\* Only the handler moves.
LEMMA SearchLocallyStep ==
  ASSUME IInv, NEW r \in Requests, SearchLocally(r)
  PROVE  IInv'
<1> USE HandoffAssumption DEF IInv, TypeOK, SearchLocally
<1>1. TypeOK'
  BY DEF Stages
<1>2. OwnershipInv'
  BY DEF OwnershipInv, Alive
<1>3. DeliveryInv'
  BY DEF DeliveryInv, Undelivered, Waiting
<1>4. ResultsInv'
  BY DEF ResultsInv, Stored, Undelivered, Alive, DeliveryInv
<1>5. OwnReplyMerged'
  BY DEF OwnReplyMerged
<1>6. MutexInv'
  BY DEF MutexInv
<1>7. StrandedOnlyIfTrampled'
  BY DEF StrandedOnlyIfTrampled
<1> QED BY <1>1, <1>2, <1>3, <1>4, <1>5, <1>6, <1>7

\* A flag seen without the mutex is never taken back.
LEMMA CheckUnlockedStep ==
  ASSUME IInv, NEW r \in Requests, CheckUnlocked(r)
  PROVE  IInv'
<1> USE HandoffAssumption DEF IInv, TypeOK, CheckUnlocked
<1>1. TypeOK'
  BY DEF Stages
<1>2. OwnershipInv'
  BY DEF OwnershipInv, Alive
<1>3. DeliveryInv'
  BY DEF DeliveryInv, Undelivered, Waiting
<1>4. ResultsInv'
  BY DEF ResultsInv, Stored, Undelivered, Alive, DeliveryInv
<1>5. OwnReplyMerged'
  BY DEF OwnReplyMerged
<1>6. MutexInv'
  BY DEF MutexInv
<1>7. StrandedOnlyIfTrampled'
  BY DEF StrandedOnlyIfTrampled
<1> QED BY <1>1, <1>2, <1>3, <1>4, <1>5, <1>6, <1>7

\* The handler takes the mutex of its own object.
LEMMA LockStep ==
  ASSUME IInv, NEW r \in Requests, Lock(r)
  PROVE  IInv'
<1> USE HandoffAssumption DEF IInv, TypeOK, Lock
<1>1. TypeOK'
  BY DEF Stages
<1>2. OwnershipInv'
  BY DEF OwnershipInv, Alive
<1>3. DeliveryInv'
  BY DEF DeliveryInv, Undelivered, Waiting
<1>4. ResultsInv'
  BY DEF ResultsInv, Stored, Undelivered, Alive, DeliveryInv
<1>5. OwnReplyMerged'
  BY DEF OwnReplyMerged
<1>6. MutexInv'
  BY DEF MutexInv, OwnershipInv, Alive, Stages
<1>7. StrandedOnlyIfTrampled'
  BY DEF StrandedOnlyIfTrampled
<1> QED BY <1>1, <1>2, <1>3, <1>4, <1>5, <1>6, <1>7

\* With the mutex held a lowered flag stays down until the handler sleeps.
LEMMA PredicateStep ==
  ASSUME IInv, NEW r \in Requests, Predicate(r)
  PROVE  IInv'
<1> USE HandoffAssumption DEF IInv, TypeOK, Predicate
<1>1. TypeOK'
  BY DEF Stages
<1>2. OwnershipInv'
  BY DEF OwnershipInv, Alive
<1>3. DeliveryInv'
  BY DEF DeliveryInv, Undelivered, Waiting
<1>4. ResultsInv'
  BY DEF ResultsInv, Stored, Undelivered, Alive, DeliveryInv
<1>5. OwnReplyMerged'
  BY DEF OwnReplyMerged
<1>6. MutexInv'
  BY DEF MutexInv
<1>7. StrandedOnlyIfTrampled'
  BY DEF StrandedOnlyIfTrampled
<1> QED BY <1>1, <1>2, <1>3, <1>4, <1>5, <1>6, <1>7

\* The mutex released is the one of the handler's own slot.
LEMMA SleepStep ==
  ASSUME IInv, NEW r \in Requests, Sleep(r)
  PROVE  IInv'
<1> USE HandoffAssumption DEF IInv, TypeOK, Sleep
<1>1. TypeOK'
  BY DEF Stages
<1>2. OwnershipInv'
  BY DEF OwnershipInv, Alive
<1>3. DeliveryInv'
  BY DEF DeliveryInv, Undelivered, Waiting
<1>4. ResultsInv'
  BY DEF ResultsInv, Stored, Undelivered, Alive, DeliveryInv
<1>5. OwnReplyMerged'
  BY DEF OwnReplyMerged
<1>6. MutexInv'
  BY DEF MutexInv, OwnershipInv, Alive, Stages, DeliveryInv, Undelivered,
          Waiting
<1>7. StrandedOnlyIfTrampled'
  BY DEF StrandedOnlyIfTrampled, OwnershipInv, Alive, Stages, DeliveryInv,
          Undelivered, Waiting, MutexInv, Sleepers
<1> QED BY <1>1, <1>2, <1>3, <1>4, <1>5, <1>6, <1>7

\* A woken handler locks and tests again.
LEMMA WakeSpuriouslyStep ==
  ASSUME IInv, NEW r \in Requests, WakeSpuriously(r)
  PROVE  IInv'
<1> USE HandoffAssumption DEF IInv, TypeOK, WakeSpuriously
<1>1. TypeOK'
  BY DEF Stages
<1>2. OwnershipInv'
  BY DEF OwnershipInv, Alive
<1>3. DeliveryInv'
  BY DEF DeliveryInv, Undelivered, Waiting
<1>4. ResultsInv'
  BY DEF ResultsInv, Stored, Undelivered, Alive, DeliveryInv
<1>5. OwnReplyMerged'
  BY DEF OwnReplyMerged
<1>6. MutexInv'
  BY DEF MutexInv
<1>7. StrandedOnlyIfTrampled'
  BY DEF StrandedOnlyIfTrampled
<1> QED BY <1>1, <1>2, <1>3, <1>4, <1>5, <1>6, <1>7

\* The flag that ended cv.wait is still up.
LEMMA LeaveStep ==
  ASSUME IInv, NEW r \in Requests, Leave(r)
  PROVE  IInv'
<1> USE HandoffAssumption DEF IInv, TypeOK, Leave
<1>1. TypeOK'
  BY DEF Stages
<1>2. OwnershipInv'
  BY DEF OwnershipInv, Alive
<1>3. DeliveryInv'
  BY DEF DeliveryInv, Undelivered
<1>4. ResultsInv'
  BY DEF ResultsInv, Stored, Undelivered, Alive, DeliveryInv
<1>5. OwnReplyMerged'
  BY DEF OwnReplyMerged
<1>6. MutexInv'
  BY DEF MutexInv, OwnershipInv, Alive, Stages, DeliveryInv, Undelivered,
          Waiting
<1>7. StrandedOnlyIfTrampled'
  BY DEF StrandedOnlyIfTrampled
<1> QED BY <1>1, <1>2, <1>3, <1>4, <1>5, <1>6, <1>7

\* The reply, if any, is stored by the time the flag is up.
LEMMA MergeStep ==
  ASSUME IInv, NEW r \in Requests, Merge(r)
  PROVE  IInv'
<1> USE HandoffAssumption DEF IInv, TypeOK, Merge
<1>1. TypeOK'
  BY DEF Stages, CallStates, OwnershipInv, Alive
<1>2. OwnershipInv'
  BY DEF OwnershipInv, Alive
<1>3. DeliveryInv'
  BY DEF DeliveryInv, Undelivered
<1>4. ResultsInv'
  BY DEF ResultsInv, Stored, Undelivered, Alive, DeliveryInv
<1>5. OwnReplyMerged'
  BY DEF OwnReplyMerged, ResultsInv, Stored, Undelivered, Alive, DeliveryInv,
          Waiting
<1>6. MutexInv'
  BY DEF MutexInv
<1>7. StrandedOnlyIfTrampled'
  BY DEF StrandedOnlyIfTrampled
<1> QED BY <1>1, <1>2, <1>3, <1>4, <1>5, <1>6, <1>7

\* The slot is freed, its request's call is over.
LEMMA DeleteStep ==
  ASSUME IInv, NEW r \in Requests, Delete(r)
  PROVE  IInv'
<1> USE HandoffAssumption DEF IInv, TypeOK, Delete
<1>1. TypeOK'
  BY DEF Stages
<1>2. OwnershipInv'
  BY DEF OwnershipInv, Alive
<1>3. DeliveryInv'
  BY DEF DeliveryInv, Undelivered, Waiting
<1>4. ResultsInv'
  BY DEF ResultsInv, Stored, Undelivered, Alive, DeliveryInv
<1>5. OwnReplyMerged'
  BY DEF OwnReplyMerged
<1>6. MutexInv'
  BY DEF MutexInv
<1>7. StrandedOnlyIfTrampled'
  BY DEF StrandedOnlyIfTrampled
<1> QED BY <1>1, <1>2, <1>3, <1>4, <1>5, <1>6, <1>7

\* A completed call enters the queue once.
LEMMA CompleteStep ==
  ASSUME IInv, NEW r \in Requests, Complete(r)
  PROVE  IInv'
<1> USE HandoffAssumption DEF IInv, TypeOK, Complete
<1>1. TypeOK'
  BY DEF Stages, CallStates
<1>2. OwnershipInv'
  BY DEF OwnershipInv, Alive
<1>3. DeliveryInv'
  BY DEF DeliveryInv, Undelivered
<1>4. ResultsInv'
  BY DEF ResultsInv, Stored, Undelivered
<1>5. OwnReplyMerged'
  BY DEF OwnReplyMerged, ResultsInv, Stored, Undelivered, Alive, DeliveryInv,
          Waiting
<1>6. MutexInv'
  BY DEF MutexInv
<1>7. StrandedOnlyIfTrampled'
  BY DEF StrandedOnlyIfTrampled
<1> QED BY <1>1, <1>2, <1>3, <1>4, <1>5, <1>6, <1>7

\* A lost call stays undelivered.
LEMMA LoseStep ==
  ASSUME IInv, NEW r \in Requests, Lose(r)
  PROVE  IInv'
<1> USE HandoffAssumption DEF IInv, TypeOK, Lose
<1>1. TypeOK'
  BY DEF Stages, CallStates
<1>2. OwnershipInv'
  BY DEF OwnershipInv, Alive
<1>3. DeliveryInv'
  BY DEF DeliveryInv, Undelivered
<1>4. ResultsInv'
  BY DEF ResultsInv, Stored, Undelivered
<1>5. OwnReplyMerged'
  BY DEF OwnReplyMerged
<1>6. MutexInv'
  BY DEF MutexInv
<1>7. StrandedOnlyIfTrampled'
  BY DEF StrandedOnlyIfTrampled
<1> QED BY <1>1, <1>2, <1>3, <1>4, <1>5, <1>6, <1>7

\* The call leaves the queue and is handled.
LEMMA BgNextStep ==
  ASSUME IInv, NEW r \in Requests, BgNext(r)
  PROVE  IInv'
<1> USE HandoffAssumption DEF IInv, TypeOK, BgNext
<1>1. TypeOK'
  BY DEF Stages
<1>2. OwnershipInv'
  BY DEF OwnershipInv, Alive
<1>3. DeliveryInv'
  BY DEF DeliveryInv, Undelivered
<1>4. ResultsInv'
  BY DEF ResultsInv, Stored, Undelivered
<1>5. OwnReplyMerged'
  BY DEF OwnReplyMerged
<1>6. MutexInv'
  BY DEF MutexInv
<1>7. StrandedOnlyIfTrampled'
  BY DEF StrandedOnlyIfTrampled
<1> QED BY <1>1, <1>2, <1>3, <1>4, <1>5, <1>6, <1>7

\* The slot is still the object of the handled call, and its results were
\* empty.
LEMMA BgFillStep ==
  ASSUME IInv, BgFill
  PROVE  IInv'
<1> USE HandoffAssumption DEF IInv, TypeOK, BgFill
<1>1. TypeOK'
  BY DEF Stages, CallStates
<1>2. OwnershipInv'
  BY DEF OwnershipInv, Alive
<1>3. DeliveryInv'
  BY DEF DeliveryInv, Undelivered
<1>4. ResultsInv'
  <2>1. bgreq \in Requests /\ Undelivered(bgreq) /\ ~Stored(bgreq) /\ call[bgreq] = "ok"
    BY DEF DeliveryInv, Undelivered, Stored
  <2>2. pc[bgreq] \in Waiting /\ at[bgreq] \in Slots /\ owner[at[bgreq]] = bgreq
    BY <2>1 DEF DeliveryInv, OwnershipInv, Waiting, Alive, Stages
  <2>3. results[at[bgreq]] = {}
    BY <2>1, <2>2 DEF ResultsInv, Waiting, Alive, Stages
  <2>4. results'[at[bgreq]] = {bgreq}
    BY <2>2, <2>3
  <2>5. ASSUME NEW q \in Requests, pc[q] \in Alive
        PROVE  results'[at[q]] = IF Stored(q)' THEN {q} ELSE {}
    <3>1. CASE q = bgreq
      BY <3>1, <2>1, <2>4 DEF DeliveryInv, Stored
    <3>2. CASE q # bgreq
      <4>1. at[q] # at[bgreq]
        BY <3>2, <2>2, <2>5 DEF OwnershipInv
      <4>2. Stored(q)' <=> Stored(q)
        BY <3>2 DEF Stored
      <4>3. results'[at[q]] = results[at[q]]
        BY <4>1, <2>2, <2>5
      <4>4. results[at[q]] = IF Stored(q) THEN {q} ELSE {}
        BY <2>5 DEF ResultsInv
      <4> QED
        BY <4>2, <4>3, <4>4
    <3> QED BY <3>1, <3>2
  <2>6. ASSUME NEW q \in Requests
        PROVE  Undelivered(q)' => Undelivered(q)
    BY DEF Undelivered
  <2> QED
    BY <2>5, <2>6 DEF ResultsInv
<1>5. OwnReplyMerged'
  BY DEF OwnReplyMerged
<1>6. MutexInv'
  BY DEF MutexInv
<1>7. StrandedOnlyIfTrampled'
  BY DEF StrandedOnlyIfTrampled
<1> QED BY <1>1, <1>2, <1>3, <1>4, <1>5, <1>6, <1>7

\* The object being finished is live.
LEMMA BgLockStep ==
  ASSUME IInv, BgLock
  PROVE  IInv'
<1> USE HandoffAssumption DEF IInv, TypeOK, BgLock
<1>1. TypeOK'
  BY DEF Stages
<1>2. OwnershipInv'
  BY DEF OwnershipInv, Alive
<1>3. DeliveryInv'
  BY DEF DeliveryInv, Undelivered
<1>4. ResultsInv'
  BY DEF ResultsInv, Stored, Undelivered
<1>5. OwnReplyMerged'
  BY DEF OwnReplyMerged
<1>6. MutexInv'
  BY DEF MutexInv, OwnershipInv, Alive, Stages, DeliveryInv, Undelivered,
          Waiting
<1>7. StrandedOnlyIfTrampled'
  BY DEF StrandedOnlyIfTrampled
<1> QED BY <1>1, <1>2, <1>3, <1>4, <1>5, <1>6, <1>7

\* The flag goes up in the live object, its last write.
LEMMA BgSetStep ==
  ASSUME IInv, BgSet
  PROVE  IInv'
<1> USE HandoffAssumption DEF IInv, TypeOK, BgSet
<1>1. TypeOK'
  BY DEF Stages
<1>2. OwnershipInv'
  BY DEF OwnershipInv, Alive
<1>3. DeliveryInv'
  BY DEF DeliveryInv, Undelivered, Waiting, OwnershipInv, Alive, Stages
<1>4. ResultsInv'
  BY DEF ResultsInv, Stored, Undelivered
<1>5. OwnReplyMerged'
  BY DEF OwnReplyMerged
<1>6. MutexInv'
  BY DEF MutexInv, OwnershipInv, Alive, Stages, DeliveryInv, Undelivered,
          Waiting
<1>7. StrandedOnlyIfTrampled'
  BY DEF StrandedOnlyIfTrampled, OwnershipInv, Alive, Stages, DeliveryInv,
          Undelivered, Waiting
<1> QED BY <1>1, <1>2, <1>3, <1>4, <1>5, <1>6, <1>7

\* Whoever loses its mutex here is recorded in trampled.
LEMMA BgUnlockStep ==
  ASSUME IInv, BgUnlock
  PROVE  IInv'
<1> USE HandoffAssumption DEF IInv, TypeOK, BgUnlock
<1>1. TypeOK'
  BY DEF Stages
<1>2. OwnershipInv'
  BY DEF OwnershipInv, Alive
<1>3. DeliveryInv'
  BY DEF DeliveryInv, Undelivered
<1>4. ResultsInv'
  BY DEF ResultsInv, Stored, Undelivered
<1>5. OwnReplyMerged'
  BY DEF OwnReplyMerged
<1>6. MutexInv'
  BY DEF MutexInv
<1>7. StrandedOnlyIfTrampled'
  BY DEF StrandedOnlyIfTrampled
<1> QED BY <1>1, <1>2, <1>3, <1>4, <1>5, <1>6, <1>7

\* A sleeper on the slot is woken: the owner, if the object is still live.
LEMMA BgNotifyStep ==
  ASSUME IInv, BgNotify
  PROVE  IInv'
<1> USE HandoffAssumption DEF IInv, TypeOK, BgNotify
<1>1. TypeOK'
  BY DEF Stages
<1>2. OwnershipInv'
  BY DEF OwnershipInv, Alive, DeliveryInv, Waiting, Stages, Sleepers
<1>3. DeliveryInv'
  BY DEF DeliveryInv, Undelivered, Waiting, OwnershipInv, Alive, Stages,
          Sleepers
<1>4. ResultsInv'
  BY DEF ResultsInv, Stored, Undelivered, Alive, DeliveryInv, OwnershipInv,
          Waiting, Stages, Sleepers
<1>5. OwnReplyMerged'
  BY DEF OwnReplyMerged
<1>6. MutexInv'
  BY DEF MutexInv
<1>7. StrandedOnlyIfTrampled'
  BY DEF StrandedOnlyIfTrampled, OwnershipInv, Alive, Stages, DeliveryInv,
          Undelivered, Waiting, MutexInv, Sleepers
<1> QED BY <1>1, <1>2, <1>3, <1>4, <1>5, <1>6, <1>7

-----------------------------------------------------------------------------
(* The theorems *)

\* Before the first request the inductive invariant holds.
LEMMA InitIInv == Init => IInv
  BY HandoffAssumption
     DEF Init, IInv, TypeOK, OwnershipInv, DeliveryInv, ResultsInv,
         OwnReplyMerged, MutexInv, StrandedOnlyIfTrampled, Undelivered, Stored,
         Stages, CallStates, Alive, Waiting

\* A step that changes nothing preserves it.
LEMMA StutterIInv ==
  ASSUME IInv, UNCHANGED vars
  PROVE  IInv'
<1> USE DEF IInv, vars
<1>1. TypeOK'
  BY DEF TypeOK
<1>2. OwnershipInv'
  BY DEF OwnershipInv
<1>3. DeliveryInv'
  BY DEF DeliveryInv, Undelivered
<1>4. ResultsInv'
  BY DEF ResultsInv, Stored, Undelivered
<1>5. OwnReplyMerged'
  BY DEF OwnReplyMerged
<1>6. MutexInv'
  BY DEF MutexInv
<1>7. StrandedOnlyIfTrampled'
  BY DEF StrandedOnlyIfTrampled
<1> QED BY <1>1, <1>2, <1>3, <1>4, <1>5, <1>6, <1>7

\* So does every step of a handler,
LEMMA HandlerStep ==
  ASSUME IInv, NEW r \in Requests, Handler(r)
  PROVE  IInv'
  BY StartCallStep, FinishLocallyStep, SearchLocallyStep, CheckUnlockedStep,
     LockStep, PredicateStep, SleepStep, LeaveStep, MergeStep, DeleteStep
     DEF Handler

\* and every step of the background thread.
LEMMA BackgroundStep ==
  ASSUME IInv, Background
  PROVE  IInv'
  BY BgNextStep, BgFillStep, BgLockStep, BgSetStep, BgUnlockStep, BgNotifyStep
     DEF Background

\* The inductive invariant holds in every reachable state.
THEOREM Invariance == Spec => []IInv
<1>1. Init => IInv
  BY InitIInv
<1>2. IInv /\ [Next]_vars => IInv'
  <2> SUFFICES ASSUME IInv, [Next]_vars PROVE IInv'
    OBVIOUS
  <2>1. CASE \E r \in Requests : Allocate(r)
    BY <2>1, AllocateStep
  <2>2. CASE \E r \in Requests : Handler(r)
    BY <2>2, HandlerStep
  <2>3. CASE \E r \in Requests : WakeSpuriously(r)
    BY <2>3, WakeSpuriouslyStep
  <2>4. CASE \E r \in Requests : Complete(r)
    BY <2>4, CompleteStep
  <2>5. CASE \E r \in Requests : Lose(r)
    BY <2>5, LoseStep
  <2>6. CASE Background
    BY <2>6, BackgroundStep
  <2>7. CASE UNCHANGED vars
    BY <2>7, StutterIInv
  <2> QED
    BY <2>1, <2>2, <2>3, <2>4, <2>5, <2>6, <2>7 DEF Next
<1> QED
  BY <1>1, <1>2, PTL DEF Spec

\* Type correctness: in particular a tag waits in the completion queue only
\* once its call is over.
THEOREM TypeCorrect == Spec => []TypeOK
<1>1. IInv => TypeOK
  BY DEF IInv
<1> QED
  BY <1>1, Invariance, PTL

\* A request is answered with its own reply and no other request's.
THEOREM OwnReply == Spec => []OwnReplyMerged
<1>1. IInv => OwnReplyMerged
  BY DEF IInv
<1> QED
  BY <1>1, Invariance, PTL

\* The background thread writes results and flags only into the live object
\* of the call it handles.
THEOREM WritesSafe == Spec => []WritesReachOwnObject
<1>1. IInv => WritesReachOwnObject
  BY HandoffAssumption
     DEF IInv, TypeOK, WritesReachOwnObject, OwnershipInv, DeliveryInv,
         Undelivered, Waiting, Alive, Stages
<1> QED
  BY <1>1, Invariance, PTL

\* A wakeup is lost only through the late unlock of a deleted object.
THEOREM NoOtherLostWakeup == Spec => []StrandedOnlyIfTrampled
<1>1. IInv => StrandedOnlyIfTrampled
  BY DEF IInv
<1> QED
  BY <1>1, Invariance, PTL

-----------------------------------------------------------------------------
(* SearchHandoff implements SearchPromise *)

\* The remote share of a request in the terms of SearchPromise.
Remote == [r \in Requests |-> IF call[r] = "lost" THEN "pending" ELSE call[r]]
Answered == {r \in Requests : pc[r] \in {"free", "done"}}

\* Steps that leave the calls, the answers and the answered requests alone.
Quiet == UNCHANGED <<Remote, Answered, answer>>

\* SearchPromise sees nothing of a quiet step.
LEMMA QuietStutters == Quiet => UNCHANGED Promise!vars
  BY DEF Quiet, Remote, Answered, Promise!vars

\* The steps of a handler in wait() and around it are quiet,
LEMMA QuietHandler ==
  ASSUME IInv, NEW r \in Requests,
         \/ Allocate(r) \/ SearchLocally(r) \/ CheckUnlocked(r) \/ Lock(r)
         \/ Predicate(r) \/ Sleep(r) \/ WakeSpuriously(r) \/ Leave(r)
         \/ Delete(r) \/ Lose(r)
  PROVE  Quiet
<1> USE DEF Quiet, Remote, Answered, IInv, TypeOK
<1>1. CASE Allocate(r)
  BY <1>1 DEF Allocate
<1>2. CASE SearchLocally(r)
  BY <1>2 DEF SearchLocally
<1>3. CASE CheckUnlocked(r)
  BY <1>3 DEF CheckUnlocked
<1>4. CASE Lock(r)
  BY <1>4 DEF Lock
<1>5. CASE Predicate(r)
  BY <1>5 DEF Predicate
<1>6. CASE Sleep(r)
  BY <1>6 DEF Sleep
<1>7. CASE WakeSpuriously(r)
  BY <1>7 DEF WakeSpuriously
<1>8. CASE Leave(r)
  BY <1>8 DEF Leave
<1>9. CASE Delete(r)
  BY <1>9 DEF Delete
<1>10. CASE Lose(r)
  BY <1>10 DEF Lose
<1> QED
  BY <1>1, <1>2, <1>3, <1>4, <1>5, <1>6, <1>7, <1>8, <1>9, <1>10

\* and so is everything the background thread does.
LEMMA QuietBackground ==
  ASSUME IInv, Background
  PROVE  Quiet
<1> USE DEF Quiet, Remote, Answered, IInv, TypeOK
<1>1. CASE \E r \in Requests : BgNext(r)
  BY <1>1 DEF BgNext
<1>2. CASE BgFill
  BY <1>2 DEF BgFill
<1>3. CASE BgLock
  BY <1>3 DEF BgLock
<1>4. CASE BgSet
  BY <1>4 DEF BgSet
<1>5. CASE BgUnlock
  BY <1>5 DEF BgUnlock
<1>6. CASE BgNotify
  BY <1>6 DEF BgNotify, Sleepers
<1> QED
  BY <1>1, <1>2, <1>3, <1>4, <1>5, <1>6 DEF Background

\* Starting the call, or finding that none is needed, asks node 1.
LEMMA AskStep ==
  ASSUME IInv, NEW r \in Requests, StartCall(r) \/ FinishLocally(r)
  PROVE  Promise!Ask(r)
<1>1. call[r] = "none"
  BY DEF IInv, DeliveryInv, StartCall, FinishLocally
<1>2. CASE StartCall(r)
  BY <1>1, <1>2 DEF StartCall, Promise!Ask, IInv, TypeOK
<1>3. CASE FinishLocally(r)
  BY <1>1, <1>3 DEF FinishLocally, Promise!Ask, IInv, TypeOK
<1> QED BY <1>2, <1>3

\* A call that completes resolves its request.
LEMMA ResolveStep ==
  ASSUME IInv, NEW r \in Requests, Complete(r)
  PROVE  Promise!Resolve(r)
  BY DEF Complete, Promise!Resolve, IInv, TypeOK

\* By DeliveryInv the share is settled when the handler merges, by ResultsInv
\* the object then holds that share alone.
LEMMA AnswerStep ==
  ASSUME IInv, NEW r \in Requests, Merge(r)
  PROVE  Promise!Answer(r)
<1>1. call[r] \in {"local", "ok", "failed"} /\ ~Undelivered(r)
  BY DEF IInv, TypeOK, DeliveryInv, Merge, Undelivered, Waiting, CallStates
<1>2. results[at[r]] = IF call[r] = "ok" THEN {r} ELSE {}
  BY <1>1 DEF IInv, ResultsInv, Stored, Undelivered, Merge, Alive, Stages
<1>3. Answered' = Answered \cup {r} /\ r \notin Answered
  BY DEF Merge, Answered, IInv, TypeOK
<1> QED
  BY <1>1, <1>2, <1>3
     DEF Merge, Answered, Promise!Answer, Promise!Outcomes, IInv, TypeOK

\* The hand-off implements the promise: every step asks, resolves or answers
\* one request as SearchPromise allows, or changes nothing SearchPromise sees.
THEOREM Implementation == Spec => PromiseKept
<1>1. Init => Promise!Init
  BY DEF Init, Promise!Init
<1>2. IInv /\ [Next]_vars => [Promise!Next]_(Promise!vars)
  <2> SUFFICES ASSUME IInv, [Next]_vars
               PROVE  Promise!Next \/ UNCHANGED Promise!vars
    OBVIOUS
  <2>1. ASSUME NEW r \in Requests, Handler(r)
        PROVE  Promise!Next \/ UNCHANGED Promise!vars
    <3>1. CASE StartCall(r) \/ FinishLocally(r)
      BY <3>1, AskStep DEF Promise!Next
    <3>2. CASE Merge(r)
      BY <3>2, AnswerStep DEF Promise!Next
    <3>3. CASE \/ SearchLocally(r) \/ CheckUnlocked(r) \/ Lock(r)
               \/ Predicate(r) \/ Sleep(r) \/ Leave(r) \/ Delete(r)
      BY <3>3, QuietHandler, QuietStutters
    <3> QED BY <2>1, <3>1, <3>2, <3>3 DEF Handler
  <2>2. ASSUME NEW r \in Requests, Complete(r)
        PROVE  Promise!Next
    BY <2>2, ResolveStep DEF Promise!Next
  <2>3. ASSUME NEW r \in Requests,
               Allocate(r) \/ WakeSpuriously(r) \/ Lose(r)
        PROVE  UNCHANGED Promise!vars
    BY <2>3, QuietHandler, QuietStutters
  <2>4. CASE Background
    BY <2>4, QuietBackground, QuietStutters
  <2>5. CASE UNCHANGED vars
    BY <2>5 DEF vars, Promise!vars
  <2> QED
    BY <2>1, <2>2, <2>3, <2>4, <2>5 DEF Next
<1> QED
  BY <1>1, <1>2, Invariance, PTL DEF Spec, PromiseKept, Promise!Spec

=============================================================================
