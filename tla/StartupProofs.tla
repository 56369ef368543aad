---------------------------- MODULE StartupProofs ----------------------------
(***************************************************************************)
(* Proofs about Startup, for any addresses and any number of lives.        *)
(***************************************************************************)
EXTENDS Startup, TLAPS

\* A node 0 past WaitForConnected has reached its peer in this very life.
PeerInv ==
  /\ stage[0] # "down" => starts[0] # 0
  /\ stage[0] \in {"registering", "starting", "serving"} => starts[0] \in met

IInv == TypeOK /\ PeerInv /\ AdvertisedHadPeer /\ RegisteredUnlessRemoved

\* The initial state satisfies the inductive invariant.
LEMMA InitInv == Init => IInv
<1> SUFFICES ASSUME Init PROVE IInv
  OBVIOUS
<1>1. "polling" \notin Addresses
  BY StartupAssumption
<1>2. TypeOK
  <2>1. key \in [service : Addresses \cup {None}, node1 : Addresses \cup {None}]
    BY DEF Init
  <2>2. /\ stage[0] = "down" /\ stage[1] = "down"
        /\ \A n \in Nodes : stage[n] = "down"
    BY DEF Init, Nodes
  <2>3. starts \in [Nodes -> 0..MaxStarts]
    BY StartupAssumption DEF Init
  <2>4. met \subseteq 1..MaxStarts /\ publisher \in 0..MaxStarts /\ found \in 0..MaxStarts
    BY StartupAssumption DEF Init
  <2> QED
    BY <2>1, <2>2, <2>3, <2>4 DEF Init, TypeOK
<1>3. PeerInv /\ AdvertisedHadPeer /\ RegisteredUnlessRemoved
  BY <1>1 DEF Init, PeerInv, AdvertisedHadPeer, RegisteredUnlessRemoved, Nodes
<1> QED
  BY <1>2, <1>3 DEF IInv

\* A start puts a process with a fresh address before everything else.
LEMMA StartInv ==
  ASSUME IInv, NEW n \in Nodes, Start(n)
  PROVE  IInv'
<1>1. TypeOK'
  <2>1. PICK a \in Addresses : address' = [address EXCEPT ![n] = a]
    BY DEF Start
  <2>2. stage' = [stage EXCEPT ![n] = "loading"]
    BY DEF Start, Goto
  <2>3. starts' = [starts EXCEPT ![n] = @ + 1] /\ starts[n] < MaxStarts
    BY DEF Start
  <2>4. peer' \in Addresses \cup {None} /\ background' \in BOOLEAN
    BY DEF Start, IInv, TypeOK
  <2>5. n = 0 \/ background' = background
    BY DEF Start
  <2> QED
    BY <2>1, <2>2, <2>3, <2>4, <2>5, StartupAssumption
    DEF IInv, TypeOK, Start, Nodes, history
<1>2. PeerInv' /\ AdvertisedHadPeer'
  BY DEF IInv, TypeOK, PeerInv, AdvertisedHadPeer, Start, Goto, Nodes, history
<1>3. RegisteredUnlessRemoved'
  <2>1. stage' = [stage EXCEPT ![n] = "loading"] /\ UNCHANGED <<key, removed>>
    BY DEF Start, Goto, history
  <2>2. n # 0 => address'[0] = address[0]
    BY DEF Start, IInv, TypeOK, Nodes
  <2> QED
    BY <2>1, <2>2 DEF IInv, TypeOK, RegisteredUnlessRemoved, Nodes
<1> QED
  BY <1>1, <1>2, <1>3 DEF IInv

\* The steps of init that both nodes take, and those of node 1.
LEMMA NodeInv ==
  ASSUME IInv, NEW n \in Nodes,
         \/ LoadFails(n) \/ Load(n) \/ Serve(n) \/ Exit(n) \/ Crash(n)
         \/ RegisterNode1 \/ RegisterNode1Fails
  PROVE  IInv'
<1> USE StartupAssumption
  DEF IInv, TypeOK, PeerInv, AdvertisedHadPeer, RegisteredUnlessRemoved, Goto, Nodes, history
<1>1. CASE LoadFails(n)
  BY <1>1 DEF LoadFails, Abandon
<1>2. CASE Load(n)
  BY <1>2 DEF Load
<1>3. CASE Serve(n)
  BY <1>3 DEF Serve
<1>4. CASE Exit(n)
  BY <1>4 DEF Exit
<1>5. CASE Crash(n)
  BY <1>5 DEF Crash
<1>6. CASE RegisterNode1
  BY <1>6 DEF RegisterNode1
<1>7. CASE RegisterNode1Fails
  BY <1>7 DEF RegisterNode1Fails
<1> QED
  BY <1>1, <1>2, <1>3, <1>4, <1>5, <1>6, <1>7

\* registerOrFoundService on node 0: Connect reaches a serving node 1, and the
\* key is set only after it, by the same life.
LEMMA Node0Inv ==
  ASSUME IInv, FindNode1 \/ Connect \/ ConnectTimesOut \/ Register \/ RegisterFails
  PROVE  IInv'
<1> USE StartupAssumption
  DEF IInv, TypeOK, PeerInv, AdvertisedHadPeer, RegisteredUnlessRemoved, Goto, Nodes, history
<1>1. CASE FindNode1
  BY <1>1 DEF FindNode1
<1>2. CASE Connect
  <2>1. starts[0] \in 1..MaxStarts
    BY <1>2 DEF Connect
  <2> QED
    BY <1>2, <2>1 DEF Connect, Reaches
<1>3. CASE ConnectTimesOut
  BY <1>3 DEF ConnectTimesOut, Abandon
<1>4. CASE Register
  BY <1>4 DEF Register, Publish
<1>5. CASE RegisterFails
  BY <1>5 DEF RegisterFails, Publish, Abandon
<1> QED
  BY <1>1, <1>2, <1>3, <1>4, <1>5

\* etcd and the testbench.
LEMMA KeyInv ==
  ASSUME IInv, NEW n \in Nodes,
         RemoveKey(n) \/ RemovalLost(n) \/ BenchFinds \/ BenchGivesUp
  PROVE  IInv'
  BY StartupAssumption
  DEF IInv, TypeOK, PeerInv, AdvertisedHadPeer, RegisteredUnlessRemoved, Nodes, history,
      RemoveKey, RemovalLost, BenchFinds, BenchGivesUp

\* The invariant that ties the public key to a life of node 0 that has reached
\* its peer is inductive, whatever crashes, restarts and removals happen.
THEOREM Invariance == Spec => []IInv
<1>1. IInv /\ [Next]_vars => IInv'
  <2> SUFFICES ASSUME IInv, [Next]_vars PROVE IInv'
    OBVIOUS
  <2>1. CASE UNCHANGED vars
    BY <2>1 DEF IInv, TypeOK, PeerInv, AdvertisedHadPeer, RegisteredUnlessRemoved, vars
  <2>2. ASSUME NEW n \in Nodes, Start(n) PROVE IInv'
    BY <2>2, StartInv
  <2>3. ASSUME NEW n \in Nodes, Progress(n) PROVE IInv'
    BY <2>3, NodeInv, Node0Inv DEF Progress
  <2>4. ASSUME NEW n \in Nodes, Crash(n) PROVE IInv'
    BY <2>4, NodeInv
  <2>5. ASSUME NEW n \in Nodes, RemoveKey(n) \/ RemovalLost(n) PROVE IInv'
    BY <2>5, KeyInv
  <2>6. CASE BenchFinds \/ BenchGivesUp
    <3>1. 0 \in Nodes
      BY DEF Nodes
    <3> QED
      BY <2>6, <3>1, KeyInv
  <2> QED
    BY <2>1, <2>2, <2>3, <2>4, <2>5, <2>6 DEF Next
<1> QED
  BY InitInv, <1>1, PTL DEF Spec

\* Every variable keeps its type and every node its stages.
THEOREM TypeCorrect == Spec => []TypeOK
  BY Invariance, PTL DEF IInv

\* What the public key names, and what the testbench found there, was published
\* by a life of node 0 that itself reached a serving node 1.
THEOREM HadPeer == Spec => []AdvertisedHadPeer
  BY Invariance, PTL DEF IInv

\* A node 0 past its registration is registered under its own address unless
\* the key was removed since.
THEOREM Registered == Spec => []RegisteredUnlessRemoved
  BY Invariance, PTL DEF IInv
=============================================================================
