------------------------------- MODULE Startup -------------------------------
(***************************************************************************)
(* How the two nodes and the testbench meet through etcd (RunServer,       *)
(* SearchServiceImpl::init, registerOrFoundService, the destructors, and   *)
(* SetupSearchService).  Node 1 publishes its address and serves.  Node 0  *)
(* waits for that key, connects, publishes its own address and serves.     *)
(* The testbench polls for node 0's key.                                   *)
(*                                                                         *)
(* A node that fails to initialise destroys its service, which asks etcd   *)
(* to remove the public key and does not wait for the answer.  A crash     *)
(* runs no destructor, keys carry no lease, and a node that is down may be *)
(* started again, perhaps under another address.                           *)
(***************************************************************************)
EXTENDS Integers

CONSTANTS
  Addresses,    \* what getLocalIP may return
  None,         \* no address: a key that is absent
  MaxStarts     \* bound on the lives of each node

ASSUME StartupAssumption ==
  /\ MaxStarts \in Nat
  /\ None \notin Addresses
  /\ {"polling", "gaveUp"} \cap Addresses = {}

Nodes == {0, 1}

VARIABLES
  stage,        \* where each node stands
  address,      \* the address of each node's last life
  starts,       \* lives of each node so far
  key,          \* etcd: the addresses under modelservice_key and _node1
  peer,         \* the address node 0 found for node 1
  background,   \* node 0's client has started its background thread
  removing,     \* nodes whose removal of the public key is on its way
  bench,        \* the testbench: polling, given up, or the address it found
  met,          \* lives of node 0 that reached a serving node 1 at their peer
  publisher,    \* the life of node 0 that set the public key last
  found,        \* the life whose address the testbench found
  removed       \* the public key was removed since node 0 registered

vars == <<stage, address, starts, key, peer, background, removing, bench,
          met, publisher, found, removed>>
history == <<met, publisher, found, removed>>

Init ==
  /\ stage = [n \in Nodes |-> "down"]
  /\ address = [n \in Nodes |-> None]
  /\ starts = [n \in Nodes |-> 0]
  /\ key = [service |-> None, node1 |-> None]
  /\ peer = None
  /\ background = FALSE
  /\ removing = {}
  /\ bench = "polling"
  /\ met = {}
  /\ publisher = 0
  /\ found = 0
  /\ removed = FALSE

Goto(n, from, to) == stage[n] = from /\ stage' = [stage EXCEPT ![n] = to]

\* init fails: the destructor of the service asks for the removal.
Abandon(n, from) == Goto(n, from, "exiting") /\ removing' = removing \cup {n}

\* main: a fresh process.  A removal does not outlast the restart of its node.
Start(n) ==
  /\ starts[n] < MaxStarts
  /\ n \notin removing
  /\ Goto(n, "down", "loading")
  /\ starts' = [starts EXCEPT ![n] = @ + 1]
  /\ \E a \in Addresses :
       /\ stage[1 - n] # "down" => a # address[1 - n]
       /\ address' = [address EXCEPT ![n] = a]
  /\ IF n = 0 THEN peer' = None /\ background' = FALSE
     ELSE UNCHANGED <<peer, background>>
  /\ UNCHANGED <<key, removing, bench, history>>

LoadFails(n) ==
  /\ Abandon(n, "loading")
  /\ UNCHANGED <<address, starts, key, peer, background, bench, history>>

\* Mutant of Load: every node looks for node 1 first.
Bug_LoadThenFind(n) ==
  /\ Goto(n, "loading", "finding")
  /\ UNCHANGED <<address, starts, key, peer, background, removing, bench, history>>

\* Node 0 goes on to look for node 1, node 1 to register.
Load(n) ==
  /\ Goto(n, "loading", IF n = 0 THEN "finding" ELSE "registering")
  /\ UNCHANGED <<address, starts, key, peer, background, removing, bench, history>>

-----------------------------------------------------------------------------
(* registerOrFoundService on node 0 *)

\* Mutant of FindNode1: the loop polls the public key.
Bug_FindPublicKey ==
  /\ key.service # None
  /\ Goto(0, "finding", "connecting")
  /\ peer' = key.service
  /\ UNCHANGED <<address, starts, key, background, removing, bench, history>>

\* The polling loop ends when the key is there.
FindNode1 ==
  /\ key.node1 # None
  /\ Goto(0, "finding", "connecting")
  /\ peer' = key.node1
  /\ UNCHANGED <<address, starts, key, background, removing, bench, history>>

\* A server listens where node 0's peer should be.
Reaches == stage[1] = "serving" /\ address[1] = peer

\* Mutant of Connect: the channel is used without WaitForConnected.
Bug_ConnectLater ==
  /\ Goto(0, "connecting", "registering")
  /\ background' = TRUE
  /\ met' = IF Reaches THEN met \cup {starts[0]} ELSE met
  /\ UNCHANGED <<address, starts, key, peer, removing, bench, publisher, found, removed>>

\* WaitForConnected needs a listening server; then the client is initialised.
Connect ==
  /\ Reaches
  /\ Goto(0, "connecting", "registering")
  /\ background' = TRUE
  /\ met' = met \cup {starts[0]}
  /\ UNCHANGED <<address, starts, key, peer, removing, bench, publisher, found, removed>>

ConnectTimesOut ==
  /\ Abandon(0, "connecting")
  /\ UNCHANGED <<address, starts, key, peer, background, bench, history>>

\* The public key names this life of node 0.
Publish ==
  /\ key' = [key EXCEPT !.service = address[0]]
  /\ publisher' = starts[0]
  /\ removed' = FALSE

\* Mutant of Register: node 0 publishes its address for itself only.
Bug_RegisterUnderNode1 ==
  /\ Goto(0, "registering", "starting")
  /\ key' = [key EXCEPT !.node1 = address[0]]
  /\ removed' = FALSE
  /\ UNCHANGED <<address, starts, peer, background, removing, bench, met, publisher, found>>

Register ==
  /\ Goto(0, "registering", "starting")
  /\ Publish
  /\ UNCHANGED <<address, starts, peer, background, removing, bench, met, found>>

\* The set is answered with an error, whether or not etcd carried it out.
RegisterFails ==
  /\ Abandon(0, "registering")
  /\ Publish \/ UNCHANGED <<key, publisher, removed>>
  /\ UNCHANGED <<address, starts, peer, background, bench, met, found>>

(* registerOrFoundService on node 1 *)

RegisterNode1 ==
  /\ Goto(1, "registering", "starting")
  /\ key' = [key EXCEPT !.node1 = address[1]]
  /\ UNCHANGED <<address, starts, peer, background, removing, bench, history>>

\* return -1 from a bool function: node 1 goes on as if it had registered.  (If
\* etcd carried the set out all the same, this is RegisterNode1.)
RegisterNode1Fails ==
  /\ Goto(1, "registering", "starting")
  /\ UNCHANGED <<address, starts, key, peer, background, removing, bench, history>>

-----------------------------------------------------------------------------
\* BuildAndStart and Wait.
Serve(n) ==
  /\ Goto(n, "starting", "serving")
  /\ UNCHANGED <<address, starts, key, peer, background, removing, bench, history>>

\* RunServer returns and the members are destroyed: ~SearchServiceClient joins
\* its background thread, which never leaves cq_.Next.
Exit(n) ==
  /\ ~(n = 0 /\ background)
  /\ Goto(n, "exiting", "down")
  /\ UNCHANGED <<address, starts, key, peer, background, removing, bench, history>>

\* A signal, a fault, or a port that cannot be bound.
Crash(n) ==
  /\ stage[n] # "down"
  /\ stage' = [stage EXCEPT ![n] = "down"]
  /\ UNCHANGED <<address, starts, key, peer, background, removing, bench, history>>

\* etcd carries out the removal, or the process ended before it was sent.
RemoveKey(n) ==
  /\ n \in removing
  /\ removing' = removing \ {n}
  /\ key' = [key EXCEPT !.service = None]
  /\ removed' = TRUE
  /\ UNCHANGED <<stage, address, starts, peer, background, bench, met, publisher, found>>

RemovalLost(n) ==
  /\ n \in removing
  /\ removing' = removing \ {n}
  /\ UNCHANGED <<stage, address, starts, key, peer, background, bench, history>>

-----------------------------------------------------------------------------
(* SetupSearchService in the testbench *)

BenchFinds ==
  /\ bench = "polling"
  /\ key.service # None
  /\ bench' = key.service
  /\ found' = publisher
  /\ UNCHANGED <<stage, address, starts, key, peer, background, removing,
                 met, publisher, removed>>

BenchGivesUp ==
  /\ bench = "polling"
  /\ bench' = "gaveUp"
  /\ UNCHANGED <<stage, address, starts, key, peer, background, removing, history>>

-----------------------------------------------------------------------------
\* What a node does by itself once it is started.
Progress(n) ==
  \/ LoadFails(n) \/ Load(n) \/ Serve(n) \/ Exit(n)
  \/ n = 0 /\ (FindNode1 \/ Connect \/ ConnectTimesOut \/ Register \/ RegisterFails)
  \/ n = 1 /\ (RegisterNode1 \/ RegisterNode1Fails)

Next ==
  \/ \E n \in Nodes : Start(n) \/ Progress(n) \/ Crash(n) \/ RemoveKey(n) \/ RemovalLost(n)
  \/ BenchFinds
  \/ BenchGivesUp

Spec == Init /\ [][Next]_vars

\* A running node takes its next step; starts and crashes are nobody's duty.
FairSpec == Spec /\ \A n \in Nodes : WF_vars(Progress(n))

-----------------------------------------------------------------------------
\* Types, and which stages each node passes through (registerOrFoundService).
TypeOK ==
  /\ stage \in [Nodes -> {"down", "loading", "finding", "connecting", "registering",
                          "starting", "serving", "exiting"}]
  /\ stage[1] \notin {"finding", "connecting"}
  /\ address \in [Nodes -> Addresses \cup {None}]
  /\ \A n \in Nodes : stage[n] # "down" => address[n] # None
  /\ starts \in [Nodes -> 0..MaxStarts]
  /\ key \in [service : Addresses \cup {None}, node1 : Addresses \cup {None}]
  /\ peer \in Addresses \cup {None}
  /\ background \in BOOLEAN
  /\ stage[0] \in {"registering", "starting", "serving"} => background
  /\ removing \subseteq Nodes
  /\ bench \in Addresses \cup {"polling", "gaveUp"}
  /\ met \subseteq 1..MaxStarts
  /\ publisher \in 0..MaxStarts
  /\ found \in 0..MaxStarts
  /\ removed \in BOOLEAN

\* Whoever finds an address under the public key, the testbench included, finds
\* one that was put there by a life of node 0 which itself, and after it had
\* started, reached a node 1 serving at the address it had found.  That node 1
\* registered in an earlier life, crashed or left a stale key is not enough, nor
\* that an earlier life of node 0 reached it (registerOrFoundService).
AdvertisedHadPeer ==
  /\ key.service # None => publisher \in met
  /\ bench \in Addresses => found \in met

\* From its registration on, node 0 stays registered under its own address,
\* unless the destructor of some service removed the key.
RegisteredUnlessRemoved ==
  stage[0] \in {"starting", "serving"} => key.service = address[0] \/ removed

\* The nodes do not wait for each other in a circle: node 1 always reaches an
\* end of its start, and so does node 0 once node 1's key is there.  Only a
\* node 0 that fails after Connect stays on its way out, joining the client's
\* background thread (registerOrFoundService, ~SearchServiceClient).
StartsEnd ==
  /\ stage[1] # "down" ~> stage[1] \in {"down", "serving"}
  /\ stage[0] # "down" /\ key.node1 # None
       ~> stage[0] \in {"down", "serving"} \/ (stage[0] = "exiting" /\ background)

\* "将服务地址注册到etcd中": a serving node 0 is registered.
ServingIsRegistered == stage[0] = "serving" => key.service = address[0]
=============================================================================
