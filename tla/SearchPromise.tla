---------------------------- MODULE SearchPromise ----------------------------
(***************************************************************************)
(* What the front node promises about one Search request, with no threads, *)
(* memory or locks in sight: node 1 is asked for its share or is not       *)
(* needed, the share arrives or fails once, and only then is the request   *)
(* answered, with exactly its own share of node 1 (or without any, when    *)
(* the call failed or no keyword belongs to node 1).                       *)
(***************************************************************************)

CONSTANT Requests     \* the Search requests

VARIABLES remote,     \* per request, what is known of node 1's share
          answered,   \* the requests whose answer is settled
          answer      \* per request, the remote shares merged into its answer

vars == <<remote, answered, answer>>

Outcomes == {"local", "ok", "failed"}

Init == /\ remote = [r \in Requests |-> "none"]
        /\ answered = {}
        /\ answer = [r \in Requests |-> {}]

\* The request is split: node 1 owns some of its keywords, or none.
Ask(r) == /\ remote[r] = "none"
          /\ \E s \in {"pending", "local"} : remote' = [remote EXCEPT ![r] = s]
          /\ UNCHANGED <<answered, answer>>

\* Node 1's share arrives, or the call fails, once.
Resolve(r) == /\ remote[r] = "pending"
              /\ \E s \in {"ok", "failed"} : remote' = [remote EXCEPT ![r] = s]
              /\ UNCHANGED <<answered, answer>>

\* The request is answered once its share is settled, with its own share only.
Answer(r) == /\ r \notin answered
             /\ remote[r] \in Outcomes
             /\ answered' = answered \cup {r}
             /\ answer' = [answer EXCEPT ![r] = IF remote[r] = "ok" THEN {r} ELSE {}]
             /\ UNCHANGED remote

Next == \E r \in Requests : Ask(r) \/ Resolve(r) \/ Answer(r)

Spec == Init /\ [][Next]_vars
=============================================================================
