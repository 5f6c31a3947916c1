----------------------------- MODULE DreamOutcome -----------------------------
(***************************************************************************)
(* What the Dream backlog promises, without leases, attempts, clocks or     *)
(* processes: a request to dream an episode is answered at most once, in    *)
(* one step, from exactly the evidence the episode has at that step; and    *)
(* when the evidence changes, what was concluded from the old evidence is   *)
(* no longer the answer.                                                    *)
(***************************************************************************)
CONSTANTS Episodes, Events, Answers

VARIABLES
  evidence,  \* the raw events linked to each episode
  request,   \* whether a dream of the episode is wanted, done or refused
  answer     \* the conclusions that answer the present request, with their evidence

vars == <<evidence, request, answer>>

Init ==
  /\ evidence = [e \in Episodes |-> {}]
  /\ request  = [e \in Episodes |-> "none"]
  /\ answer   = [e \in Episodes |-> {}]

Publish(e, a) ==
  /\ request[e] = "wanted"
  /\ request' = [request EXCEPT ![e] = "done"]
  /\ answer'  = [answer EXCEPT ![e] = {<<a, evidence[e]>>}]
  /\ UNCHANGED evidence

Refuse(S) ==
  /\ \A e \in S : request[e] = "wanted"
  /\ request' = [e \in Episodes |-> IF e \in S THEN "refused" ELSE request[e]]
  /\ UNCHANGED <<evidence, answer>>

\* Requests on S are dropped or made, or made anew, with the evidence they now have.
\* A first event, a seal that asks for a dream and an operator's repair are all this.
Revise(S) ==
  /\ evidence' \in [Episodes -> SUBSET Events]
  /\ request'  \in [Episodes -> {"none", "wanted", "done", "refused"}]
  /\ \A e \in S : request'[e] \in {"none", "wanted"}
  /\ \A e \in Episodes \ S : evidence'[e] = evidence[e] /\ request'[e] = request[e]
  /\ answer' = [e \in Episodes |-> IF e \in S THEN {} ELSE answer[e]]

Next ==
  \/ \E e \in Episodes, a \in Answers : Publish(e, a)
  \/ \E S \in SUBSET Episodes : Refuse(S) \/ Revise(S)

Spec == Init /\ [][Next]_vars
=============================================================================
