----------------------------- MODULE Segmentation -----------------------------
(***************************************************************************)
(* What grouping a conversation into episodes promises: every event is put  *)
(* into at most one group, groups only grow at their end, and a group once   *)
(* final never changes again.                                               *)
(***************************************************************************)
EXTENDS Sequences

CONSTANTS Episodes, Events

VARIABLES
  groups,  \* the events of each episode, in order
  final    \* the episodes that are closed for good

vars == <<groups, final>>

Placed == {v \in Events : \E e \in Episodes : \E i \in DOMAIN groups[e] : groups[e][i] = v}

Init ==
  /\ groups = [e \in Episodes |-> <<>>]
  /\ final  = {}

\* One event goes to the end of a group that is not final.
Extend ==
  \E e \in Episodes \ final, v \in Events \ Placed :
    groups' = [groups EXCEPT ![e] = Append(@, v)]

\* A step places an event or none, and may make groups with events final.
Next ==
  /\ Extend \/ groups' = groups
  /\ final \subseteq final'
  /\ final' \subseteq {e \in Episodes : groups'[e] # <<>>}

Spec == Init /\ [][Next]_vars
=============================================================================
