---------------------------- MODULE MCDreamQueue ----------------------------
(* Finite instances of DreamQueue.                                          *)
EXTENDS DreamQueue, TLC

Symmetry == Permutations(Leases) \cup Permutations(Workers) \cup Permutations(Events)

\* Liveness runs take numbers for lease ids instead of a symmetry set: ids are
\* interchangeable, so of the fresh ones TLC need only try the least.
LeastIdFirst ==
  \A l, k \in Leases :
    k < l /\ Fresh(l) /\ Fresh(k) => \A e \in Episodes : job'[e].lease # l

\* ... and what a dead id last stood for is never read again.
View == <<ep, job, [l \in Leases |-> IF Fresh(l) THEN NoRun ELSE run[l]], worker>>
=============================================================================
