-------------------------- MODULE MCEpisodeLifecycle --------------------------
(* Finite instances of EpisodeLifecycle.                                    *)
EXTENDS EpisodeLifecycle, TLC

Symmetry == Permutations(UserEvents) \cup Permutations(Calls)

\* Episode ids are numbers here: they are interchangeable, so TLC need only
\* start the least one not in use.
LeastIdFirst ==
  \A e, f \in Episodes : f < e /\ ep[f].status = "absent" => ep'[e].status = "absent"
=============================================================================
