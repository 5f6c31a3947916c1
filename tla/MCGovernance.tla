--------------------------- MODULE MCGovernance ---------------------------
(***************************************************************************)
(* Small instances of what decides on stored memory: the merges of         *)
(* entities, the beliefs with their candidates, and the erasure of a       *)
(* project among Dreams.  They share no state, so they are checked side by *)
(* side: Init picks one, the others stay as they were installed, and the   *)
(* states of the run are the sum of theirs.                                *)
(***************************************************************************)
EXTENDS EntityMerge, Sequences

\* The instances share their nickname from the start.
KnownDef == [e \in Entities |-> Nicknames]

VARIABLES component,   \* the one that runs
          claim, frame, cand, run, beliefs,
          ledger, seq, counter, turns, ignored, episodes, frames, candidates, cursor, dreamed,
          tick, runs, erasures, restarts

CONSTANTS BeliefEpisodes, Values, Times, MaxBeliefs,   \* of BeliefRevision
          Stories                                     \* what the episodes may say

Beliefs == INSTANCE BeliefRevision WITH Episodes <- BeliefEpisodes

CONSTANTS Runners, Limit, MaxEvents, MaxEpisodes, MaxErasures, MaxRestarts,   \* of Erasure
          Alone                                                              \* one of Runners

Project == INSTANCE Erasure

ASSUME Revision == Beliefs!RevisionAssumption
ASSUME Erasing == Project!Bounds

beliefVars == <<claim, frame, cand, run, beliefs>>
erasureVars == <<ledger, seq, counter, turns, ignored, episodes, frames, candidates, cursor,
                 dreamed, tick, runs, erasures, restarts>>
all == <<component, vars, beliefVars, erasureVars>>

\* What two episodes say of one preference: the same or not, at once or one after the
\* other.  Which episode and which value come first makes no difference.
StoriesDef == {[d1 |-> [value |-> "u", when |-> 1], d2 |-> [value |-> v, when |-> t]] :
                 v \in {"u", "v"}, t \in {1, 2}}

Installed ==
  /\ component \in {"merge", "beliefs", "dreams", "beside", "cursor"}
  /\ Init /\ Beliefs!Init /\ Project!Init
  /\ claim \in Stories
  /\ component = "beliefs" \/ claim = CHOOSE story \in Stories : TRUE

Runs(c) == component = c /\ UNCHANGED component
MergeStep   == Runs("merge") /\ Next /\ UNCHANGED <<beliefVars, erasureVars>>
BeliefsStep == Runs("beliefs") /\ Beliefs!Next /\ UNCHANGED <<vars, erasureVars>>

\* An erasure beside the Dream ticks over all episodes ...
DreamsStep  == /\ Runs("dreams") /\ Project!Next /\ UNCHANGED runs
               /\ UNCHANGED <<vars, beliefVars>>

\* ... beside a curator run over the ledger, with one episode ...
BesideStep  == /\ Runs("beside") /\ Project!Next /\ UNCHANGED <<vars, beliefVars>>
               /\ \A ep \in Project!Episodes : ep # 1 => UNCHANGED episodes[ep]
               /\ \A r \in Runners : r # Alone => UNCHANGED runs[r]

\* ... and beside runs that share the curator's cursor.
CursorStep  == /\ Runs("cursor") /\ Project!Next /\ UNCHANGED episodes
               /\ UNCHANGED <<vars, beliefVars>>

SideBySide == MergeStep \/ BeliefsStep \/ DreamsStep \/ BesideStep \/ CursorStep

GovernanceSpec == Installed /\ [][SideBySide]_all

-----------------------------------------------------------------------------
\* Every variable keeps its type.
TypesOK ==
  /\ component = "merge" => TypeOK
  /\ component = "beliefs" => Beliefs!TypeOK
  /\ component \in {"dreams", "beside", "cursor"} => Project!TypeOK

\* What recall reads as a belief is grounded: a promoted memory rests on a candidate
\* that still stands promoted, a row that was superseded gave way to what a later
\* episode said, and following the pointers ends at a row of another value
\* (BeliefStore.upsert, DeepWritePromotionPolicy, CandidateReviewer).
BeliefsAreGrounded ==
  component = "beliefs" => Beliefs!RestsOnPromoted /\ Beliefs!LaterWordStands /\ Beliefs!ChainEnds

\* Erasing a project ends what was under way: no episode links an event the ledger
\* has lost, nothing that is shown or promoted rests on one, and the curator's
\* cursor covers no event that no run has seen (forgetUser, completeDreamJob,
\* resolveProvenance, markDreamed).
ErasureHolds ==
  component \in {"dreams", "beside", "cursor"} =>
    Project!LinksAreInLedger /\ Project!ShownRestsOnLedger /\ Project!CursorSkipsNothing

\* A decision stands: a merge the project has undone never comes back, however often
\* it is proposed and approved again (EntityMergeService), and a candidate that was
\* rejected or promoted is changed by a repair or a new Dream alone (claimForPromotion).
DecisionsStand == RevertIsFinal /\ Beliefs!DecidedStays
=============================================================================
