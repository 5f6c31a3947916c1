----------------------------- MODULE MCCatchup -----------------------------
(***************************************************************************)
(* Small instances of what runs after its source and has to catch up: the  *)
(* Atlas, the time projection, the neurons' vectors and the episodes of    *)
(* recorded turns.  They share no state, so they are checked side by side: *)
(* Init picks one, the others stay as they were installed, and the states  *)
(* of the run are the sum of theirs.                                       *)
(***************************************************************************)
EXTENDS AtlasProjection

VARIABLES component,   \* the one that runs
          neurons, revision, state, entries, job, staged, snapshot, local, listed, used,
          touches, forgets, crashes,
          neuron, outbox, vindex, torn, emb, model, calls, rerun, progress, vfaults, restarts,
          ledger, drawn, assembled, since, writer, asked, answers, tcalls, deaths, tfaults

CONSTANTS N, Zones, Rebuilders, ZoneOf, Limit, NoZone, Lost, MaxTouches, MaxForgets, MaxCrashes,
          Operator   \* one of Rebuilders

Time == INSTANCE TimeProjection WITH None <- NoZone

CONSTANTS MaxNeurons, Models, Runners, BatchSize, MaxRestarts   \* of NeuronVectors

Vectors == INSTANCE NeuronVectors WITH faults <- vfaults, index <- vindex

Turn == INSTANCE AgentTurn WITH
  Writers <- {"p", "q"}, Turns <- {"t"}, Texts <- {"a"}, Limit <- 2,
  MaxCalls <- 2, MaxDeaths <- 1, MaxFaults <- 1, calls <- tcalls, faults <- tfaults

ASSUME Sized == Time!Sizes /\ Operator \in Rebuilders
ASSUME Vectoring == Vectors!VectorAssumption
ASSUME Talking == Turn!TurnAssumption

\* The zone of those who rebuild.
ZoneOfDef == [p \in Rebuilders |-> "z1"]

timeVars == <<neurons, revision, state, entries, job, staged, snapshot, local, listed, used,
              touches, forgets, crashes>>
vectorVars == <<neuron, vindex, outbox, torn, emb, model, calls, rerun, progress, vfaults, restarts>>
turnVars == <<ledger, drawn, assembled, since, writer, asked, answers, tcalls, deaths, tfaults>>
all == <<component, vars, timeVars, vectorVars, turnVars>>

Installed ==
  /\ component \in {"atlas", "time", "racing", "vectors", "turn"}
  /\ Init /\ Time!Init /\ Vectors!Init /\ Turn!Init
  /\ component = "vectors" \/ model = CHOOSE m \in Models : TRUE

Runs(c) == component = c /\ UNCHANGED component
AtlasStep   == Runs("atlas") /\ Next /\ UNCHANGED <<timeVars, vectorVars, turnVars>>

\* One operator rebuilds a time projection that writers of two zones extend ...
TimeStep    == Runs("time") /\ Time!Alone(Operator) /\ UNCHANGED <<vars, vectorVars, turnVars>>

\* ... or all rebuild at once that of one neuron, whose user is forgotten.
RacingStep  == /\ Runs("racing") /\ Time!Next /\ UNCHANGED <<vars, vectorVars, turnVars>>
               /\ UNCHANGED <<touches, crashes>> /\ used' \subseteq {1}
               /\ state'.zone \in {NoZone, ZoneOf[Operator]}

VectorsStep == Runs("vectors") /\ Vectors!Next /\ UNCHANGED <<vars, timeVars, turnVars>>
TurnStep    == Runs("turn") /\ Turn!Next /\ UNCHANGED <<vars, timeVars, vectorVars>>
SideBySide == AtlasStep \/ TimeStep \/ RacingStep \/ VectorsStep \/ TurnStep

\* What the host and the operator keep doing: maintenance ticks, a rebuild until the
\* projection can be used, re-embedding runs and repairs; leases run out.
Fairness ==
  /\ WF_vars(component = "atlas" /\ Maintenance)
  /\ WF_timeVars(component = "time" /\ Time!LeaseExpires)
  /\ WF_timeVars(component = "time" /\ Time!Wanted(Operator) /\ Time!Rebuild(Operator))
  /\ WF_vectorVars(component = "vectors" /\
       \E r \in Runners : Vectors!StartRun(r) \/ Vectors!ListBatch(r) \/ Vectors!WriteBatch(r))
  /\ WF_turnVars(component = "turn" /\ Turn!RepairEpisodes)

CatchupSpec == Installed /\ [][SideBySide]_all /\ Fairness

-----------------------------------------------------------------------------
\* Every variable keeps its type.  Those of the turns are in MCDerivation.
TypesOK ==
  /\ component = "atlas" => TypeOK
  /\ component \in {"time", "racing"} => Time!TypeOK
  /\ component = "vectors" => Vectors!TypeOK

\* When a process may use the time projection, it holds every neuron, in the
\* process's zone, and nothing else, whatever writes and crashes fell into the
\* rebuild (rebuildProjectTimeTopology).  A forgotten neuron leaves no vector, in
\* the index, the outbox or the embeddings, although answers of the provider arrive
\* after forgetUser; a live one is in the index or on its way there (registry.ts,
\* NeuronEmbeddingStore.upsert).
FollowsItsSource ==
  /\ component = "time" => Time!UsableIsCurrent
  /\ component = "vectors" => Vectors!ForgottenLeavesNoVector /\ Vectors!LiveIsFound

\* What is in use is not taken away by a worker that catches up: no entry of a
\* time projection goes while it can be used, whoever else rebuilds it, and a
\* neuron keeps an embedding while re-embedding replaces those of another model.
KeptWhileUsed == Time!UsableIsStable /\ Vectors!EmbeddingKept

\* Each catches up, however often a write, a fault or a crash sets it back: all
\* flags of the Atlas come clean, the time projection can be used again, no
\* embedding of an old model stays, and every recorded event comes to an episode.
CatchesUp == /\ Refreshed /\ []<>(component = "time" => Time!Usable(ZoneOf[Operator]))
             /\ Vectors!ReEmbedded /\ Turn!Assembled
=============================================================================
