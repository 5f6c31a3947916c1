---------------------------- MODULE CatchupProofs ----------------------------
(***************************************************************************)
(* What catches up with its source shows nothing else, for any number of   *)
(* rows, neurons, processes, zones, models and pages.                      *)
(*                                                                         *)
(*  - Atlas: the trigger's flag and the write it announces commit          *)
(*    together, and so do a projection and the flag it clears.             *)
(*  - Vectors: whoever writes an embedding looks, in the same statement,   *)
(*    whether the neuron is still there; the outbox holds a live one until *)
(*    the index does.                                                      *)
(*  - Time projection: a job survives every step but those that leave the  *)
(*    projection unusable, so that what is in use only grows.  While one   *)
(*    operator rebuilds, the pages it staged cover the neurons up to the   *)
(*    cursor, as of the revision that the publication compares.            *)
(***************************************************************************)
EXTENDS MCCatchup, TLAPS, FiniteSetTheorems, WellFoundedInduction

Word == {"none", "clean", "dirty", "error"}

\* Rebuilding from rows that exist leaves rows that exist, and the watched
\* ones are those of the source.
LEMMA BackfilledRows ==
  ASSUME TypeOK, NEW p \in Projects
  PROVE  /\ Backfilled(p) \in SUBSET Row
         /\ WatchedIn(Backfilled(p)) = WatchedIn(source[p])
<1>1. source[p] \subseteq Row /\ docs[p] \subseteq Row
  BY DEF TypeOK
<1>2. \A x \in Watched : x \notin Unwatched
  BY Apart
<1>3. QED
  BY <1>1, <1>2 DEF Backfilled, WatchedIn

\* What a backfill makes of the documents and of the index.
LEMMA ProjectedRows ==
  ASSUME TypeOK, NEW ps, docs' = Projected(ps), index' = Reindexed(ps, docs')
  PROVE  /\ docs' \in [Projects -> SUBSET Row]
         /\ index' \in [Projects -> SUBSET Row]
         /\ \A p \in Projects \cap ps : WatchedIn(docs'[p]) = WatchedIn(source[p])
         /\ \A p \in Projects \ ps : docs'[p] = docs[p]
<1>1. \A p \in Projects : docs'[p] = IF p \in ps THEN Backfilled(p) ELSE docs[p]
  BY DEF Projected
<1>2. \A p \in Projects : docs'[p] \in SUBSET Row
  BY <1>1, BackfilledRows DEF TypeOK
<1>3. docs' \in [Projects -> SUBSET Row]
  BY <1>2 DEF Projected
<1>4. index' \in [Projects -> SUBSET Row]
  BY <1>3 DEF Reindexed
<1>5. QED
  BY <1>1, <1>3, <1>4, BackfilledRows

\* One project's rebuild, or that of the word for all of them, keeps the types and makes its watched documents current.
LEMMA RebuildStep ==
  ASSUME TypeOK, CleanIsWatched, NEW p \in Projects \cup {All}, Rebuild(p),
         owed' \subseteq Projects \cup {All}
  PROVE  TypeOK' /\ CleanIsWatched'
<1>2. /\ docs' \in [Projects -> SUBSET Row] /\ index' \in [Projects -> SUBSET Row]
      /\ \A q \in Projects \cap {p} : WatchedIn(docs'[q]) = WatchedIn(source[q])
      /\ \A q \in Projects \ {p} : docs'[q] = docs[q]
  BY ProjectedRows DEF Rebuild
<1>3. /\ status' \in [Projects \cup {All} -> Word]
      /\ \A q \in Projects \ {p} : status'[q] = status[q]
  BY DEF Rebuild, MarkClean, TypeOK, Word
<1>4. TypeOK'
  BY <1>2, <1>3 DEF TypeOK, Rebuild, Word
<1>5. CleanIsWatched'
  BY <1>2, <1>3 DEF CleanIsWatched, Rebuild, WatchedIn
<1>6. QED
  BY <1>4, <1>5

\* A rebuild that fails leaves the rows alone and takes the flag away.
LEMMA RebuildFailsStep ==
  ASSUME TypeOK, CleanIsWatched, NEW p \in Projects \cup {All}, RebuildFails(p),
         owed' \subseteq Projects \cup {All}
  PROVE  TypeOK' /\ CleanIsWatched'
<1>1. TypeOK'
  BY Bounds DEF TypeOK, RebuildFails, Fault, MarkFailed
<1>2. CleanIsWatched'
  BY DEF TypeOK, CleanIsWatched, WatchedIn, RebuildFails, MarkFailed
<1>3. QED
  BY <1>1, <1>2

\* A rebuild of everything leaves no project to one side.
LEMMA RebuildAllStep ==
  ASSUME TypeOK, CleanIsWatched, RebuildAll
  PROVE  TypeOK' /\ CleanIsWatched'
<1>1. /\ docs' \in [Projects -> SUBSET Row] /\ index' \in [Projects -> SUBSET Row]
      /\ \A q \in Projects : WatchedIn(docs'[q]) = WatchedIn(source[q])
  BY ProjectedRows DEF RebuildAll
<1>2. status' \in [Projects \cup {All} -> Word]
  BY DEF RebuildAll, MarkClean, TypeOK, Word
<1>3. TypeOK'
  BY <1>1, <1>2 DEF TypeOK, RebuildAll, Word
<1>4. CleanIsWatched'
  BY <1>1 DEF CleanIsWatched, RebuildAll, WatchedIn
<1>5. QED
  BY <1>3, <1>4

\* A row changes, and the flag with it where the table has a trigger.
LEMMA WriteStep ==
  ASSUME TypeOK, CleanIsWatched, NEW p \in Projects, NEW r \in Row, Write(p, r)
  PROVE  TypeOK' /\ CleanIsWatched'
<1>1. /\ source' \in [Projects -> SUBSET Row]
      /\ \A q \in Projects \ {p} : source'[q] = source[q]
      /\ source'[p] = IF r \in source[p] THEN source[p] \ {r} ELSE source[p] \cup {r}
  BY DEF Write, TypeOK
<1>2. /\ status' \in [Projects \cup {All} -> Word]
      /\ \A q \in Projects \ {p} : status'[q] = status[q]
      /\ r[1] \in Watched => status'[p] = "dirty"
      /\ r[1] \notin Watched => status'[p] = status[p]
  BY DEF Write, MarkDirty, TypeOK, Word
<1>3. TypeOK'
  BY <1>1, <1>2, Bounds DEF TypeOK, Write, Word
<1>4. r[1] \notin Watched => WatchedIn(source'[p]) = WatchedIn(source[p])
  BY <1>1 DEF WatchedIn
<1>5. CleanIsWatched'
  BY <1>1, <1>2, <1>4 DEF CleanIsWatched, Write, WatchedIn
<1>6. QED
  BY <1>3, <1>5

\* The rows addressed are brought up to date, so that a current project stays current.
LEMMA ProjectEpisodesStep ==
  ASSUME TypeOK, CleanIsWatched, NEW p \in Projects, NEW r \in Row, ProjectEpisodes(p, r)
  PROVE  TypeOK' /\ CleanIsWatched'
<1>1. /\ docs' \in [Projects -> SUBSET Row] /\ index' \in [Projects -> SUBSET Row]
      /\ \A q \in Projects \ {p} : docs'[q] = docs[q]
      /\ docs'[p] = (docs[p] \ {r}) \cup ({r} \cap source[p])
  BY DEF ProjectEpisodes, TypeOK
<1>2. TypeOK'
  BY <1>1 DEF TypeOK, ProjectEpisodes
<1>3. WatchedIn(docs[p]) = WatchedIn(source[p]) => WatchedIn(docs'[p]) = WatchedIn(source[p])
  BY <1>1 DEF WatchedIn
<1>4. CleanIsWatched'
  BY <1>1, <1>3 DEF CleanIsWatched, ProjectEpisodes, WatchedIn
<1>5. QED
  BY <1>2, <1>4

\* A projection that fails marks the project.
LEMMA ProjectEpisodesFailsStep ==
  ASSUME TypeOK, CleanIsWatched, NEW p \in Projects, ProjectEpisodesFails(p)
  PROVE  TypeOK' /\ CleanIsWatched'
<1>1. TypeOK'
  BY Bounds DEF TypeOK, ProjectEpisodesFails, Fault
<1>2. CleanIsWatched'
  BY DEF TypeOK, CleanIsWatched, WatchedIn, ProjectEpisodesFails
<1>3. QED
  BY <1>1, <1>2

\* A maintenance tick takes up the known projects, and one after the other.
LEMMA MaintenanceStep ==
  ASSUME TypeOK, CleanIsWatched, Maintenance
  PROVE  TypeOK' /\ CleanIsWatched'
<1>1. CASE Tick
  <2>1. Known(docs) \subseteq Projects \cup {All}
    BY DEF Known
  <2>2. QED
    BY <1>1, <2>1 DEF Tick, TypeOK, CleanIsWatched, WatchedIn
<1>2. ASSUME NEW p \in owed, EnsureFresh(p) PROVE TypeOK' /\ CleanIsWatched'
  <2>1. p \in Projects \cup {All} /\ owed' \subseteq Projects \cup {All}
    BY <1>2 DEF TypeOK, EnsureFresh
  <2>2. CASE UNCHANGED <<source, docs, index, status, writes, faults>>
    BY <2>1, <2>2 DEF TypeOK, CleanIsWatched, WatchedIn
  <2>3. CASE RebuildFails(p)
    BY <2>1, <2>3, RebuildFailsStep
  <2>4. CASE Rebuild(p)
    BY <2>1, <2>4, RebuildStep
  <2>5. QED
    BY <1>2, <2>2, <2>3, <2>4 DEF EnsureFresh
<1>3. QED
  BY <1>1, <1>2 DEF Maintenance

AtlasInv == TypeOK /\ CleanIsWatched

LEMMA AtlasInit == Init => AtlasInv
  BY Bounds DEF Init, AtlasInv, TypeOK, CleanIsWatched

LEMMA AtlasNext == AtlasInv /\ [Next]_vars => AtlasInv'
<1> SUFFICES ASSUME AtlasInv, [Next]_vars PROVE AtlasInv'
  OBVIOUS
<1> USE DEF AtlasInv
<1>1. CASE Maintenance
  BY <1>1, MaintenanceStep
<1>2. CASE RebuildAll
  BY <1>2, RebuildAllStep
<1>3. CASE RebuildFails(All) /\ UNCHANGED owed
  <2>1. owed' \subseteq Projects \cup {All}
    BY <1>3 DEF TypeOK
  <2>2. QED
    BY <1>3, <2>1, RebuildFailsStep
<1>4. ASSUME NEW p \in Projects, Rebuild(p) \/ RebuildFails(p), UNCHANGED owed
      PROVE  AtlasInv'
  <2>1. owed' \subseteq Projects \cup {All}
    BY <1>4 DEF TypeOK
  <2>2. QED
    BY <1>4, <2>1, RebuildStep, RebuildFailsStep
<1>5. ASSUME NEW p \in Projects, ProjectEpisodesFails(p) PROVE AtlasInv'
  BY <1>5, ProjectEpisodesFailsStep
<1>6. ASSUME NEW p \in Projects, NEW r \in Row, Write(p, r) \/ ProjectEpisodes(p, r)
      PROVE  AtlasInv'
  BY <1>6, WriteStep, ProjectEpisodesStep
<1>7. CASE UNCHANGED vars
  BY <1>7 DEF vars, TypeOK, CleanIsWatched, WatchedIn
<1>8. QED
  BY <1>1, <1>2, <1>3, <1>4, <1>5, <1>6, <1>7 DEF Next

\* The store's variables keep their types.
THEOREM AtlasTypes == Spec => []TypeOK
<1>1. Spec => []AtlasInv
  BY AtlasInit, AtlasNext, PTL DEF Spec
<1>2. AtlasInv => TypeOK
  BY DEF AtlasInv
<1>3. QED
  BY <1>1, <1>2, PTL

\* A project whose flag is clean shows what its watched tables hold, however
\* writes, failing rebuilds and half-done maintenance ticks interleave.
THEOREM AtlasCleanIsWatched == Spec => []CleanIsWatched
<1>1. Spec => []AtlasInv
  BY AtlasInit, AtlasNext, PTL DEF Spec
<1>2. AtlasInv => CleanIsWatched
  BY DEF AtlasInv
<1>3. QED
  BY <1>1, <1>2, PTL

-----------------------------------------------------------------------------
(* The vectors of a neuron.                                                 *)

\* What the vectors of a neuron depend on.
VectorTypes == /\ neuron \in [Vectors!Neurons -> {"absent", "live", "archived", "forgotten"}]
               /\ outbox \subseteq Vectors!Neurons /\ vindex \subseteq Vectors!Neurons /\ torn \subseteq Vectors!Neurons
               /\ emb \in [Vectors!Neurons -> SUBSET Models] /\ model \in Models

VectorInv == VectorTypes /\ Vectors!ForgottenLeavesNoVector /\ Vectors!LiveIsFound

LEMMA VectorInit == Vectors!Init => VectorInv
  BY DEF Vectors!Init, VectorInv, VectorTypes, Vectors!ForgottenLeavesNoVector, Vectors!LiveIsFound

\* An upsert adds the model to neurons that are there.
LEMMA UpsertKeeps ==
  ASSUME VectorInv, NEW ns
  PROVE  /\ Vectors!Upserted(emb, ns) \in [Vectors!Neurons -> SUBSET Models]
         /\ \A n \in Vectors!Neurons : /\ n \notin Vectors!Present => Vectors!Upserted(emb, ns)[n] = emb[n]
                                       /\ emb[n] \subseteq Vectors!Upserted(emb, ns)[n]
                                       /\ n \in ns \cap Vectors!Present => model \in Vectors!Upserted(emb, ns)[n]
  BY DEF VectorInv, VectorTypes, Vectors!Upserted

LEMMA ReplaceKeeps ==
  ASSUME VectorInv, NEW batch, NEW got
  PROVE  /\ Vectors!Replaced(batch, got) \in [Vectors!Neurons -> SUBSET Models]
         /\ \A n \in Vectors!Neurons : /\ n \notin Vectors!Present => Vectors!Replaced(batch, got)[n] = emb[n]
                                       /\ emb[n] # {} => Vectors!Replaced(batch, got)[n] # {}
<1>1. \A n \in Vectors!Neurons : Vectors!Replaced(batch, got)[n] =
        IF n \in got \cap Vectors!Present THEN Vectors!Upserted(emb, got)[n] \cap {model} ELSE emb[n]
  BY DEF Vectors!Replaced
<1>2. Vectors!Replaced(batch, got) \in [Vectors!Neurons -> SUBSET Models]
  BY UpsertKeeps DEF Vectors!Replaced, VectorInv, VectorTypes
<1>3. QED
  BY <1>1, <1>2, UpsertKeeps

\* A step that leaves every neuron, its place in the vindex and the outbox, and that
\* writes no embedding of a neuron which is not there.
LEMMA EmbeddingsOnly ==
  ASSUME VectorInv, UNCHANGED <<neuron, outbox, vindex, torn, model>>,
         emb' \in [Vectors!Neurons -> SUBSET Models],
         \A n \in Vectors!Neurons : n \notin Vectors!Present => emb'[n] = emb[n]
  PROVE  VectorInv'
  BY DEF VectorInv, VectorTypes, Vectors!ForgottenLeavesNoVector, Vectors!LiveIsFound, Vectors!Present

LEMMA IngestsVector ==
  ASSUME VectorInv, NEW n \in Vectors!Neurons, Vectors!Ingest(n)
  PROVE  VectorInv' /\ UNCHANGED emb
<1>1. /\ neuron' = [neuron EXCEPT ![n] = "live"] /\ UNCHANGED <<torn, emb, model>>
      /\ \/ vindex' = vindex \cup {n} /\ outbox' = outbox \ {n}
         \/ vindex' = vindex /\ outbox' = outbox \cup {n}
  BY DEF Vectors!Ingest, Vectors!Drained
<1>2. QED
  BY <1>1 DEF VectorInv, VectorTypes, Vectors!ForgottenLeavesNoVector, Vectors!LiveIsFound

LEMMA Metabolises ==
  ASSUME VectorInv, NEW n \in Vectors!Neurons, NEW to \in {"archived", "live"}, Vectors!Metabolise(n, to)
  PROVE  VectorInv' /\ UNCHANGED emb
<1>1. PICK indexed, committed \in BOOLEAN :
        /\ vindex' = CASE ~indexed -> vindex
                      [] indexed /\ to = "archived" -> vindex \ {n}
                      [] indexed /\ to = "live" -> vindex \cup {n}
        /\ neuron' = IF committed THEN [neuron EXCEPT ![n] = to] ELSE neuron
        /\ torn' = IF indexed /\ committed THEN torn \ {n} ELSE torn \cup {n}
  BY DEF Vectors!Metabolise
<1>2. neuron[n] \in {"live", "archived"} /\ UNCHANGED <<outbox, emb, model>>
  BY DEF Vectors!Metabolise
<1>3. /\ vindex' \subseteq Vectors!Neurons /\ torn' \subseteq Vectors!Neurons
      /\ \A k \in Vectors!Neurons \ {n} : (k \in vindex' <=> k \in vindex) /\ (k \in torn' <=> k \in torn)
  BY <1>1 DEF VectorInv, VectorTypes
<1>4. /\ neuron' \in [Vectors!Neurons -> {"absent", "live", "archived", "forgotten"}]
      /\ neuron'[n] \in {"live", "archived"} /\ \A k \in Vectors!Neurons \ {n} : neuron'[k] = neuron[k]
  BY <1>1, <1>2 DEF VectorInv, VectorTypes
<1>5. neuron'[n] = "live" => n \in vindex' \cup torn'
  BY <1>1, <1>2 DEF VectorInv, VectorTypes
<1>6. QED
  BY <1>2, <1>3, <1>4, <1>5 DEF VectorInv, VectorTypes, Vectors!ForgottenLeavesNoVector, Vectors!LiveIsFound

LEMMA ForgetsVector ==
  ASSUME VectorInv, Vectors!Forget
  PROVE  VectorInv' /\ \A n \in Vectors!Neurons : emb[n] # {} /\ emb'[n] = {} => neuron'[n] = "forgotten"
  BY DEF Vectors!Forget, VectorInv, VectorTypes, Vectors!ForgottenLeavesNoVector, Vectors!LiveIsFound, Vectors!Present

LEMMA RestartsVector ==
  ASSUME VectorInv, Vectors!Restart
  PROVE  VectorInv' /\ UNCHANGED emb
  BY DEF Vectors!Restart, VectorInv, VectorTypes, Vectors!ForgottenLeavesNoVector, Vectors!LiveIsFound, Vectors!Present

\* A run replaces embeddings, and clears what is left of a neuron that is gone: nothing.
LEMMA Reruns ==
  ASSUME VectorInv, NEW r \in Runners, Vectors!Rerun(r)
  PROVE  VectorInv' /\ \A n \in Vectors!Neurons : emb[n] # {} => emb'[n] # {}
<1>1. UNCHANGED <<neuron, outbox, vindex, torn, model>>
  BY DEF Vectors!Rerun, Vectors!StartRun, Vectors!ListBatch, Vectors!WriteBatch, Vectors!RunThrows
<1>2. CASE Vectors!StartRun(r)
  <2>1. UNCHANGED emb
    BY <1>2 DEF Vectors!StartRun
  <2>2. QED
    BY <1>1, <2>1, EmbeddingsOnly DEF VectorInv, VectorTypes
<1>3. CASE Vectors!ListBatch(r)
  <2> DEFINE batch == Vectors!Listed(rerun[r].cursor)
  <2>1. emb' = [n \in Vectors!Neurons |-> IF n \in batch \ (batch \cap Vectors!Present) THEN {} ELSE emb[n]]
    BY <1>3 DEF Vectors!ListBatch
  <2>2. \A n \in batch : emb[n] # {}
    BY DEF Vectors!Listed, Vectors!Stale
  <2>3. \A n \in Vectors!Neurons \ Vectors!Present : emb[n] = {}
    BY DEF VectorInv, VectorTypes, Vectors!ForgottenLeavesNoVector, Vectors!Present
  <2> HIDE DEF batch
  <2>4. emb' = emb
    BY <2>1, <2>2, <2>3 DEF VectorInv, VectorTypes
  <2>5. QED
    BY <1>1, <2>4, EmbeddingsOnly DEF VectorInv, VectorTypes
<1>4. CASE Vectors!WriteBatch(r) \/ Vectors!RunThrows(r)
  <2>1. PICK got : emb' = Vectors!Replaced(rerun[r].batch, got)
    BY <1>4 DEF Vectors!WriteBatch, Vectors!RunThrows
  <2>2. QED
    BY <1>1, <2>1, ReplaceKeeps, EmbeddingsOnly
<1>5. QED
  BY <1>2, <1>3, <1>4 DEF Vectors!Rerun

LEMMA Answers ==
  ASSUME VectorInv, NEW n \in Vectors!Neurons, Vectors!EmbedReturns(n)
  PROVE  VectorInv' /\ \A k \in Vectors!Neurons : emb[k] # {} => emb'[k] # {}
<1>1. UNCHANGED <<neuron, outbox, vindex, torn, model>> /\ (emb' = Vectors!Upserted(emb, {n}) \/ emb' = emb)
  BY DEF Vectors!EmbedReturns
<1>2. QED
  BY <1>1, UpsertKeeps, EmbeddingsOnly DEF VectorInv, VectorTypes

LEMMA VectorNext ==
  ASSUME VectorInv, [Vectors!Next]_(Vectors!vars)
  PROVE  VectorInv' /\ \A n \in Vectors!Neurons : emb[n] # {} /\ emb'[n] = {} => neuron'[n] = "forgotten"
<1>1. CASE UNCHANGED Vectors!vars
  BY <1>1 DEF Vectors!vars, VectorInv, VectorTypes, Vectors!ForgottenLeavesNoVector, Vectors!LiveIsFound
<1>2. CASE \E n \in Vectors!Neurons : Vectors!Ingest(n) \/ Vectors!Metabolise(n, "archived") \/ Vectors!Metabolise(n, "live")
  <2>1. VectorInv' /\ UNCHANGED emb
    BY <1>2, IngestsVector, Metabolises
  <2>2. QED
    BY <2>1
<1>3. CASE \E n \in Vectors!Neurons : Vectors!EmbedReturns(n)
  BY <1>3, Answers
<1>4. CASE Vectors!Forget
  BY <1>4, ForgetsVector
<1>5. CASE Vectors!Restart
  <2>1. VectorInv' /\ UNCHANGED emb
    BY <1>5, RestartsVector
  <2>2. QED
    BY <2>1
<1>6. CASE \E r \in Runners : Vectors!Rerun(r)
  BY <1>6, Reruns
<1>7. QED
  BY <1>1, <1>2, <1>3, <1>4, <1>5, <1>6 DEF Vectors!Next

LEMMA VectorAlways == Vectors!Spec => []VectorInv
  BY VectorInit, VectorNext, PTL DEF Vectors!Spec

\* No vector outlives its neuron, and a live neuron can be found, for any number of
\* neurons, models and runs and any number of vfaults.
THEOREM VectorsFollow == Vectors!Spec => [](Vectors!ForgottenLeavesNoVector /\ Vectors!LiveIsFound)
<1>1. VectorInv => Vectors!ForgottenLeavesNoVector /\ Vectors!LiveIsFound
  BY DEF VectorInv
<1>2. QED
  BY <1>1, VectorAlways, PTL

\* Re-embedding replaces, whichever runs overlap and whatever the provider returns.
THEOREM EmbeddingStays == Vectors!Spec => Vectors!EmbeddingKept
<1>1. VectorInv /\ [Vectors!Next]_(Vectors!vars) =>
        [\A n \in Vectors!Neurons : emb[n] # {} /\ emb'[n] = {} => neuron'[n] = "forgotten"]_(Vectors!vars)
  BY VectorNext
<1>2. QED
  BY <1>1, VectorAlways, PTL DEF Vectors!Spec, Vectors!EmbeddingKept

-----------------------------------------------------------------------------
(* The time projection.                                                      *)

Places == {"idle", "create", "stage", "staging", "clear", "copy", "copying", "mark",
           "claim", "claimed", "publish", "finish", "failing"}
Local == [pc : Places, gen : Nat, rev : Nat, cursor : Nat, page : SUBSET Time!Neuron]
JobType == [gen : Nat, zone : Zones \cup {NoZone}, status : {"none", "building", "ready", "failed"},
            cursor : Nat, rev : Nat, token : Rebuilders \cup {NoZone, Lost}, leased : BOOLEAN]
StateType == [status : {"none", "dirty", "building", "clean", "failed"}, zone : Zones \cup {NoZone}, rev : Nat]

TimeTypes == /\ neurons \subseteq Time!Neuron /\ revision \in Nat
             /\ state \in StateType /\ job \in JobType
             /\ local \in [Rebuilders -> Local]

\* A generation is a job's, and while there is a job the projection is not clean.
JobInv == /\ job.gen = 0 <=> job.status = "none"
          /\ job.status # "none" => state.status \notin {"none", "clean"}
          /\ \A p \in Rebuilders : local[p].pc \notin {"idle", "create"} => local[p].gen # 0

StableInv == TimeTypes /\ JobInv

-----------------------------------------------------------------------------
LEMMA SameCount == \A S : Time!Cardinality(S) = Cardinality(S)
  BY Zenon DEF Time!Cardinality, Cardinality

LEMMA SameFinite == \A S : Time!IsFiniteSet(S) <=> IsFiniteSet(S)
  BY Zenon DEF Time!IsFiniteSet, IsFiniteSet

LEMMA NatOrder == \A T \in SUBSET Nat : T # {} => \E b \in T : \A x \in T : ~(x < b)
<1> DEFINE R == OpToRel(<, Nat)
<1>1. IsWellFoundedOn(R, Nat)
  BY NatLessThanWellFounded
<1>2. \A x, y \in Nat : x < y => <<x, y>> \in R
  BY DEF OpToRel
<1> HIDE DEF R
<1>3. ASSUME NEW T \in SUBSET Nat, T # {} PROVE \E b \in T : \A x \in T : ~(x < b)
  <2>1. PICK b \in T : \A y \in T : <<y, b>> \notin R
    BY <1>1, <1>3, WFMin
  <2>2. QED
    BY <1>2, <2>1
<1>4. QED
  BY <1>3

\* Of some neurons in their order there is a last one.
LEMMA LastOf ==
  ASSUME NEW k \in Nat, NEW S \in SUBSET (1..k), S # {}
  PROVE  \E last \in S : \A n \in S : last >= n
<1> DEFINE T == {k - n : n \in S}
<1>1. \A n \in S : n \in Nat /\ n <= k /\ k - n \in Nat
  OBVIOUS
<1>2. T \in SUBSET Nat /\ T # {}
  BY <1>1
<1>3. PICK b \in T : \A x \in T : ~(x < b)
  BY <1>2, NatOrder
<1>4. PICK last \in S : b = k - last
  BY <1>3
<1>5. \A n \in S : last >= n
  <2>1. \A n \in S : ~(k - n < k - last)
    BY <1>3, <1>4
  <2>2. QED
    BY <1>1, <2>1
<1> HIDE DEF T
<1>6. QED
  BY <1>5

\* A page of neurons ends at the last one.
LEMMA LastOnPage ==
  ASSUME NEW page \in SUBSET Time!Neuron, page # {}
  PROVE  Time!Max(page) \in page /\ \A n \in page : n <= Time!Max(page)
<1>1. N \in Nat /\ page \in SUBSET (1..N)
  BY Sized DEF Time!Sizes, Time!Neuron
<1>2. \E last \in page : \A n \in page : last >= n
  BY <1>1, LastOf
<1>3. Time!Max(page) \in page /\ \A n \in page : Time!Max(page) >= n
  BY <1>2 DEF Time!Max
<1>4. QED
  BY <1>1, <1>3

\* There is a generation that nobody refers to.
LEMMA FreshGeneration ==
  ASSUME TimeTypes
  PROVE  /\ Time!NewGeneration \in Nat \ {0} /\ Time!NewGeneration # job.gen
         /\ Time!NewGeneration <= Cardinality(Rebuilders) + 2
         /\ \A p \in Rebuilders : Time!NewGeneration # local[p].gen
<1> DEFINE n == Cardinality(Rebuilders)
           g == [p \in Rebuilders |-> local[p].gen]
           G == {g[p] : p \in Rebuilders}
<1>1. IsFiniteSet(Rebuilders) /\ n \in Nat
  BY Sized, SameFinite, FS_CardinalityType DEF Time!Sizes
<1>2. IsFiniteSet(G) /\ Cardinality(G) <= n
  <2>1. g \in Surjection(Rebuilders, G)
    BY DEF Surjection
  <2> HIDE DEF g, G
  <2>2. QED
    BY <1>1, <2>1, FS_Surjection
<1> HIDE DEF G
<1>3. IsFiniteSet(G \cup {job.gen}) /\ Cardinality(G \cup {job.gen}) <= n + 1
  <2>1. Cardinality(G) \in Nat
    BY <1>2, FS_CardinalityType
  <2>2. job.gen \notin G => Cardinality(G \cup {job.gen}) = Cardinality(G) + 1 /\ IsFiniteSet(G \cup {job.gen})
    BY <1>2, FS_AddElement
  <2>3. job.gen \in G => G \cup {job.gen} = G
    OBVIOUS
  <2>4. QED
    BY <1>1, <1>2, <2>1, <2>2, <2>3
<1>4. IsFiniteSet(1..n + 2) /\ Cardinality(1..n + 2) = n + 2
  BY <1>1, FS_Interval
<1>5. ~(1..n + 2 \subseteq G \cup {job.gen})
  BY <1>1, <1>3, <1>4, FS_Subset, FS_CardinalityType
<1>6. \E x \in 1..n + 2 : x # job.gen /\ \A p \in Rebuilders : x # local[p].gen
  BY <1>5 DEF G
<1> HIDE DEF n, g
<1>7. Time!NewGeneration \in 1..n + 2 /\ Time!NewGeneration # job.gen /\ \A p \in Rebuilders : Time!NewGeneration # local[p].gen
  BY <1>6, SameCount DEF Time!NewGeneration, n
<1>8. n = Cardinality(Rebuilders)
  BY DEF n
<1>9. QED
  BY <1>1, <1>7, <1>8

\* A rebuilder reads a page, or finds that there is none.
LEMMA ReadIs ==
  ASSUME TimeTypes, NEW p \in Rebuilders, NEW pc, NEW write \in Places, NEW done \in Places,
         Time!Read(p, pc, write, done)
  PROVE  \E new \in Local :
           /\ local' = [local EXCEPT ![p] = new]
           /\ new.gen = local[p].gen /\ new.rev = local[p].rev /\ new.page = Time!PageAfter(local[p].cursor)
           /\ IF new.page = {} THEN new.pc = done /\ new.cursor = 0
                               ELSE new.pc = write /\ new.cursor = Time!Max(new.page)
<1> DEFINE page == Time!PageAfter(local[p].cursor)
           new == [local[p] EXCEPT !.page = page, !.pc = IF page = {} THEN done ELSE write,
                                   !.cursor = IF page = {} THEN 0 ELSE Time!Max(page)]
<1>1. local' = [local EXCEPT ![p] = new]
  BY DEF Time!Read
<1>2. page \in SUBSET Time!Neuron /\ local[p] \in Local
  BY DEF Time!PageAfter, TimeTypes
<1>3. page # {} => Time!Max(page) \in Nat
  BY <1>2, LastOnPage DEF Time!Neuron
<1> HIDE DEF page
<1>4. /\ new \in Local /\ new.gen = local[p].gen /\ new.rev = local[p].rev /\ new.page = page
      /\ IF page = {} THEN new.pc = done /\ new.cursor = 0
                      ELSE new.pc = write /\ new.cursor = Time!Max(page)
  BY <1>2, <1>3 DEF Local
<1> HIDE DEF new
<1>5. QED
  BY <1>1, <1>4 DEF page

\* A step of one rebuilder, at most: what it becomes keeps its type and has a generation.
LEMMA OneMoves ==
  ASSUME TimeTypes, JobInv, NEW p \in Rebuilders, NEW new \in Local, local' = [local EXCEPT ![p] = new],
         new.pc \notin {"idle", "create"} => new.gen # 0
  PROVE  /\ local' \in [Rebuilders -> Local] /\ local'[p] = new
         /\ \A q \in Rebuilders \ {p} : local'[q] = local[q]
         /\ \A q \in Rebuilders : local'[q].pc \notin {"idle", "create"} => local'[q].gen # 0
  BY DEF TimeTypes, JobInv

-----------------------------------------------------------------------------
(* What is in use stays.                                                     *)

\* No step but that which ends an erasure takes an entry of a usable projection.
Grows == \A z \in Zones : Time!Usable(z) /\ Time!Usable(z)' /\ listed = listed' => entries \subseteq entries'

LEMMA StableInit == Time!Init => StableInv
<1> SUFFICES ASSUME Time!Init PROVE StableInv
  OBVIOUS
<1>1. TimeTypes
  BY DEF Time!Init, TimeTypes, Time!NoState, Time!NoJob, Time!Idle, StateType, JobType, Local, Places
<1>2. JobInv
  BY DEF Time!Init, JobInv, Time!NoJob, Time!Idle
<1>3. QED
  BY <1>1, <1>2 DEF StableInv

\* The writers, and an erasure.
LEMMA WriterStable ==
  ASSUME StableInv,
         \/ \E n \in Time!Neuron : Time!AddNeuron(n) \/ \E z \in Zones : Time!Ingest(z, n)
         \/ Time!UpdateMetadata \/ Time!ForgetList \/ Time!ForgetDelete
  PROVE  StableInv' /\ Grows
<1> USE DEF StableInv
<1>1. ASSUME NEW n \in Time!Neuron, Time!AddNeuron(n) PROVE StableInv' /\ Grows
  <2>1. /\ neurons' = neurons \cup {n} /\ revision' = revision + 1 /\ state' = Time!Dirtied
        /\ UNCHANGED <<job, local, entries>>
    BY <1>1 DEF Time!AddNeuron, Time!work
  <2>2. state' \in StateType /\ (state # Time!NoState => state'.status = "dirty") /\ (state = Time!NoState => state' = Time!NoState)
    BY <2>1 DEF Time!Dirtied, Time!State, StateType, TimeTypes
  <2>3. QED
    BY <1>1, <2>1, <2>2 DEF TimeTypes, JobInv, Grows, Time!NoState
<1>2. ASSUME NEW n \in Time!Neuron, NEW z \in Zones, Time!Ingest(z, n) PROVE StableInv' /\ Grows
  <2>1. /\ neurons' = neurons \cup {n} /\ revision' = revision + 1 /\ UNCHANGED <<job, local>>
        /\ \/ Time!Incremental(z) /\ entries' = entries \cup {<<n, z>>} /\ state' = Time!State("clean", z, revision')
           \/ state' = Time!State("dirty", z, revision') /\ UNCHANGED entries
    BY <1>2 DEF Time!Ingest, Time!work
  <2>2. state' \in StateType /\ state'.status \in {"clean", "dirty"}
    BY <2>1 DEF Time!State, StateType, TimeTypes
  <2>3. Time!Incremental(z) => state.status \in {"none", "clean"}
    BY DEF Time!Incremental, Time!State, Time!NoState
  <2>4. state'.status = "clean" => Time!Incremental(z)
    BY <2>1 DEF Time!State
  <2>5. QED
    BY <2>1, <2>2, <2>3, <2>4 DEF TimeTypes, JobInv, Grows
<1>3. CASE Time!UpdateMetadata
  <2>1. /\ revision' = revision + 1 /\ state' = Time!Dirtied /\ UNCHANGED <<neurons, job, local, entries>>
    BY <1>3 DEF Time!UpdateMetadata, Time!work
  <2>2. state' \in StateType /\ (state # Time!NoState => state'.status = "dirty") /\ (state = Time!NoState => state' = Time!NoState)
    BY <2>1 DEF Time!Dirtied, Time!State, StateType, TimeTypes
  <2>3. QED
    BY <2>1, <2>2 DEF TimeTypes, JobInv, Grows, Time!NoState
<1>4. CASE Time!ForgetList
  <2>1. UNCHANGED <<neurons, revision, state, entries, job, local>>
    BY <1>4 DEF Time!ForgetList, Time!source, Time!shown, Time!work
  <2>2. QED
    BY <2>1 DEF TimeTypes, JobInv, Grows
<1>5. CASE Time!ForgetDelete
  <2>1. /\ neurons' = neurons \ listed /\ listed # {} /\ listed' = {}
        /\ revision' = 0 /\ state' = Time!NoState /\ job' = Time!NoJob /\ UNCHANGED local
    BY <1>5 DEF Time!ForgetDelete
  <2>2. state' \in StateType /\ job' \in JobType /\ job'.gen = 0 /\ job'.status = "none"
    BY <2>1 DEF Time!NoState, Time!NoJob, StateType, JobType
  <2>3. QED
    BY <2>1, <2>2 DEF TimeTypes, JobInv, Grows
<1>6. QED
  BY <1>1, <1>2, <1>3, <1>4, <1>5

\* A rebuilder's step that changes neither the projection nor its state.
LEMMA QuietMove ==
  ASSUME StableInv, NEW p \in Rebuilders, NEW new \in Local, local' = [local EXCEPT ![p] = new],
         new.pc \notin {"idle", "create"} => new.gen # 0,
         UNCHANGED <<neurons, revision, state, entries>>,
         job' \in JobType, job'.gen = job.gen, job'.status = "none" <=> job.status = "none"
  PROVE  StableInv' /\ Grows
<1>1. /\ local' \in [Rebuilders -> Local]
      /\ \A q \in Rebuilders : local'[q].pc \notin {"idle", "create"} => local'[q].gen # 0
  BY OneMoves DEF StableInv
<1>2. QED
  BY <1>1 DEF StableInv, TimeTypes, JobInv, Grows

LEMMA GoIs ==
  ASSUME TimeTypes, NEW p \in Rebuilders, NEW pc \in Places, Time!Go(p, pc)
  PROVE  \E new \in Local :
           /\ local' = [local EXCEPT ![p] = new]
           /\ new.pc = pc /\ new.gen = local[p].gen /\ new.rev = local[p].rev
           /\ new.cursor = local[p].cursor /\ new.page = local[p].page
<1> DEFINE new == [local[p] EXCEPT !.pc = pc]
<1>1. local' = [local EXCEPT ![p] = new]
  BY DEF Time!Go
<1>2. /\ new \in Local /\ new.pc = pc /\ new.gen = local[p].gen /\ new.rev = local[p].rev
      /\ new.cursor = local[p].cursor /\ new.page = local[p].page
  BY DEF TimeTypes, Local
<1> HIDE DEF new
<1>3. QED
  BY <1>1, <1>2

LEMMA IdleIsLocal == Time!Idle \in Local /\ Time!Idle.pc = "idle"
  BY DEF Time!Idle, Local, Places

LEMMA LookIs ==
  ASSUME StableInv, NEW p \in Rebuilders, Time!Look(p)
  PROVE  \E new \in Local :
           /\ local' = [local EXCEPT ![p] = new]
           /\ IF Time!Resumable(p)
              THEN /\ new.pc = IF job.status = "ready" THEN "claim" ELSE "stage"
                   /\ new.gen = job.gen /\ new.rev = job.rev /\ new.cursor = job.cursor /\ new.gen # 0
              ELSE new.pc = "create" /\ new.rev = revision /\ new.cursor = 0
           /\ new.page = {}
<1> DEFINE new == IF Time!Resumable(p)
                  THEN [Time!Idle EXCEPT !.pc = IF job.status = "ready" THEN "claim" ELSE "stage",
                                    !.gen = job.gen, !.rev = job.rev, !.cursor = job.cursor]
                  ELSE [Time!Idle EXCEPT !.pc = "create", !.rev = revision]
<1>1. local' = [local EXCEPT ![p] = new]
  BY DEF Time!Look
<1>2. Time!Resumable(p) => job.gen # 0
  BY DEF Time!Resumable, StableInv, JobInv
<1>3. job.gen \in Nat /\ job.rev \in Nat /\ job.cursor \in Nat /\ revision \in Nat
  BY DEF StableInv, TimeTypes, JobType
<1>4. /\ new \in Local
      /\ IF Time!Resumable(p)
         THEN /\ new.pc = IF job.status = "ready" THEN "claim" ELSE "stage"
              /\ new.gen = job.gen /\ new.rev = job.rev /\ new.cursor = job.cursor /\ new.gen # 0
         ELSE new.pc = "create" /\ new.rev = revision /\ new.cursor = 0
      /\ new.page = {}
  BY <1>2, <1>3 DEF Time!Idle, Local, Places
<1> HIDE DEF new
<1>5. QED
  BY <1>1, <1>4

LEMMA CreateIs ==
  ASSUME TimeTypes, NEW p \in Rebuilders, Time!Create(p)
  PROVE  /\ job' \in JobType /\ job'.gen # 0 /\ job'.gen # job.gen /\ job'.zone = ZoneOf[p]
         /\ job'.gen <= Cardinality(Rebuilders) + 2
         /\ job'.status = "building" /\ job'.rev = local[p].rev /\ job'.cursor = 0
         /\ \A q \in Rebuilders : job'.gen # local[q].gen
         /\ staged' = {} /\ snapshot' = {}
         /\ state' \in StateType /\ state'.status = "building"
         /\ \E new \in Local :
              /\ local' = [local EXCEPT ![p] = new]
              /\ new.pc = "stage" /\ new.gen = job'.gen /\ new.rev = local[p].rev
              /\ new.cursor = local[p].cursor /\ new.page = local[p].page
<1> DEFINE g == Time!NewGeneration
           new == [local[p] EXCEPT !.pc = "stage", !.gen = g]
<1>1. /\ job' = [Time!NoJob EXCEPT !.gen = g, !.zone = ZoneOf[p], !.status = "building", !.rev = local[p].rev]
      /\ staged' = {} /\ snapshot' = {} /\ state' = Time!State("building", ZoneOf[p], local[p].rev)
      /\ local' = [local EXCEPT ![p] = [@ EXCEPT !.pc = "stage", !.gen = job'.gen]]
  BY DEF Time!Create
<1>2. g \in Nat /\ g # 0 /\ g # job.gen /\ g <= Cardinality(Rebuilders) + 2 /\ \A q \in Rebuilders : g # local[q].gen
  BY FreshGeneration
<1> HIDE DEF g
<1>3. ZoneOf[p] \in Zones /\ local[p] \in Local /\ local[p].rev \in Nat
  BY Sized DEF Time!Sizes, TimeTypes, Local
<1>4. /\ job' \in JobType /\ job'.gen = g /\ job'.zone = ZoneOf[p]
      /\ job'.status = "building" /\ job'.rev = local[p].rev /\ job'.cursor = 0
  BY <1>1, <1>2, <1>3 DEF Time!NoJob, JobType
<1>5. state' \in StateType /\ state'.status = "building"
  BY <1>1, <1>3 DEF Time!State, StateType
<1>6. local' = [local EXCEPT ![p] = new]
  BY <1>1, <1>4
<1>7. /\ new \in Local /\ new.pc = "stage" /\ new.gen = g /\ new.rev = local[p].rev
      /\ new.cursor = local[p].cursor /\ new.page = local[p].page
  BY <1>2, <1>3 DEF Local, Places
<1> HIDE DEF new
<1>8. QED
  BY <1>1, <1>2, <1>4, <1>5, <1>6, <1>7

\* A failure: the job of p is failed, or p gives up.
LEMMA FailIs ==
  ASSUME TimeTypes, NEW p \in Rebuilders, NEW claimed \in BOOLEAN, Time!Fail(p, claimed)
  PROVE  /\ \/ /\ Time!Mine(p) /\ Time!Go(p, "failing") /\ job' \in JobType /\ job'.gen = job.gen /\ job'.status = "failed"
               /\ job'.zone = job.zone /\ job'.rev = job.rev /\ job'.cursor = job.cursor
            \/ local' = [local EXCEPT ![p] = Time!Idle] /\ UNCHANGED job
         /\ UNCHANGED <<neurons, revision, used, touches, state, entries, staged, snapshot, listed, forgets>>
  BY DEF Time!Fail, TimeTypes, JobType, Time!source, Time!shown, Time!erasing

LEMMA RebuildStable ==
  ASSUME StableInv, NEW p \in Rebuilders, Time!Rebuild(p)
  PROVE  StableInv' /\ Grows
<1> USE DEF StableInv
<1>1. CASE Time!Look(p)
  <2>1. UNCHANGED <<neurons, revision, state, entries, job>>
    BY <1>1 DEF Time!Look, Time!source, Time!shown, Time!work
  <2>2. QED
    BY <1>1, <2>1, LookIs, QuietMove DEF TimeTypes
<1>2. CASE Time!Create(p)
  <2>1. UNCHANGED <<neurons, revision, entries>>
    BY <1>2 DEF Time!Create, Time!source
  <2>2. PICK new \in Local : local' = [local EXCEPT ![p] = new] /\ new.pc = "stage" /\ new.gen = job'.gen
    BY <1>2, CreateIs
  <2>3. /\ job' \in JobType /\ job'.gen # 0 /\ job'.status = "building"
        /\ state' \in StateType /\ state'.status = "building"
    BY <1>2, CreateIs
  <2>4. /\ local' \in [Rebuilders -> Local]
        /\ \A q \in Rebuilders : local'[q].pc \notin {"idle", "create"} => local'[q].gen # 0
    BY <2>2, <2>3, OneMoves
  <2>5. QED
    BY <2>1, <2>3, <2>4 DEF TimeTypes, JobInv, Grows
<1>3. CASE Time!ReadForStage(p) \/ Time!ReadForSnapshot(p)
  <2>1. PICK pc \in {"stage", "copy"}, write \in Places, done \in Places : Time!Read(p, pc, write, done)
    BY <1>3 DEF Time!ReadForStage, Time!ReadForSnapshot, Places
  <2>2. UNCHANGED <<neurons, revision, state, entries, job>> /\ local[p].pc = pc
    BY <2>1 DEF Time!Read, Time!At, Time!source, Time!shown, Time!work
  <2>3. local[p].gen # 0
    BY <2>2 DEF JobInv
  <2>4. PICK new \in Local : local' = [local EXCEPT ![p] = new] /\ new.gen = local[p].gen
    BY <2>1, ReadIs
  <2>5. job' \in JobType
    BY <2>2 DEF TimeTypes
  <2>6. QED
    BY <2>2, <2>3, <2>4, <2>5, QuietMove
<1>4. ASSUME NEW pc \in Places, Time!Go(p, pc), local[p].pc \notin {"idle", "create"},
             UNCHANGED <<neurons, revision, state, entries>>,
             job' \in JobType, job'.gen = job.gen, job'.status = "none" <=> job.status = "none"
      PROVE  StableInv' /\ Grows
  <2>1. local[p].gen # 0
    BY <1>4 DEF JobInv
  <2>2. QED
    BY <1>4, <2>1, GoIs, QuietMove
<1>5. CASE Time!Stage(p)
  <2>1. /\ Time!Go(p, "stage") /\ local[p].pc = "staging" /\ UNCHANGED <<neurons, revision, state, entries>>
        /\ job' = IF job.status = "building" THEN [job EXCEPT !.cursor = local[p].cursor] ELSE job
    BY <1>5 DEF Time!Stage, Time!At, Time!source, Time!shown
  <2>2. job' \in JobType /\ job'.gen = job.gen /\ job'.status = job.status
    BY <2>1 DEF TimeTypes, JobType, Local
  <2>3. QED
    BY <1>4, <2>1, <2>2 DEF Places
<1>6. CASE Time!ClearSnapshot(p) \/ Time!Copy(p) \/ Time!Check(p)
  <2>1. PICK pc \in Places : Time!Go(p, pc)
    BY <1>6 DEF Time!ClearSnapshot, Time!Copy, Time!Check, Places
  <2>2. /\ local[p].pc \notin {"idle", "create"} /\ UNCHANGED <<neurons, revision, state, entries, job>>
    BY <1>6 DEF Time!ClearSnapshot, Time!Copy, Time!Check, Time!At, Time!source, Time!shown, Time!work
  <2>3. QED
    BY <1>4, <2>1, <2>2 DEF TimeTypes
<1>7. CASE Time!MarkReady(p) \/ Time!Claim(p)
  <2>1. PICK pc \in Places : Time!Go(p, pc)
    BY <1>7 DEF Time!MarkReady, Time!Claim, Places
  <2>2. /\ local[p].pc \notin {"idle", "create"} /\ UNCHANGED <<neurons, revision, state, entries>>
    BY <1>7 DEF Time!MarkReady, Time!Claim, Time!At, Time!source, Time!shown
  <2>3. job' \in JobType /\ job'.gen = job.gen /\ (job'.status = "none" <=> job.status = "none")
    BY <1>7 DEF Time!MarkReady, Time!Claim, Time!Claimable, TimeTypes, JobType
  <2>4. QED
    BY <1>4, <2>1, <2>2, <2>3
<1>8. CASE Time!Publish(p)
  <2>1. /\ job.status = "ready" /\ local[p].pc = "publish" /\ Time!Go(p, "finish") /\ job' = [job EXCEPT !.leased = TRUE]
        /\ UNCHANGED <<neurons, revision, state>>
    BY <1>8 DEF Time!Publish, Time!Owned, Time!At, Time!source
  <2>2. job' \in JobType /\ job'.gen = job.gen /\ job'.status = job.status
    BY <2>1 DEF TimeTypes, JobType
  <2>3. \A z : ~Time!Usable(z)
    BY <2>1 DEF JobInv, Time!Usable, Time!State, Time!NoState
  <2>4. local[p].gen # 0
    BY <2>1 DEF JobInv
  <2>5. PICK new \in Local : local' = [local EXCEPT ![p] = new] /\ new.gen = local[p].gen
    BY <2>1, GoIs DEF Places
  <2>6. /\ local' \in [Rebuilders -> Local]
        /\ \A q \in Rebuilders : local'[q].pc \notin {"idle", "create"} => local'[q].gen # 0
    BY <2>4, <2>5, OneMoves
  <2>7. QED
    BY <2>1, <2>2, <2>3, <2>6 DEF TimeTypes, JobInv, Grows
<1>9. CASE Time!Finish(p)
  <2>1. /\ state' = Time!State("clean", ZoneOf[p], local[p].rev) /\ job' = Time!NoJob /\ local' = [local EXCEPT ![p] = Time!Idle]
        /\ UNCHANGED <<neurons, revision, entries>>
    BY <1>9 DEF Time!Finish, Time!source
  <2>2. ZoneOf[p] \in Zones /\ local[p].rev \in Nat
    BY Sized DEF Time!Sizes, TimeTypes, Local
  <2>3. state' \in StateType /\ job' \in JobType /\ job'.gen = 0 /\ job'.status = "none"
    BY <2>1, <2>2 DEF Time!State, StateType, Time!NoJob, JobType
  <2>4. /\ local' \in [Rebuilders -> Local]
        /\ \A q \in Rebuilders : local'[q].pc \notin {"idle", "create"} => local'[q].gen # 0
    BY <2>1, OneMoves, IdleIsLocal
  <2>5. QED
    BY <2>1, <2>3, <2>4 DEF TimeTypes, JobInv, Grows
<1>10. CASE Time!Throws(p)
  <2>1. PICK claimed \in BOOLEAN : Time!Fail(p, claimed)
    BY <1>10 DEF Time!Throws
  <2>2. local[p].pc \notin {"idle", "create"}
    BY <1>10 DEF Time!Throws, Time!At
  <2>3. UNCHANGED <<neurons, revision, state, entries>>
    BY <2>1, FailIs
  <2>4. CASE Time!Mine(p) /\ Time!Go(p, "failing") /\ job' \in JobType /\ job'.gen = job.gen /\ job'.status = "failed"
    <3>1. job.status # "none"
      BY <2>2, <2>4 DEF JobInv, Time!Mine
    <3>2. QED
      BY <1>4, <2>2, <2>3, <2>4, <3>1 DEF Places
  <2>5. CASE local' = [local EXCEPT ![p] = Time!Idle] /\ UNCHANGED job
    BY <2>3, <2>5, IdleIsLocal, QuietMove DEF TimeTypes
  <2>6. QED
    BY <2>1, <2>4, <2>5, FailIs
<1>11. CASE Time!MarkFailed(p)
  <2>1. /\ state' = Time!State("failed", ZoneOf[p], revision) /\ local' = [local EXCEPT ![p] = Time!Idle]
        /\ UNCHANGED <<neurons, revision, entries, job>>
    BY <1>11 DEF Time!MarkFailed, Time!source, Time!work
  <2>2. ZoneOf[p] \in Zones
    BY Sized DEF Time!Sizes
  <2>3. state' \in StateType /\ state'.status = "failed"
    BY <2>1, <2>2 DEF Time!State, StateType, TimeTypes
  <2>4. /\ local' \in [Rebuilders -> Local]
        /\ \A q \in Rebuilders : local'[q].pc \notin {"idle", "create"} => local'[q].gen # 0
    BY <2>1, OneMoves, IdleIsLocal
  <2>5. QED
    BY <2>1, <2>3, <2>4 DEF TimeTypes, JobInv, Grows
<1>12. QED
  BY <1>1, <1>2, <1>3, <1>5, <1>6, <1>7, <1>8, <1>9, <1>10, <1>11 DEF Time!Rebuild

LEMMA CrashStable ==
  ASSUME StableInv, NEW p \in Rebuilders, Time!Crash(p)
  PROVE  StableInv' /\ Grows
<1>1. /\ local' = [local EXCEPT ![p] = Time!Idle] /\ UNCHANGED <<neurons, revision, state, entries>>
      /\ job' = IF job.token = p THEN [job EXCEPT !.token = Lost] ELSE job
  BY DEF Time!Crash, Time!source, Time!shown
<1>2. job' \in JobType /\ job'.gen = job.gen /\ job'.status = job.status
  BY <1>1 DEF StableInv, TimeTypes, JobType
<1>3. QED
  BY <1>1, <1>2, IdleIsLocal, QuietMove

LEMMA StableNext ==
  ASSUME StableInv, [Time!Next]_(Time!vars)
  PROVE  StableInv' /\ Grows
<1>1. CASE UNCHANGED Time!vars
  BY <1>1 DEF Time!vars, Time!source, Time!shown, Time!work, StableInv, TimeTypes, JobInv, Grows
<1>2. CASE Time!LeaseExpires
  <2>1. job' = [job EXCEPT !.leased = FALSE] /\ UNCHANGED <<neurons, revision, state, entries, local>>
    BY <1>2 DEF Time!LeaseExpires, Time!source, Time!shown
  <2>2. job' \in JobType /\ job'.gen = job.gen /\ job'.status = job.status
    BY <2>1 DEF StableInv, TimeTypes, JobType
  <2>3. QED
    BY <2>1, <2>2 DEF StableInv, TimeTypes, JobInv, Grows
<1>3. QED
  BY <1>1, <1>2, WriterStable, RebuildStable, CrashStable DEF Time!Next

THEOREM StableWhileUsable == Time!Spec => Time!UsableIsStable
<1>1. StableInv /\ [Time!Next]_(Time!vars) =>
        [\A z \in Zones : Time!Usable(z) /\ Time!Usable(z)' /\ listed = listed' => entries \subseteq entries']_(Time!vars)
  BY StableNext DEF Grows
<1>2. StableInv /\ [Time!Next]_(Time!vars) => StableInv'
  BY StableNext
<1>3. QED
  BY <1>1, <1>2, StableInit, PTL DEF Time!Spec, Time!UsableIsStable

-----------------------------------------------------------------------------
(* What the projection holds.                                                *)

\* Everything held is of neurons that were there, a page ends at one of them, a job has a
\* zone, and as many generations can be told apart as processes may refer to.
HeldInv == /\ used \subseteq Time!Neuron /\ neurons \subseteq used
           /\ entries \subseteq used \X Zones
           /\ staged \subseteq used /\ snapshot \subseteq used /\ listed \subseteq used
           /\ job.gen <= Cardinality(Rebuilders) + 2 /\ job.cursor <= N
           /\ job.status # "none" => job.zone \in Zones
           /\ \A p \in Rebuilders : local[p].page \subseteq used /\ local[p].cursor <= N

LEMMA HeldInit == Time!Init => HeldInv
<1>1. Cardinality(Rebuilders) \in Nat /\ N \in Nat
  BY Sized, SameFinite, FS_CardinalityType DEF Time!Sizes
<1>2. QED
  BY <1>1 DEF Time!Init, HeldInv, Time!NoJob, Time!Idle

\* The writers add a neuron, with or without its entry, or take some away.
LEMMA WriterHeld ==
  ASSUME StableInv, HeldInv,
         \/ \E n \in Time!Neuron : Time!AddNeuron(n) \/ \E z \in Zones : Time!Ingest(z, n)
         \/ Time!UpdateMetadata \/ Time!ForgetList \/ Time!ForgetDelete
  PROVE  HeldInv'
<1>1. ASSUME NEW n \in Time!Neuron, Time!AddNeuron(n) \/ \E z \in Zones : Time!Ingest(z, n) PROVE HeldInv'
  <2>1. /\ used' = used \cup {n} /\ neurons' = neurons \cup {n}
        /\ UNCHANGED <<job, staged, snapshot, listed, local>>
        /\ entries' = entries \/ \E z \in Zones : entries' = entries \cup {<<n, z>>}
    BY <1>1 DEF Time!AddNeuron, Time!Ingest, Time!work, Time!erasing
  <2>2. QED
    BY <2>1 DEF HeldInv
<1>2. CASE Time!UpdateMetadata
  <2>1. UNCHANGED <<used, neurons, entries, job, staged, snapshot, listed, local>>
    BY <1>2 DEF Time!UpdateMetadata, Time!work, Time!erasing
  <2>2. QED
    BY <2>1 DEF HeldInv
<1>3. CASE Time!ForgetList
  <2>1. listed' = neurons /\ UNCHANGED <<used, neurons, entries, job, staged, snapshot, local>>
    BY <1>3 DEF Time!ForgetList, Time!source, Time!shown, Time!work
  <2>2. QED
    BY <2>1 DEF HeldInv
<1>4. CASE Time!ForgetDelete
  <2>1. /\ neurons' = neurons \ listed /\ entries' = {} /\ job' = Time!NoJob
        /\ staged' = {} /\ snapshot' = {} /\ listed' = {} /\ UNCHANGED <<used, local>>
    BY <1>4 DEF Time!ForgetDelete
  <2>2. Cardinality(Rebuilders) \in Nat /\ N \in Nat
    BY Sized, SameFinite, FS_CardinalityType DEF Time!Sizes
  <2>3. QED
    BY <2>1, <2>2 DEF HeldInv, Time!NoJob
<1>5. QED
  BY <1>1, <1>2, <1>3, <1>4

\* A step of a rebuilder adds no neuron: what it takes in must be of those there were.
LEMMA HeldMove ==
  ASSUME TimeTypes, HeldInv, NEW p \in Rebuilders, NEW new \in Local, local' = [local EXCEPT ![p] = new],
         new.page \subseteq used, new.cursor <= N, UNCHANGED <<used, neurons, listed>>,
         entries' \subseteq used \X Zones, staged' \subseteq used, snapshot' \subseteq used,
         job'.gen <= Cardinality(Rebuilders) + 2, job'.cursor <= N, job'.status # "none" => job'.zone \in Zones
  PROVE  HeldInv'
<1>1. local'[p] = new /\ \A q \in Rebuilders \ {p} : local'[q] = local[q]
  BY DEF TimeTypes
<1>2. QED
  BY <1>1 DEF HeldInv

\* One that only goes on.
LEMMA HeldGo ==
  ASSUME TimeTypes, HeldInv, NEW p \in Rebuilders, NEW pc \in Places, Time!Go(p, pc),
         UNCHANGED <<used, neurons, listed>>,
         entries' \subseteq used \X Zones, staged' \subseteq used, snapshot' \subseteq used,
         job'.gen <= Cardinality(Rebuilders) + 2, job'.cursor <= N, job'.status # "none" => job'.zone \in Zones
  PROVE  HeldInv'
<1>1. PICK new \in Local : /\ local' = [local EXCEPT ![p] = new]
                           /\ new.cursor = local[p].cursor /\ new.page = local[p].page
  BY GoIs
<1>2. new.page \subseteq used /\ new.cursor <= N
  BY <1>1 DEF HeldInv
<1>3. QED
  BY <1>1, <1>2, HeldMove

LEMMA IdleHolds == Time!Idle \in Local /\ Time!Idle.page = {} /\ Time!Idle.cursor <= N
  BY Sized DEF Time!Idle, Local, Places, Time!Sizes

LEMMA RebuildHeld ==
  ASSUME StableInv, HeldInv, NEW p \in Rebuilders, Time!Rebuild(p)
  PROVE  HeldInv'
<1> USE DEF StableInv, Time!source, Time!shown, Time!work, Time!erasing
<1>1. N \in Nat /\ Cardinality(Rebuilders) \in Nat /\ ZoneOf[p] \in Zones
  BY Sized, SameFinite, FS_CardinalityType DEF Time!Sizes
<1>2. /\ entries \subseteq used \X Zones /\ staged \subseteq used /\ snapshot \subseteq used
      /\ job.gen <= Cardinality(Rebuilders) + 2 /\ job.cursor <= N
      /\ job.status # "none" => job.zone \in Zones
      /\ local[p].page \subseteq used /\ local[p].cursor <= N
  BY DEF HeldInv
<1>3. CASE Time!Look(p)
  <2>1. PICK new \in Local : /\ local' = [local EXCEPT ![p] = new] /\ new.page = {}
                             /\ new.cursor = job.cursor \/ new.cursor = 0
    BY <1>3, LookIs
  <2>2. new.cursor <= N
    BY <1>1, <1>2, <2>1
  <2>3. UNCHANGED <<used, neurons, listed, entries, staged, snapshot, job>>
    BY <1>3 DEF Time!Look
  <2>4. QED
    BY <1>2, <2>1, <2>2, <2>3, HeldMove
<1>4. CASE Time!Create(p)
  <2>1. PICK new \in Local : /\ local' = [local EXCEPT ![p] = new]
                             /\ new.cursor = local[p].cursor /\ new.page = local[p].page
    BY <1>4, CreateIs
  <2>2. /\ job'.gen <= Cardinality(Rebuilders) + 2 /\ job'.cursor <= N /\ job'.zone \in Zones
        /\ staged' = {} /\ snapshot' = {}
    BY <1>1, <1>4, CreateIs
  <2>3. UNCHANGED <<used, neurons, listed, entries>>
    BY <1>4 DEF Time!Create
  <2>4. QED
    BY <1>2, <2>1, <2>2, <2>3, HeldMove
<1>5. CASE Time!ReadForStage(p) \/ Time!ReadForSnapshot(p)
  <2>1. PICK pc \in {"stage", "copy"}, write \in Places, done \in Places : Time!Read(p, pc, write, done)
    BY <1>5 DEF Time!ReadForStage, Time!ReadForSnapshot, Places
  <2>2. PICK new \in Local :
          /\ local' = [local EXCEPT ![p] = new]
          /\ new.gen = local[p].gen /\ new.rev = local[p].rev /\ new.page = Time!PageAfter(local[p].cursor)
          /\ IF new.page = {} THEN new.pc = done /\ new.cursor = 0
                              ELSE new.pc = write /\ new.cursor = Time!Max(new.page)
    BY <2>1, ReadIs
  <2>3. new.page \subseteq used /\ new.page \in SUBSET Time!Neuron
    BY <2>2 DEF Time!PageAfter, HeldInv
  <2>4. new.cursor <= N
    BY <1>1, <2>2, <2>3, LastOnPage DEF Time!Neuron
  <2>5. UNCHANGED <<used, neurons, listed, entries, staged, snapshot, job>>
    BY <2>1 DEF Time!Read
  <2>6. QED
    BY <1>2, <2>2, <2>3, <2>4, <2>5, HeldMove
<1>6. CASE Time!Stage(p)
  <2>1. /\ Time!Go(p, "stage") /\ staged' = staged \cup local[p].page
        /\ job' = IF job.status = "building" THEN [job EXCEPT !.cursor = local[p].cursor] ELSE job
        /\ UNCHANGED <<used, neurons, listed, entries, snapshot>>
    BY <1>6 DEF Time!Stage
  <2>2. job'.gen = job.gen /\ job'.cursor <= N /\ job'.status = job.status /\ job'.zone = job.zone
    BY <1>2, <2>1 DEF TimeTypes, JobType
  <2>3. QED
    BY <1>2, <2>1, <2>2, HeldGo DEF Places
<1>7. CASE Time!ClearSnapshot(p) \/ Time!Copy(p) \/ Time!Check(p)
  <2>1. PICK pc \in Places : Time!Go(p, pc)
    BY <1>7 DEF Time!ClearSnapshot, Time!Copy, Time!Check, Places
  <2>2. snapshot' \subseteq used /\ UNCHANGED <<used, neurons, listed, entries, staged, job>>
    BY <1>2, <1>7 DEF Time!ClearSnapshot, Time!Copy, Time!Check
  <2>3. QED
    BY <1>2, <2>1, <2>2, HeldGo
<1>8. CASE Time!MarkReady(p) \/ Time!Claim(p)
  <2>1. PICK pc \in Places : Time!Go(p, pc)
    BY <1>8 DEF Time!MarkReady, Time!Claim, Places
  <2>2. /\ job'.gen = job.gen /\ job'.cursor = job.cursor /\ job'.zone = job.zone
        /\ job'.status # "none" => job.status # "none"
    BY <1>8 DEF Time!MarkReady, Time!Claim, TimeTypes, JobType
  <2>3. UNCHANGED <<used, neurons, listed, entries, staged, snapshot>>
    BY <1>8 DEF Time!MarkReady, Time!Claim
  <2>4. QED
    BY <1>2, <2>1, <2>2, <2>3, HeldGo
<1>9. CASE Time!Publish(p)
  <2>1. /\ Time!Go(p, "finish") /\ job' = [job EXCEPT !.leased = TRUE] /\ job.status = "ready"
        /\ entries' = (staged \cap snapshot) \X {job.zone}
        /\ UNCHANGED <<used, neurons, listed, staged, snapshot>>
    BY <1>9 DEF Time!Publish, Time!Owned
  <2>2. job'.gen = job.gen /\ job'.cursor = job.cursor /\ job'.zone = job.zone /\ job.zone \in Zones
    BY <1>2, <2>1 DEF TimeTypes, JobType
  <2>3. entries' \subseteq used \X Zones
    BY <1>2, <2>1, <2>2
  <2>4. QED
    BY <1>2, <2>1, <2>2, <2>3, HeldGo DEF Places
<1>10. CASE Time!Finish(p)
  <2>1. /\ job' = Time!NoJob /\ staged' = {} /\ snapshot' = {} /\ local' = [local EXCEPT ![p] = Time!Idle]
        /\ UNCHANGED <<used, neurons, listed, entries>>
    BY <1>10 DEF Time!Finish
  <2>2. job'.gen <= Cardinality(Rebuilders) + 2 /\ job'.cursor <= N /\ job'.status = "none"
    BY <1>1, <2>1 DEF Time!NoJob
  <2>3. QED
    BY <1>2, <2>1, <2>2, HeldMove, IdleHolds
<1>11. CASE Time!Throws(p)
  <2>1. PICK claimed \in BOOLEAN : Time!Fail(p, claimed)
    BY <1>11 DEF Time!Throws
  <2>2. UNCHANGED <<used, neurons, listed, entries, staged, snapshot>>
    BY <2>1, FailIs
  <2>3. local[p].pc \notin {"idle", "create"}
    BY <1>11 DEF Time!Throws, Time!At
  <2>4. CASE /\ Time!Mine(p) /\ Time!Go(p, "failing") /\ job'.gen = job.gen
             /\ job'.zone = job.zone /\ job'.cursor = job.cursor
    <3>1. job.status # "none"
      BY <2>3, <2>4 DEF JobInv, Time!Mine
    <3>2. QED
      BY <1>2, <2>2, <2>4, <3>1, HeldGo DEF Places
  <2>5. CASE local' = [local EXCEPT ![p] = Time!Idle] /\ UNCHANGED job
    BY <1>2, <2>2, <2>5, HeldMove, IdleHolds
  <2>6. QED
    BY <2>1, <2>4, <2>5, FailIs
<1>12. CASE Time!MarkFailed(p)
  <2>1. local' = [local EXCEPT ![p] = Time!Idle] /\ UNCHANGED <<used, neurons, listed, entries, staged, snapshot, job>>
    BY <1>12 DEF Time!MarkFailed
  <2>2. QED
    BY <1>2, <2>1, HeldMove, IdleHolds
<1>13. QED
  BY <1>3, <1>4, <1>5, <1>6, <1>7, <1>8, <1>9, <1>10, <1>11, <1>12 DEF Time!Rebuild

LEMMA HeldNext == StableInv /\ HeldInv /\ [Time!Next]_(Time!vars) => HeldInv'
<1> SUFFICES ASSUME StableInv, HeldInv, [Time!Next]_(Time!vars) PROVE HeldInv'
  OBVIOUS
<1>1. CASE UNCHANGED Time!vars
  BY <1>1 DEF Time!vars, Time!source, Time!shown, Time!work, Time!erasing, HeldInv
<1>2. CASE Time!LeaseExpires
  <2>1. job' = [job EXCEPT !.leased = FALSE] /\ UNCHANGED <<used, neurons, listed, entries, staged, snapshot, local>>
    BY <1>2 DEF Time!LeaseExpires, Time!source, Time!shown, Time!erasing
  <2>2. job'.gen = job.gen /\ job'.cursor = job.cursor /\ job'.zone = job.zone /\ job'.status = job.status
    BY <2>1 DEF StableInv, TimeTypes, JobType
  <2>3. QED
    BY <2>1, <2>2 DEF HeldInv
<1>3. ASSUME NEW p \in Rebuilders, Time!Crash(p) PROVE HeldInv'
  <2>1. /\ local' = [local EXCEPT ![p] = Time!Idle]
        /\ UNCHANGED <<used, neurons, listed, entries, staged, snapshot>>
        /\ job' = IF job.token = p THEN [job EXCEPT !.token = Lost] ELSE job
    BY <1>3 DEF Time!Crash, Time!source, Time!shown, Time!erasing
  <2>2. job'.gen = job.gen /\ job'.cursor = job.cursor /\ job'.zone = job.zone /\ job'.status = job.status
    BY <2>1 DEF StableInv, TimeTypes, JobType
  <2>3. /\ entries \subseteq used \X Zones /\ staged \subseteq used /\ snapshot \subseteq used
        /\ job.gen <= Cardinality(Rebuilders) + 2 /\ job.cursor <= N /\ (job.status # "none" => job.zone \in Zones)
    BY DEF HeldInv
  <2>4. QED
    BY <2>1, <2>2, <2>3, HeldMove, IdleHolds DEF StableInv
<1>4. QED
  BY <1>1, <1>2, <1>3, WriterHeld, RebuildHeld DEF Time!Next

\* The variables of the time projection keep their types.
THEOREM TimeTyped == Time!Spec => []Time!TypeOK
<1>1. StableInv /\ HeldInv => Time!TypeOK
  <2> SUFFICES ASSUME StableInv, HeldInv PROVE Time!TypeOK
    OBVIOUS
  <2>1. job \in JobType /\ state \in StateType /\ revision \in Nat /\ N \in Nat /\ Cardinality(Rebuilders) \in Nat
    BY Sized, SameFinite, FS_CardinalityType DEF StableInv, TimeTypes, Time!Sizes
  <2>2. job.gen \in 0..Cardinality(Rebuilders) + 2 /\ job.cursor \in 0..N
    BY <2>1 DEF HeldInv, JobType
  <2>3. job.gen \in 0..Time!Cardinality(Rebuilders) + 2
    BY <2>2, SameCount
  <2>4. QED
    BY <2>1, <2>2, <2>3 DEF HeldInv, JobType, StateType, Time!TypeOK
<1>2. StableInv /\ [Time!Next]_(Time!vars) => StableInv'
  BY StableNext
<1>3. QED
  BY <1>1, <1>2, StableInit, HeldInit, HeldNext, PTL DEF Time!Spec

-----------------------------------------------------------------------------
(* The runs that re-embed.                                                   *)

Run == [pc : {"idle", "list", "await"}, cursor : 0..MaxNeurons, batch : SUBSET Vectors!Neurons]

\* A run awaits a batch that fits and begins after its cursor.
RunInv == /\ calls \subseteq Vectors!Neurons
          /\ rerun \in [Runners -> Run]
          /\ \A r \in Runners : /\ rerun[r].batch # {} <=> rerun[r].pc = "await"
                                /\ Cardinality(rerun[r].batch) <= BatchSize
                                /\ \A n \in rerun[r].batch : n > rerun[r].cursor
          /\ progress \in [Models -> 0..MaxNeurons]
          /\ vfaults \in 0..MaxFaults /\ restarts \in 0..MaxRestarts

LEMMA SameVectorCount == \A S : Vectors!Cardinality(S) = Cardinality(S)
  BY Zenon DEF Vectors!Cardinality, Cardinality

LEMMA VectorBounds ==
  /\ MaxNeurons \in Nat /\ MaxFaults \in Nat /\ MaxRestarts \in Nat /\ BatchSize \in Nat \ {0}
  /\ \A S \in SUBSET Vectors!Neurons : IsFiniteSet(S) /\ Cardinality(S) \in Nat
<1>1. MaxNeurons \in Nat /\ MaxFaults \in Nat /\ MaxRestarts \in Nat /\ BatchSize \in Nat \ {0}
  BY Vectoring DEF Vectors!VectorAssumption
<1>2. IsFiniteSet(Vectors!Neurons)
  BY <1>1, FS_Interval DEF Vectors!Neurons
<1>3. \A S \in SUBSET Vectors!Neurons : IsFiniteSet(S)
  BY <1>2, FS_Subset
<1>4. QED
  BY <1>1, <1>3, FS_CardinalityType

\* A batch has a last neuron, to which the cursor goes.
LEMMA LastOfBatch ==
  ASSUME NEW batch \in SUBSET Vectors!Neurons, batch # {}
  PROVE  Vectors!Max(batch) \in batch /\ Vectors!Max(batch) \in 0..MaxNeurons
<1>1. MaxNeurons \in Nat /\ batch \in SUBSET (1..MaxNeurons)
  BY VectorBounds DEF Vectors!Neurons
<1>2. \E last \in batch : \A n \in batch : last >= n
  BY <1>1, LastOf
<1>3. Vectors!Max(batch) \in batch
  BY <1>2 DEF Vectors!Max
<1>4. PICK last \in batch : last = Vectors!Max(batch)
  BY <1>3
<1>5. last \in 0..MaxNeurons
  BY <1>1, <1>4
<1>6. QED
  BY <1>4, <1>5

\* A batch is of those after the cursor, and no more than may be embedded at once.
LEMMA BatchFits ==
  ASSUME NEW cursor
  PROVE  /\ Vectors!Listed(cursor) \in SUBSET Vectors!Neurons
         /\ \A n \in Vectors!Listed(cursor) : n > cursor
         /\ Cardinality(Vectors!Listed(cursor)) <= BatchSize
<1> DEFINE after == {n \in Vectors!Neurons : Vectors!Stale(n) /\ n > cursor}
           batch == Vectors!Listed(cursor)
           upto(n) == {k \in after : k <= n}
<1>1. batch = {n \in after : Cardinality(upto(n)) <= BatchSize}
  BY SameVectorCount DEF Vectors!Listed
<1>2. batch \in SUBSET Vectors!Neurons /\ \A n \in batch : n > cursor
  BY <1>1
<1>3. CASE batch = {}
  BY <1>2, <1>3, FS_EmptySet, VectorBounds
<1>4. CASE batch # {}
  <2>1. batch \in SUBSET (1..MaxNeurons) /\ MaxNeurons \in Nat
    BY <1>2, VectorBounds DEF Vectors!Neurons
  <2>2. PICK last \in batch : \A n \in batch : last >= n
    BY <1>4, <2>1, LastOf
  <2>3. batch \subseteq upto(last) /\ upto(last) \in SUBSET Vectors!Neurons
    <3>1. \A n \in batch : n \in after /\ n <= last
      BY <1>1, <2>1, <2>2
    <3>2. QED
      BY <3>1
  <2>4. Cardinality(upto(last)) <= BatchSize
    BY <1>1, <2>2
  <2> HIDE DEF batch, upto
  <2>5. Cardinality(batch) <= Cardinality(upto(last))
    BY <2>3, VectorBounds, FS_Subset
  <2>6. Cardinality(batch) \in Nat /\ Cardinality(upto(last)) \in Nat /\ BatchSize \in Nat
    BY <1>2, <2>3, VectorBounds
  <2>7. Cardinality(batch) <= BatchSize
    BY <2>4, <2>5, <2>6
  <2>8. QED
    BY <1>2, <2>7 DEF batch
<1>5. QED
  BY <1>3, <1>4

LEMMA IdleRuns ==
  /\ Vectors!Idle \in Run /\ Vectors!Idle.pc = "idle" /\ Vectors!Idle.batch = {}
  /\ Cardinality({}) = 0
  BY VectorBounds, FS_EmptySet DEF Vectors!Idle, Run

LEMMA RunsBegin ==
  ASSUME NEW runs, runs = [r \in Runners |-> Vectors!Idle]
  PROVE  /\ runs \in [Runners -> Run]
         /\ \A r \in Runners : /\ runs[r].batch # {} <=> runs[r].pc = "await"
                               /\ Cardinality(runs[r].batch) <= BatchSize
                               /\ \A n \in runs[r].batch : n > runs[r].cursor
<1>1. \A r \in Runners : runs[r] = Vectors!Idle
  OBVIOUS
<1>2. Cardinality(Vectors!Idle.batch) <= BatchSize
  BY VectorBounds, IdleRuns
<1>3. \A n \in Vectors!Idle.batch : n > Vectors!Idle.cursor
  BY IdleRuns
<1>4. QED
  BY <1>1, <1>2, <1>3, IdleRuns

LEMMA RunInit == Vectors!Init => RunInv
<1> SUFFICES ASSUME Vectors!Init PROVE RunInv
  OBVIOUS
<1>1. /\ calls = {} /\ rerun = [r \in Runners |-> Vectors!Idle] /\ progress = [m \in Models |-> 0]
      /\ vfaults = 0 /\ restarts = 0
  BY DEF Vectors!Init
<1>2. 0 \in 0..MaxNeurons /\ 0 \in 0..MaxFaults /\ 0 \in 0..MaxRestarts
  BY VectorBounds
<1>3. progress \in [Models -> 0..MaxNeurons]
  BY <1>1, <1>2
<1>4. QED
  BY <1>1, <1>2, <1>3, RunsBegin DEF RunInv

\* A step of one run, which becomes new.
LEMMA RunMoves ==
  ASSUME RunInv, NEW r \in Runners, NEW new \in Run, rerun' = [rerun EXCEPT ![r] = new],
         new.batch # {} <=> new.pc = "await", Cardinality(new.batch) <= BatchSize,
         \A n \in new.batch : n > new.cursor,
         progress' \in [Models -> 0..MaxNeurons], vfaults' \in 0..MaxFaults, UNCHANGED <<calls, restarts>>
  PROVE  RunInv'
<1>1. /\ rerun' \in [Runners -> Run] /\ rerun'[r] = new
      /\ \A q \in Runners \ {r} : rerun'[q] = rerun[q]
  BY DEF RunInv
<1>2. QED
  BY <1>1 DEF RunInv

LEMMA RerunTyped ==
  ASSUME VectorTypes, RunInv, NEW r \in Runners, Vectors!Rerun(r)
  PROVE  RunInv'
<1>1. UNCHANGED <<calls, restarts>> /\ model \in Models
  BY DEF Vectors!Rerun, Vectors!StartRun, Vectors!ListBatch, Vectors!WriteBatch, Vectors!RunThrows, VectorTypes
<1>2. /\ rerun[r] \in Run /\ progress \in [Models -> 0..MaxNeurons] /\ vfaults \in 0..MaxFaults
      /\ BatchSize \in Nat /\ MaxNeurons \in Nat /\ MaxFaults \in Nat
  BY VectorBounds DEF RunInv
<1>3. \A b \in BOOLEAN : Vectors!Fault(b) => vfaults' \in 0..MaxFaults
  BY <1>2 DEF Vectors!Fault
<1>4. Vectors!Idle.batch = {} /\ Cardinality(Vectors!Idle.batch) <= BatchSize /\ Vectors!Idle.pc # "await"
  BY <1>2, IdleRuns
<1>5. ASSUME rerun' = [rerun EXCEPT ![r] = Vectors!Idle], progress' \in [Models -> 0..MaxNeurons], vfaults' \in 0..MaxFaults
      PROVE  RunInv'
  BY <1>1, <1>4, <1>5, IdleRuns, RunMoves
<1>6. ASSUME NEW c \in 0..MaxNeurons, rerun' = [rerun EXCEPT ![r] = [pc |-> "list", cursor |-> c, batch |-> {}]],
             progress' \in [Models -> 0..MaxNeurons], vfaults' \in 0..MaxFaults
      PROVE  RunInv'
  <2> DEFINE new == [pc |-> "list", cursor |-> c, batch |-> {}]
  <2>1. new \in Run /\ new.pc # "await" /\ new.batch = {} /\ Cardinality(new.batch) <= BatchSize
    BY <1>2, IdleRuns DEF Run
  <2>2. rerun' = [rerun EXCEPT ![r] = new]
    BY <1>6
  <2> HIDE DEF new
  <2>3. QED
    BY <1>1, <1>6, <2>1, <2>2, RunMoves
<1>7. CASE Vectors!StartRun(r)
  <2>1. vfaults' = vfaults
    BY <1>7 DEF Vectors!StartRun
  <2>2. CASE \E n \in Vectors!Neurons : Vectors!Stale(n)
    <3>1. /\ rerun' = [rerun EXCEPT ![r] = [pc |-> "list", cursor |-> progress[model], batch |-> {}]]
          /\ progress' = progress
      BY <1>7, <2>2 DEF Vectors!StartRun
    <3>2. progress[model] \in 0..MaxNeurons
      BY <1>1, <1>2
    <3>3. QED
      BY <1>2, <1>6, <2>1, <3>1, <3>2
  <2>3. CASE ~\E n \in Vectors!Neurons : Vectors!Stale(n)
    <3>1. progress' = [progress EXCEPT ![model] = 0] /\ rerun' = rerun
      BY <1>7, <2>3 DEF Vectors!StartRun
    <3>2. QED
      BY <1>1, <1>2, <2>1, <3>1 DEF RunInv
  <2>4. QED
    BY <2>2, <2>3
<1>8. CASE Vectors!ListBatch(r)
  <2> DEFINE batch == Vectors!Listed(rerun[r].cursor)
  <2>1. vfaults' = vfaults
    BY <1>8 DEF Vectors!ListBatch
  <2>2. CASE batch = {}
    <3>1. progress' = [progress EXCEPT ![model] = 0] /\ rerun' = [rerun EXCEPT ![r] = Vectors!Idle]
      BY <1>8, <2>2 DEF Vectors!ListBatch, Vectors!ClearedCursor
    <3>2. 0 \in 0..MaxNeurons
      BY <1>2
    <3>3. progress' \in [Models -> 0..MaxNeurons]
      <4>1. progress' = [progress EXCEPT ![model] = 0]
        BY <3>1
      <4>2. QED
        BY <1>2, <3>2, <4>1
    <3>4. QED
      BY <1>2, <1>5, <2>1, <3>1, <3>3
  <2>3. CASE batch # {}
    <3> DEFINE new == [rerun[r] EXCEPT !.pc = "await", !.batch = batch]
    <3>1. progress' = progress /\ rerun' = [rerun EXCEPT ![r] = new]
      BY <1>8, <2>3 DEF Vectors!ListBatch
    <3>2. batch \in SUBSET Vectors!Neurons /\ Cardinality(batch) <= BatchSize /\ \A n \in batch : n > rerun[r].cursor
      BY BatchFits
    <3> HIDE DEF batch
    <3>3. new \in Run /\ new.pc = "await" /\ new.batch = batch /\ new.cursor = rerun[r].cursor
      BY <1>2, <3>2 DEF Run
    <3> HIDE DEF new
    <3>4. QED
      BY <1>1, <1>2, <2>1, <2>3, <3>1, <3>2, <3>3, RunMoves
  <2>4. QED
    BY <2>2, <2>3
<1>9. CASE Vectors!WriteBatch(r)
  <2> DEFINE last == Vectors!Max(rerun[r].batch)
  <2>1. rerun[r].pc = "await" /\ progress' = [progress EXCEPT ![model] = last]
    BY <1>9 DEF Vectors!WriteBatch
  <2>2. PICK got : Vectors!Fault(got # rerun[r].batch)
    BY <1>9 DEF Vectors!WriteBatch
  <2>3. \/ rerun' = [rerun EXCEPT ![r] = [pc |-> "list", cursor |-> last, batch |-> {}]]
        \/ rerun' = [rerun EXCEPT ![r] = Vectors!Idle]
    BY <1>9 DEF Vectors!WriteBatch
  <2>4. rerun[r].batch # {} /\ rerun[r].batch \in SUBSET Vectors!Neurons
    BY <1>2, <2>1 DEF RunInv, Run
  <2>5. last \in 0..MaxNeurons
    BY <2>4, LastOfBatch
  <2>6. vfaults' \in 0..MaxFaults
    BY <1>3, <2>2
  <2> HIDE DEF last
  <2>7. progress' \in [Models -> 0..MaxNeurons]
    BY <1>2, <2>1, <2>5
  <2>8. QED
    BY <1>5, <1>6, <2>3, <2>5, <2>6, <2>7
<1>10. CASE Vectors!RunThrows(r)
  <2>1. Vectors!Fault(TRUE) /\ progress' = progress /\ rerun' = [rerun EXCEPT ![r] = Vectors!Idle]
    BY <1>10 DEF Vectors!RunThrows
  <2>2. QED
    BY <1>2, <1>3, <1>5, <2>1
<1>11. QED
  BY <1>7, <1>8, <1>9, <1>10 DEF Vectors!Rerun

LEMMA RunNext == VectorInv /\ RunInv /\ [Vectors!Next]_(Vectors!vars) => RunInv'
<1> SUFFICES ASSUME VectorInv, RunInv, [Vectors!Next]_(Vectors!vars) PROVE RunInv'
  OBVIOUS
<1>1. vfaults \in 0..MaxFaults /\ MaxFaults \in Nat /\ restarts \in 0..MaxRestarts /\ MaxRestarts \in Nat
  BY VectorBounds DEF RunInv
<1>2. \A b \in BOOLEAN : Vectors!Fault(b) => vfaults' \in 0..MaxFaults
  BY <1>1 DEF Vectors!Fault
<1>3. CASE UNCHANGED Vectors!vars
  BY <1>3 DEF Vectors!vars, RunInv
<1>4. ASSUME NEW n \in Vectors!Neurons, Vectors!Ingest(n) PROVE RunInv'
  <2>1. /\ calls' = calls \cup {n} /\ UNCHANGED <<rerun, progress, restarts>>
        /\ \E added \in BOOLEAN : Vectors!Fault(~added)
    BY <1>4 DEF Vectors!Ingest
  <2>2. vfaults' \in 0..MaxFaults
    BY <1>2, <2>1
  <2>3. QED
    BY <2>1, <2>2 DEF RunInv
<1>5. ASSUME NEW n \in Vectors!Neurons, Vectors!EmbedReturns(n) PROVE RunInv'
  <2>1. calls' = calls \ {n} /\ UNCHANGED <<rerun, progress, vfaults, restarts>>
    BY <1>5 DEF Vectors!EmbedReturns
  <2>2. QED
    BY <2>1 DEF RunInv
<1>6. ASSUME NEW n, NEW to, Vectors!Metabolise(n, to) PROVE RunInv'
  <2>1. /\ UNCHANGED <<calls, rerun, progress, restarts>>
        /\ \E indexed, committed \in BOOLEAN : Vectors!Fault(~indexed \/ ~committed)
    BY <1>6 DEF Vectors!Metabolise
  <2>2. vfaults' \in 0..MaxFaults
    BY <1>2, <2>1
  <2>3. QED
    BY <2>1, <2>2 DEF RunInv
<1>7. CASE Vectors!Forget
  <2>1. progress' = [m \in Models |-> 0] /\ UNCHANGED <<calls, rerun, vfaults, restarts>>
    BY <1>7 DEF Vectors!Forget
  <2>2. QED
    BY <2>1, VectorBounds DEF RunInv
<1>8. CASE Vectors!Restart
  <2>1. /\ restarts < MaxRestarts /\ restarts' = restarts + 1 /\ calls' = {}
        /\ rerun' = [r \in Runners |-> Vectors!Idle] /\ UNCHANGED <<progress, vfaults>>
    BY <1>8 DEF Vectors!Restart
  <2>2. restarts' \in 0..MaxRestarts
    BY <1>1, <2>1
  <2>3. PICK runs : runs = [r \in Runners |-> Vectors!Idle]
    OBVIOUS
  <2>4. QED
    BY <2>1, <2>2, <2>3, RunsBegin DEF RunInv
<1>9. ASSUME NEW r \in Runners, Vectors!Rerun(r) PROVE RunInv'
  BY <1>9, RerunTyped DEF VectorInv
<1>10. QED
  BY <1>3, <1>4, <1>5, <1>6, <1>7, <1>8, <1>9 DEF Vectors!Next

\* The variables of the vectors keep their types, and no batch exceeds its size.
THEOREM VectorTyped == Vectors!Spec => []Vectors!TypeOK
<1>1. VectorInv /\ RunInv => Vectors!TypeOK
  BY SameVectorCount DEF VectorInv, VectorTypes, RunInv, Run, Vectors!TypeOK
<1>2. VectorInv /\ [Vectors!Next]_(Vectors!vars) => VectorInv'
  BY VectorNext
<1>3. QED
  BY <1>1, <1>2, VectorInit, RunInit, RunNext, PTL DEF Vectors!Spec

-----------------------------------------------------------------------------
(* What can be used is current, while one operator rebuilds.                 *)

Upto(c) == {n \in neurons : n <= c}

\* The others have never begun, and what is staged is of neurons that live.
AloneInv(r) == /\ listed = {}
               /\ \A q \in Rebuilders \ {r} : local[q] = Time!Idle
               /\ staged \subseteq neurons /\ snapshot \subseteq neurons /\ local[r].page \subseteq neurons

\* What is shown as clean at the source's revision is all of it.
ShownInv == /\ state.status = "none" <=> state = Time!NoState
            /\ state = Time!NoState /\ revision = 0 => neurons = {} /\ entries = {}
            /\ state.status = "clean" /\ state.rev = revision => entries = neurons \X {state.zone}

\* The job is the operator's, from its revision on.
WorkInv(r) ==
  /\ job.status # "none" => job.rev <= revision
  /\ local[r].rev <= revision
  /\ local[r].pc \notin {"idle", "create"} =>
       /\ job.gen = local[r].gen /\ job.status # "none" /\ job.zone = ZoneOf[r] /\ job.rev = local[r].rev
  /\ local[r].pc \in {"stage", "staging", "clear", "copy", "copying", "mark"} => job.status = "building"
  /\ local[r].pc \in {"claim", "claimed", "publish", "finish"} => job.status = "ready"
  /\ local[r].pc \in {"create", "clear"} => local[r].cursor = 0

\* How far the staging has come: from the source's revision on, nothing is missing.
CoverInv(r) ==
  job.status # "none" /\ job.rev = revision =>
    /\ Upto(job.cursor) \subseteq staged
    /\ job.status = "ready" => neurons \subseteq staged /\ neurons \subseteq snapshot
    /\ local[r].pc = "stage" => Upto(local[r].cursor) \subseteq staged
    /\ local[r].pc = "staging" => Upto(local[r].cursor) \subseteq staged \cup local[r].page
    /\ local[r].pc \in {"clear", "copy", "copying", "mark"} => neurons \subseteq staged
    /\ local[r].pc = "copy" => Upto(local[r].cursor) \subseteq snapshot
    /\ local[r].pc = "copying" => Upto(local[r].cursor) \subseteq snapshot \cup local[r].page
    /\ local[r].pc = "mark" => neurons \subseteq snapshot
    /\ local[r].pc = "finish" => entries = neurons \X {ZoneOf[r]}

CurrentInv(r) ==
  StableInv /\ AloneInv(r) /\ ShownInv /\ WorkInv(r) /\ CoverInv(r) /\ forgets \in Nat

LEMMA ShownIsCurrent == ShownInv => Time!UsableIsCurrent
<1> SUFFICES ASSUME ShownInv, NEW z \in Zones, Time!Usable(z) PROVE entries = neurons \X {z}
  BY DEF Time!UsableIsCurrent
<1>1. CASE state = Time!NoState
  BY <1>1 DEF Time!Usable, ShownInv
<1>2. CASE state # Time!NoState
  <2>1. state.status = "clean" /\ state.rev = revision /\ state.zone = z
    BY <1>2 DEF Time!Usable, Time!State
  <2>2. QED
    BY <2>1 DEF ShownInv
<1>3. QED
  BY <1>1, <1>2

\* A page is the next neurons, with no gap; without one there is no next neuron.
LEMMA PageCovers ==
  ASSUME TimeTypes, NEW c \in Nat, NEW page, page = Time!PageAfter(c)
  PROVE  /\ page \in SUBSET neurons
         /\ page = {} => Upto(c) = neurons
         /\ page # {} => Time!Max(page) \in Nat /\ Upto(Time!Max(page)) \subseteq Upto(c) \cup page
<1> DEFINE Between(n) == {k \in neurons : c < k /\ k <= n}
<1>1. /\ neurons \subseteq Time!Neuron /\ IsFiniteSet(Time!Neuron) /\ Limit \in Nat /\ 1 <= Limit
      /\ \A n \in neurons : n \in Nat
  BY Sized, FS_Interval DEF TimeTypes, Time!Neuron, Time!Sizes
<1>2. page = {n \in neurons : n > c /\ Cardinality(Between(n)) <= Limit}
  BY SameCount DEF Time!PageAfter, Between
<1> HIDE DEF Between
<1>3. ASSUME NEW n \in Nat PROVE IsFiniteSet(Between(n)) /\ Cardinality(Between(n)) \in Nat
  <2>1. Between(n) \subseteq Time!Neuron
    BY <1>1 DEF Between
  <2>2. IsFiniteSet(Between(n))
    BY <1>1, <2>1, FS_Subset
  <2>3. QED
    BY <2>2, FS_CardinalityType
<1>4. ASSUME page = {} PROVE Upto(c) = neurons
  <2>1. SUFFICES ASSUME NEW n \in neurons, ~(n <= c) PROVE FALSE
    BY <1>4 DEF Upto
  <2> DEFINE T == {k \in neurons : c < k}
  <2>2. T \in SUBSET Nat /\ T # {}
    <3>1. n \in Nat /\ c < n
      BY <1>1, <2>1
    <3>2. QED
      BY <1>1, <3>1
  <2>3. PICK b \in T : \A x \in T : ~(x < b)
    BY <2>2, NatOrder
  <2>4. Between(b) = {b}
    BY <1>1, <2>3 DEF Between
  <2>5. Cardinality(Between(b)) = 1
    BY <2>4, FS_Singleton
  <2>6. b \in page
    BY <1>1, <1>2, <2>3, <2>5
  <2>7. QED
    BY <1>4, <2>6
<1>5. ASSUME page # {} PROVE Time!Max(page) \in Nat /\ Upto(Time!Max(page)) \subseteq Upto(c) \cup page
  <2> DEFINE m == Time!Max(page)
  <2>1. page \in SUBSET Time!Neuron
    BY <1>1, <1>2
  <2>2. m \in page
    BY <1>5, <2>1, LastOnPage
  <2>3. m \in Nat /\ Cardinality(Between(m)) <= Limit
    BY <1>1, <1>2, <2>2
  <2> HIDE DEF m
  <2>4. ASSUME NEW n \in neurons, n <= m, ~(n <= c) PROVE n \in page
    <3>1. n \in Nat /\ c < n
      BY <1>1, <2>4
    <3>2. Between(n) \subseteq Between(m)
      <4>1. \A k \in neurons : k <= n => k <= m
        BY <1>1, <2>3, <2>4, <3>1
      <4>2. QED
        BY <4>1 DEF Between
    <3>3. Cardinality(Between(n)) <= Cardinality(Between(m))
      BY <1>3, <2>3, <3>2, FS_Subset
    <3>4. Cardinality(Between(n)) <= Limit
      BY <1>1, <1>3, <2>3, <3>1, <3>3
    <3>5. QED
      BY <1>2, <3>1, <3>4
  <2>5. Upto(m) \subseteq Upto(c) \cup page
    BY <2>4 DEF Upto
  <2>6. QED
    BY <2>3, <2>5 DEF m
<1>6. QED
  BY <1>2, <1>4, <1>5

LEMMA CurrentInit == ASSUME NEW r \in Rebuilders PROVE Time!Init => CurrentInv(r)
<1> SUFFICES ASSUME Time!Init PROVE CurrentInv(r)
  OBVIOUS
<1>1. local[r] = Time!Idle /\ job = Time!NoJob /\ state = Time!NoState /\ revision = 0
  BY DEF Time!Init
<1>2. AloneInv(r) /\ ShownInv
  BY <1>1 DEF Time!Init, AloneInv, ShownInv, Time!Idle, Time!NoState
<1>3. WorkInv(r) /\ CoverInv(r)
  BY <1>1 DEF WorkInv, CoverInv, Time!Idle, Time!NoJob
<1>4. forgets \in Nat
  BY DEF Time!Init
<1>5. QED
  BY <1>2, <1>3, <1>4, StableInit DEF CurrentInv

\* A write moves the revision past every job's.
LEMMA WriteCurrent ==
  ASSUME NEW r \in Rebuilders, CurrentInv(r),
         \/ \E n \in Time!Neuron : Time!AddNeuron(n) \/ \E z \in Zones : Time!Ingest(z, n)
         \/ Time!UpdateMetadata
  PROVE  AloneInv(r)' /\ ShownInv' /\ WorkInv(r)' /\ CoverInv(r)'
<1>1. /\ revision' = revision + 1 /\ neurons \subseteq neurons'
      /\ UNCHANGED <<job, staged, snapshot, listed, local>>
  BY DEF Time!AddNeuron, Time!Ingest, Time!UpdateMetadata, Time!work, Time!erasing
<1>2. revision \in Nat /\ job.rev \in Nat /\ local[r].rev \in Nat
  BY DEF CurrentInv, StableInv, TimeTypes, JobType, Local
<1>3. AloneInv(r)' /\ WorkInv(r)'
  BY <1>1, <1>2 DEF CurrentInv, AloneInv, WorkInv
<1>4. CoverInv(r)'
  BY <1>1, <1>2 DEF CurrentInv, WorkInv, CoverInv
<1>5. ShownInv'
  <2>1. CASE state' = Time!Dirtied
    BY <1>1, <1>2, <2>1 DEF Time!Dirtied, Time!State, ShownInv, Time!NoState
  <2>2. ASSUME NEW n \in Time!Neuron, NEW z \in Zones, Time!Ingest(z, n) PROVE ShownInv'
    <3>1. neurons' = neurons \cup {n}
      BY <2>2 DEF Time!Ingest
    <3>2. CASE Time!Incremental(z)
      <4>1. entries' = entries \cup {<<n, z>>} /\ state' = Time!State("clean", z, revision')
        BY <2>2, <3>2 DEF Time!Ingest
      <4>2. entries = neurons \X {z}
        <5>1. CASE state = Time!NoState
          BY <3>2, <5>1 DEF Time!Incremental, CurrentInv, ShownInv
        <5>2. CASE state # Time!NoState
          BY <3>2, <5>2 DEF Time!Incremental, Time!State, CurrentInv, ShownInv
        <5>3. QED
          BY <5>1, <5>2
      <4>3. entries' = neurons' \X {z}
        BY <3>1, <4>1, <4>2
      <4>4. QED
        BY <4>1, <4>3 DEF ShownInv, Time!State, Time!NoState
    <3>3. CASE ~Time!Incremental(z)
      <4>1. state' = Time!State("dirty", z, revision')
        BY <2>2, <3>3 DEF Time!Ingest
      <4>2. QED
        BY <4>1 DEF ShownInv, Time!State, Time!NoState
    <3>4. QED
      BY <3>2, <3>3
  <2>3. QED
    BY <2>1, <2>2 DEF Time!AddNeuron, Time!UpdateMetadata
<1>6. QED
  BY <1>3, <1>4, <1>5

\* A move of the operator that leaves the source, the projection and the job's identity.
LEMMA OperatorMoves ==
  ASSUME NEW r \in Rebuilders, CurrentInv(r), NEW new \in Local, local' = [local EXCEPT ![r] = new],
         UNCHANGED <<neurons, revision, listed>>,
         staged' \subseteq neurons, snapshot' \subseteq neurons, new.page \subseteq neurons
  PROVE  AloneInv(r)' /\ local'[r] = new
<1>1. local'[r] = new /\ \A q \in Rebuilders \ {r} : local'[q] = local[q]
  BY DEF CurrentInv, StableInv, TimeTypes
<1>2. QED
  BY <1>1 DEF CurrentInv, AloneInv

LEMMA ReadCurrent ==
  ASSUME NEW r \in Rebuilders, CurrentInv(r), Time!ReadForStage(r) \/ Time!ReadForSnapshot(r)
  PROVE  AloneInv(r)' /\ ShownInv' /\ WorkInv(r)' /\ CoverInv(r)'
<1>1. TimeTypes
  BY DEF CurrentInv, StableInv
<1>2. /\ UNCHANGED <<neurons, revision, state, entries, job, staged, snapshot, listed>>
      /\ local[r].pc \in {"stage", "copy"}
  BY DEF Time!ReadForStage, Time!ReadForSnapshot, Time!Read, Time!At, Time!source, Time!shown, Time!work, Time!erasing
<1> DEFINE from == local[r].pc
           write == IF local[r].pc = "stage" THEN "staging" ELSE "copying"
           done == IF local[r].pc = "stage" THEN "clear" ELSE "mark"
<1>w. write \in Places /\ done \in Places
  BY DEF Places
<1>r. Time!Read(r, from, write, done)
  BY DEF Time!ReadForStage, Time!ReadForSnapshot, Time!Read, Time!At
<1> HIDE DEF from, write, done
<1>3. PICK new \in Local :
        /\ local' = [local EXCEPT ![r] = new]
        /\ new.gen = local[r].gen /\ new.rev = local[r].rev /\ new.page = Time!PageAfter(local[r].cursor)
        /\ IF new.page = {} THEN new.pc = done /\ new.cursor = 0
                            ELSE new.pc = write /\ new.cursor = Time!Max(new.page)
  BY <1>1, <1>w, <1>r, ReadIs
<1>4. local[r].cursor \in Nat
  BY <1>1 DEF TimeTypes, Local
<1>5. /\ new.page \in SUBSET neurons
      /\ new.page = {} => Upto(local[r].cursor) = neurons
      /\ new.page # {} => Upto(new.cursor) \subseteq Upto(local[r].cursor) \cup new.page
  BY <1>1, <1>3, <1>4, PageCovers
<1>6. AloneInv(r)' /\ local'[r] = new
  BY <1>2, <1>3, <1>5, OperatorMoves DEF CurrentInv, AloneInv
<1>7. ShownInv'
  BY <1>2 DEF CurrentInv, ShownInv
<1>8. WorkInv(r)'
  BY <1>2, <1>3, <1>6 DEF CurrentInv, WorkInv, write, done
<1>9. \A c : Upto(c)' = Upto(c)
  BY <1>2 DEF Upto
<1>10. CoverInv(r)'
  BY <1>2, <1>3, <1>5, <1>6, <1>9 DEF CurrentInv, CoverInv, write, done
<1>11. QED
  BY <1>6, <1>7, <1>8, <1>10

\* The job is looked up, and taken up or left.
LEMMA LookCurrent ==
  ASSUME NEW r \in Rebuilders, CurrentInv(r), Time!Look(r)
  PROVE  AloneInv(r)' /\ ShownInv' /\ WorkInv(r)' /\ CoverInv(r)'
<1>1. UNCHANGED <<neurons, revision, state, entries, job, staged, snapshot, listed>>
  BY DEF Time!Look, Time!source, Time!shown, Time!work, Time!erasing
<1>2. PICK new \in Local :
           /\ local' = [local EXCEPT ![r] = new]
           /\ IF Time!Resumable(r)
              THEN /\ new.pc = IF job.status = "ready" THEN "claim" ELSE "stage"
                   /\ new.gen = job.gen /\ new.rev = job.rev /\ new.cursor = job.cursor /\ new.gen # 0
              ELSE new.pc = "create" /\ new.rev = revision /\ new.cursor = 0
           /\ new.page = {}
  BY LookIs DEF CurrentInv
<1>3. AloneInv(r)' /\ local'[r] = new
  BY <1>1, <1>2, OperatorMoves DEF CurrentInv, AloneInv
<1>4. ShownInv'
  BY <1>1 DEF CurrentInv, ShownInv
<1>5. revision \in Nat
  BY DEF CurrentInv, StableInv, TimeTypes
<1>6. WorkInv(r)'
  BY <1>1, <1>2, <1>3, <1>5 DEF CurrentInv, WorkInv, Time!Resumable
<1>7. \A c : Upto(c)' = Upto(c)
  BY <1>1 DEF Upto
<1>8. CoverInv(r)'
  BY <1>1, <1>2, <1>3, <1>7 DEF CurrentInv, CoverInv, Time!Resumable
<1>9. QED
  BY <1>3, <1>4, <1>6, <1>8

LEMMA CreateCurrent ==
  ASSUME NEW r \in Rebuilders, CurrentInv(r), Time!Create(r)
  PROVE  AloneInv(r)' /\ ShownInv' /\ WorkInv(r)' /\ CoverInv(r)'
<1>1. UNCHANGED <<neurons, revision, entries, listed>> /\ local[r].pc = "create"
  BY DEF Time!Create, Time!At, Time!source, Time!erasing
<1>2. /\ job'.zone = ZoneOf[r] /\ job'.status = "building" /\ job'.rev = local[r].rev /\ job'.cursor = 0
      /\ staged' = {} /\ snapshot' = {} /\ state'.status = "building"
  BY CreateIs DEF CurrentInv, StableInv
<1>3. PICK new \in Local :
        /\ local' = [local EXCEPT ![r] = new]
        /\ new.pc = "stage" /\ new.gen = job'.gen /\ new.rev = local[r].rev
        /\ new.cursor = local[r].cursor /\ new.page = local[r].page
  BY CreateIs DEF CurrentInv, StableInv
<1>4. AloneInv(r)' /\ local'[r] = new
  BY <1>1, <1>2, <1>3, OperatorMoves DEF CurrentInv, AloneInv
<1>5. new.cursor = 0 /\ local[r].rev <= revision
  BY <1>1, <1>3 DEF CurrentInv, WorkInv
<1>6. ShownInv'
  BY <1>2 DEF ShownInv, Time!NoState
<1>7. WorkInv(r)'
  BY <1>1, <1>2, <1>3, <1>4, <1>5 DEF WorkInv
<1>8. Upto(0)' = {}
  <2>1. \A n \in neurons : n \in Nat /\ ~(n <= 0)
    BY Sized DEF Time!Sizes, CurrentInv, StableInv, TimeTypes, Time!Neuron
  <2>2. QED
    BY <1>1, <2>1 DEF Upto
<1>9. CoverInv(r)'
  BY <1>2, <1>3, <1>4, <1>5, <1>8 DEF CoverInv
<1>10. QED
  BY <1>4, <1>6, <1>7, <1>9

\* A move to pc with the job kept, its cursor, lease and token apart.
LEMMA GoCurrent ==
  ASSUME NEW r \in Rebuilders, CurrentInv(r), NEW pc \in Places, Time!Go(r, pc), pc \notin {"create", "idle"},
         local[r].pc \notin {"idle", "create"},
         UNCHANGED <<neurons, revision, listed>>,
         job'.gen = job.gen /\ job'.zone = job.zone /\ job'.rev = job.rev /\ job'.status # "none",
         pc \in {"stage", "staging", "copy", "copying", "mark"} => job'.status = "building",
         pc \in {"claim", "claimed", "publish", "finish"} => job'.status = "ready",
         pc # "clear",
         staged' \subseteq neurons, snapshot' \subseteq neurons
  PROVE  /\ AloneInv(r)' /\ WorkInv(r)'
         /\ local'[r].pc = pc /\ local'[r].cursor = local[r].cursor /\ local'[r].page = local[r].page
<1>1. PICK new \in Local :
           /\ local' = [local EXCEPT ![r] = new]
           /\ new.pc = pc /\ new.gen = local[r].gen /\ new.rev = local[r].rev
           /\ new.cursor = local[r].cursor /\ new.page = local[r].page
  BY GoIs DEF CurrentInv, StableInv
<1>2. AloneInv(r)' /\ local'[r] = new
  BY <1>1, OperatorMoves DEF CurrentInv, AloneInv
<1>3. WorkInv(r)'
  BY <1>1, <1>2 DEF CurrentInv, WorkInv
<1>4. QED
  BY <1>1, <1>2, <1>3

LEMMA StageCurrent ==
  ASSUME NEW r \in Rebuilders, CurrentInv(r), Time!Stage(r) \/ Time!ClearSnapshot(r) \/ Time!Copy(r) \/ Time!MarkReady(r)
  PROVE  AloneInv(r)' /\ ShownInv' /\ WorkInv(r)' /\ CoverInv(r)'
<1>1. UNCHANGED <<neurons, revision, state, entries, listed>> /\ local[r].pc \in {"staging", "clear", "copying", "mark"}
  BY DEF Time!Stage, Time!ClearSnapshot, Time!Copy, Time!MarkReady, Time!At, Time!source, Time!shown, Time!erasing
<1>2. job \in JobType /\ local[r] \in Local
  BY DEF CurrentInv, StableInv, TimeTypes
<1>3. /\ job.gen = local[r].gen /\ job.status = "building" /\ job.rev = local[r].rev
      /\ local[r].page \subseteq neurons /\ staged \subseteq neurons /\ snapshot \subseteq neurons
  BY <1>1 DEF CurrentInv, WorkInv, AloneInv
<1>4. ShownInv'
  BY <1>1 DEF CurrentInv, ShownInv
<1>5. \A c : Upto(c)' = Upto(c)
  BY <1>1 DEF Upto
<1>6. CASE Time!Stage(r)
  <2>1. /\ local[r].pc = "staging" /\ staged' = staged \cup local[r].page /\ UNCHANGED snapshot /\ Time!Go(r, "stage")
        /\ job' = [job EXCEPT !.cursor = local[r].cursor]
    BY <1>3, <1>6 DEF Time!Stage, Time!At
  <2>2. /\ job'.gen = job.gen /\ job'.zone = job.zone /\ job'.rev = job.rev /\ job'.status = "building"
        /\ job'.cursor = local[r].cursor
    BY <1>2, <1>3, <2>1 DEF JobType
  <2>3. /\ AloneInv(r)' /\ WorkInv(r)'
        /\ local'[r].pc = "stage" /\ local'[r].cursor = local[r].cursor /\ local'[r].page = local[r].page
    BY <1>1, <1>3, <2>1, <2>2, GoCurrent DEF Places
  <2>4. CoverInv(r)'
    BY <1>1, <1>3, <1>5, <2>1, <2>2, <2>3 DEF CurrentInv, CoverInv
  <2>5. QED
    BY <1>4, <2>3, <2>4
<1>7. CASE Time!ClearSnapshot(r)
  <2>1. local[r].pc = "clear" /\ snapshot' = {} /\ UNCHANGED <<job, staged>> /\ Time!Go(r, "copy")
    BY <1>3, <1>7 DEF Time!ClearSnapshot, Time!At, Time!Mine
  <2>2. /\ AloneInv(r)' /\ WorkInv(r)'
        /\ local'[r].pc = "copy" /\ local'[r].cursor = local[r].cursor /\ local'[r].page = local[r].page
    BY <1>1, <1>3, <2>1, GoCurrent DEF Places
  <2>3. Upto(local[r].cursor) = {}
    <3>1. local[r].cursor = 0
      BY <2>1 DEF CurrentInv, WorkInv
    <3>2. \A n \in neurons : n \in Nat /\ ~(n <= 0)
      BY Sized DEF Time!Sizes, CurrentInv, StableInv, TimeTypes, Time!Neuron
    <3>3. QED
      BY <3>1, <3>2 DEF Upto
  <2>4. CoverInv(r)'
    BY <1>1, <1>3, <1>5, <2>1, <2>2, <2>3 DEF CurrentInv, CoverInv
  <2>5. QED
    BY <1>4, <2>2, <2>4
<1>8. CASE Time!Copy(r)
  <2>1. local[r].pc = "copying" /\ snapshot' = snapshot \cup local[r].page /\ UNCHANGED <<job, staged>> /\ Time!Go(r, "copy")
    BY <1>8 DEF Time!Copy, Time!At
  <2>2. /\ AloneInv(r)' /\ WorkInv(r)'
        /\ local'[r].pc = "copy" /\ local'[r].cursor = local[r].cursor /\ local'[r].page = local[r].page
    BY <1>1, <1>3, <2>1, GoCurrent DEF Places
  <2>3. CoverInv(r)'
    BY <1>1, <1>3, <1>5, <2>1, <2>2 DEF CurrentInv, CoverInv
  <2>4. QED
    BY <1>4, <2>2, <2>3
<1>9. CASE Time!MarkReady(r)
  <2>1. /\ local[r].pc = "mark" /\ UNCHANGED <<staged, snapshot>> /\ Time!Go(r, "claim")
        /\ job' = [job EXCEPT !.status = "ready"]
    BY <1>3, <1>9 DEF Time!MarkReady, Time!At, Time!Mine
  <2>2. /\ job'.gen = job.gen /\ job'.zone = job.zone /\ job'.rev = job.rev /\ job'.status = "ready"
        /\ job'.cursor = job.cursor
    BY <1>2, <2>1 DEF JobType
  <2>3. /\ AloneInv(r)' /\ WorkInv(r)'
        /\ local'[r].pc = "claim" /\ local'[r].cursor = local[r].cursor /\ local'[r].page = local[r].page
    BY <1>1, <1>3, <2>1, <2>2, GoCurrent DEF Places
  <2>4. CoverInv(r)'
    BY <1>1, <1>3, <1>5, <2>1, <2>2, <2>3 DEF CurrentInv, CoverInv
  <2>5. QED
    BY <1>4, <2>3, <2>4
<1>10. QED
  BY <1>6, <1>7, <1>8, <1>9

LEMMA PublishCurrent ==
  ASSUME NEW r \in Rebuilders, CurrentInv(r), Time!Claim(r) \/ Time!Check(r) \/ Time!Publish(r)
  PROVE  AloneInv(r)' /\ ShownInv' /\ WorkInv(r)' /\ CoverInv(r)'
<1>1. /\ UNCHANGED <<neurons, revision, state, staged, snapshot, listed>>
      /\ local[r].pc \in {"claim", "claimed", "publish"}
  BY DEF Time!Claim, Time!Check, Time!Publish, Time!At, Time!source, Time!shown, Time!work, Time!erasing
<1>2. job \in JobType
  BY DEF CurrentInv, StableInv, TimeTypes
<1>3. /\ job.gen = local[r].gen /\ job.status = "ready" /\ job.rev = local[r].rev /\ job.zone = ZoneOf[r]
      /\ staged \subseteq neurons /\ snapshot \subseteq neurons
  BY <1>1 DEF CurrentInv, WorkInv, AloneInv
<1>4. PICK pc \in {"claimed", "publish", "finish"} : Time!Go(r, pc) /\ (pc = "finish" => entries' = (staged \cap snapshot) \X {job.zone})
  BY DEF Time!Claim, Time!Check, Time!Publish
<1>5. /\ job'.gen = job.gen /\ job'.zone = job.zone /\ job'.rev = job.rev /\ job'.status = job.status
      /\ job'.cursor = job.cursor
  BY <1>2 DEF Time!Claim, Time!Check, Time!Publish, JobType, Time!work
<1>6. /\ AloneInv(r)' /\ WorkInv(r)'
      /\ local'[r].pc = pc /\ local'[r].cursor = local[r].cursor /\ local'[r].page = local[r].page
  BY <1>1, <1>3, <1>4, <1>5, GoCurrent DEF Places
<1>7. state.status \notin {"none", "clean"}
  BY <1>3 DEF CurrentInv, StableInv, JobInv
<1>8. ShownInv'
  BY <1>1, <1>7 DEF ShownInv, Time!NoState
<1>9. \A c : Upto(c)' = Upto(c)
  BY <1>1 DEF Upto
<1>10. CoverInv(r)'
  <2>1. job.rev = revision /\ pc = "finish" => entries' = neurons \X {ZoneOf[r]}
    <3>1. job.rev = revision => neurons \subseteq staged /\ neurons \subseteq snapshot
      BY <1>3 DEF CurrentInv, CoverInv
    <3>2. job.rev = revision => staged \cap snapshot = neurons
      BY <1>3, <3>1
    <3>3. QED
      BY <1>3, <1>4, <3>2
  <2>2. QED
    BY <1>1, <1>3, <1>4, <1>5, <1>6, <1>9, <2>1 DEF CurrentInv, CoverInv
<1>11. QED
  BY <1>6, <1>8, <1>10

\* The operator is back where it began, and the job stays, its lease and token apart.
LEMMA IdleCurrent ==
  ASSUME NEW r \in Rebuilders, CurrentInv(r), local' = [local EXCEPT ![r] = Time!Idle],
         UNCHANGED <<neurons, revision, staged, snapshot, listed>>,
         job'.status = job.status, job'.rev = job.rev, job'.cursor = job.cursor
  PROVE  AloneInv(r)' /\ WorkInv(r)' /\ CoverInv(r)'
<1>1. Time!Idle \in Local /\ Time!Idle.pc = "idle" /\ Time!Idle.page = {} /\ Time!Idle.rev = 0
  BY IdleIsLocal DEF Time!Idle
<1>2. AloneInv(r)' /\ local'[r] = Time!Idle
  BY <1>1, OperatorMoves DEF CurrentInv, AloneInv
<1>3. revision \in Nat
  BY DEF CurrentInv, StableInv, TimeTypes
<1>4. WorkInv(r)'
  BY <1>1, <1>2, <1>3 DEF CurrentInv, WorkInv
<1>5. \A c : Upto(c)' = Upto(c)
  BY DEF Upto
<1>6. CoverInv(r)'
  BY <1>1, <1>2, <1>5 DEF CurrentInv, CoverInv
<1>7. QED
  BY <1>2, <1>4, <1>6

LEMMA FinishCurrent ==
  ASSUME NEW r \in Rebuilders, CurrentInv(r), Time!Finish(r)
  PROVE  AloneInv(r)' /\ ShownInv' /\ WorkInv(r)' /\ CoverInv(r)'
<1>1. /\ state' = Time!State("clean", ZoneOf[r], local[r].rev) /\ job' = Time!NoJob /\ staged' = {} /\ snapshot' = {}
      /\ local' = [local EXCEPT ![r] = Time!Idle] /\ UNCHANGED <<neurons, revision, entries, listed>>
      /\ local[r].pc = "finish" /\ revision = local[r].rev
  BY DEF Time!Finish, Time!At, Time!Current, Time!source, Time!erasing
<1>2. job.status # "none" /\ job.rev = revision
  BY <1>1 DEF CurrentInv, WorkInv
<1>3. entries = neurons \X {ZoneOf[r]}
  BY <1>1, <1>2 DEF CurrentInv, CoverInv
<1>4. Time!Idle \in Local /\ Time!Idle.pc = "idle" /\ Time!Idle.page = {} /\ Time!Idle.rev = 0
  BY IdleIsLocal DEF Time!Idle
<1>5. AloneInv(r)' /\ local'[r] = Time!Idle
  BY <1>1, <1>4, OperatorMoves DEF CurrentInv, AloneInv
<1>6. revision \in Nat /\ job'.status = "none"
  BY <1>1 DEF CurrentInv, StableInv, TimeTypes, Time!NoJob
<1>7. WorkInv(r)' /\ CoverInv(r)'
  BY <1>1, <1>4, <1>5, <1>6 DEF WorkInv, CoverInv
<1>8. ShownInv'
  BY <1>1, <1>3 DEF ShownInv, Time!State, Time!NoState
<1>9. QED
  BY <1>5, <1>7, <1>8

LEMMA FailCurrent ==
  ASSUME NEW r \in Rebuilders, CurrentInv(r), Time!Throws(r) \/ Time!MarkFailed(r) \/ Time!Crash(r)
  PROVE  AloneInv(r)' /\ ShownInv' /\ WorkInv(r)' /\ CoverInv(r)'
<1>1. TimeTypes /\ job \in JobType
  BY DEF CurrentInv, StableInv, TimeTypes
<1>2. CASE Time!Throws(r)
  <2>1. PICK claimed \in BOOLEAN : Time!Fail(r, claimed)
    BY <1>2 DEF Time!Throws
  <2>2. local[r].pc \notin {"idle", "create"}
    BY <1>2 DEF Time!Throws, Time!At
  <2>3. UNCHANGED <<neurons, revision, state, entries, staged, snapshot, listed>>
    BY <1>1, <2>1, FailIs
  <2>4. ShownInv'
    BY <2>3 DEF CurrentInv, ShownInv
  <2>5. CASE /\ Time!Go(r, "failing") /\ job'.gen = job.gen /\ job'.status = "failed"
             /\ job'.zone = job.zone /\ job'.rev = job.rev /\ job'.cursor = job.cursor
    <3>1. staged \subseteq neurons /\ snapshot \subseteq neurons
      BY DEF CurrentInv, AloneInv
    <3>2. AloneInv(r)' /\ WorkInv(r)' /\ local'[r].pc = "failing"
      BY <2>2, <2>3, <2>5, <3>1, GoCurrent DEF Places
    <3>3. \A c : Upto(c)' = Upto(c)
      BY <2>3 DEF Upto
    <3>4. job.status # "none"
      BY <2>2 DEF CurrentInv, WorkInv
    <3>5. CoverInv(r)'
      BY <2>3, <2>5, <3>2, <3>3, <3>4 DEF CurrentInv, CoverInv
    <3>6. QED
      BY <2>4, <3>2, <3>5
  <2>6. CASE local' = [local EXCEPT ![r] = Time!Idle] /\ UNCHANGED job
    BY <2>3, <2>4, <2>6, IdleCurrent
  <2>7. QED
    BY <1>1, <2>1, <2>5, <2>6, FailIs
<1>3. CASE Time!MarkFailed(r)
  <2>1. /\ state' = Time!State("failed", ZoneOf[r], revision) /\ local' = [local EXCEPT ![r] = Time!Idle]
        /\ UNCHANGED <<neurons, revision, job, staged, snapshot, listed>>
    BY <1>3 DEF Time!MarkFailed, Time!source, Time!work, Time!erasing
  <2>2. ShownInv'
    BY <2>1 DEF ShownInv, Time!State, Time!NoState
  <2>3. QED
    BY <2>1, <2>2, IdleCurrent
<1>4. CASE Time!Crash(r)
  <2>1. /\ local' = [local EXCEPT ![r] = Time!Idle]
        /\ job' = (IF job.token = r THEN [job EXCEPT !.token = Lost] ELSE job)
        /\ UNCHANGED <<neurons, revision, state, entries, staged, snapshot, listed>>
    BY <1>4 DEF Time!Crash, Time!source, Time!shown, Time!erasing
  <2>2. job'.status = job.status /\ job'.rev = job.rev /\ job'.cursor = job.cursor
    BY <1>1, <2>1 DEF JobType
  <2>3. ShownInv'
    BY <2>1 DEF CurrentInv, ShownInv
  <2>4. QED
    BY <2>1, <2>2, <2>3, IdleCurrent
<1>5. QED
  BY <1>2, <1>3, <1>4

LEMMA CurrentNext ==
  ASSUME NEW r \in Rebuilders
  PROVE  CurrentInv(r) /\ [Time!Alone(r)]_(Time!vars) => CurrentInv(r)'
<1> SUFFICES ASSUME CurrentInv(r), [Time!Alone(r)]_(Time!vars) PROVE CurrentInv(r)'
  OBVIOUS
<1>1. StableInv' /\ forgets' \in Nat
  BY StableNext DEF CurrentInv, Time!Alone, Time!vars, Time!erasing
<1>2. SUFFICES AloneInv(r)' /\ ShownInv' /\ WorkInv(r)' /\ CoverInv(r)'
  BY <1>1 DEF CurrentInv
<1>3. ASSUME UNCHANGED <<neurons, revision, state, entries, staged, snapshot, listed, local>>,
             job'.gen = job.gen, job'.zone = job.zone, job'.status = job.status,
             job'.rev = job.rev, job'.cursor = job.cursor
      PROVE  AloneInv(r)' /\ ShownInv' /\ WorkInv(r)' /\ CoverInv(r)'
  BY <1>3 DEF CurrentInv, AloneInv, ShownInv, WorkInv, CoverInv, Upto
<1>4. CASE UNCHANGED Time!vars
  BY <1>3, <1>4 DEF Time!vars, Time!source, Time!shown, Time!work, Time!erasing
<1>5. CASE Time!Alone(r) /\ Time!LeaseExpires
  <2>1. /\ job' = [job EXCEPT !.leased = FALSE]
        /\ UNCHANGED <<neurons, revision, state, entries, staged, snapshot, listed, local>>
    BY <1>5 DEF Time!LeaseExpires, Time!source, Time!shown, Time!erasing
  <2>2. /\ job'.gen = job.gen /\ job'.zone = job.zone /\ job'.status = job.status
        /\ job'.rev = job.rev /\ job'.cursor = job.cursor
    BY <2>1 DEF CurrentInv, StableInv, TimeTypes, JobType
  <2>3. QED
    BY <1>3, <2>1, <2>2
<1>6. CASE \/ \E n \in Time!Neuron : Time!AddNeuron(n) \/ \E z \in Zones : Time!Ingest(z, n)
           \/ Time!UpdateMetadata
  BY <1>6, WriteCurrent
<1>7. ASSUME Time!Alone(r), Time!ForgetList \/ Time!ForgetDelete PROVE FALSE
  <2>1. ~Time!ForgetDelete
    BY DEF Time!ForgetDelete, CurrentInv, AloneInv
  <2>2. forgets' = forgets /\ forgets < MaxForgets /\ forgets' = forgets + 1 /\ listed' = neurons /\ neurons # {}
    BY <1>7, <2>1 DEF Time!Alone, Time!ForgetList
  <2>3. QED
    BY <2>2 DEF CurrentInv
<1>8. ASSUME Time!Alone(r), NEW p \in Rebuilders, Time!Rebuild(p) \/ Time!Crash(p)
      PROVE  AloneInv(r)' /\ ShownInv' /\ WorkInv(r)' /\ CoverInv(r)'
  <2>1. CASE p # r
    <3>1. local[p] = Time!Idle /\ local'[p] = local[p]
      BY <1>8, <2>1 DEF Time!Alone, CurrentInv, AloneInv
    <3>2. Time!Look(p)
      BY <1>8, <3>1 DEF Time!Idle, Time!Rebuild, Time!Crash, Time!Create, Time!ReadForStage, Time!Stage, Time!ClearSnapshot, Time!ReadForSnapshot, Time!Read, Time!Copy,
         Time!MarkReady, Time!Claim, Time!Check, Time!Publish, Time!Finish, Time!Throws, Time!MarkFailed, Time!At
    <3>3. PICK new \in Local : local' = [local EXCEPT ![p] = new] /\ new.pc \in {"claim", "stage", "create"}
      BY <3>2, LookIs DEF CurrentInv
    <3>4. local'[p] = new
      BY <3>3 DEF CurrentInv, StableInv, TimeTypes
    <3>5. QED
      BY <3>1, <3>3, <3>4 DEF Time!Idle
  <2>2. CASE p = r
    BY <1>8, <2>2, LookCurrent, CreateCurrent, ReadCurrent, StageCurrent, PublishCurrent, FinishCurrent, FailCurrent DEF Time!Rebuild
  <2>3. QED
    BY <2>1, <2>2
<1>9. QED
  BY <1>4, <1>5, <1>6, <1>7, <1>8 DEF Time!Alone, Time!Next

THEOREM CurrentWhileAlone == \A r \in Rebuilders : Time!AloneSpec(r) => []Time!UsableIsCurrent
<1> SUFFICES ASSUME NEW r \in Rebuilders PROVE Time!AloneSpec(r) => []Time!UsableIsCurrent
  OBVIOUS
<1>1. Time!Init => CurrentInv(r)
  BY CurrentInit
<1>2. CurrentInv(r) /\ [Time!Alone(r)]_(Time!vars) => CurrentInv(r)'
  BY CurrentNext
<1>3. CurrentInv(r) => Time!UsableIsCurrent
  BY ShownIsCurrent DEF CurrentInv
<1>4. QED
  BY <1>1, <1>2, <1>3, PTL DEF Time!AloneSpec

-----------------------------------------------------------------------------
(* What runs side by side.                                                   *)

\* The projections share no state: a behaviour of all is one of each, the steps of
\* the others apart.
THEOREM Composition == CatchupSpec => Spec /\ Time!Spec /\ Vectors!Spec
<1>1. Installed => Init /\ Time!Init /\ Vectors!Init
  BY DEF Installed
<1>2. [SideBySide]_all => [Next]_vars /\ [Time!Next]_(Time!vars) /\ [Vectors!Next]_(Vectors!vars)
  <2> SUFFICES ASSUME [SideBySide]_all
               PROVE  [Next]_vars /\ [Time!Next]_(Time!vars) /\ [Vectors!Next]_(Vectors!vars)
    OBVIOUS
  <2>1. UNCHANGED timeVars => UNCHANGED Time!vars
    BY DEF timeVars, Time!vars, Time!source, Time!shown, Time!work, Time!erasing
  <2>2. UNCHANGED vectorVars => UNCHANGED Vectors!vars
    BY DEF vectorVars, Vectors!vars
  <2>3. Time!Alone(Operator) => Time!Next
    BY DEF Time!Alone
  <2>4. \/ UNCHANGED <<vars, timeVars, vectorVars>>
        \/ Next /\ UNCHANGED <<timeVars, vectorVars>>
        \/ Time!Next /\ UNCHANGED <<vars, vectorVars>>
        \/ Vectors!Next /\ UNCHANGED <<vars, timeVars>>
    BY <2>3 DEF SideBySide, AtlasStep, TimeStep, RacingStep, VectorsStep, TurnStep, all
  <2> HIDE DEF vars, timeVars, vectorVars
  <2>5. QED
    BY <2>1, <2>2, <2>4
<1>3. QED
  BY <1>1, <1>2, PTL DEF CatchupSpec, Spec, Time!Spec, Vectors!Spec

\* Where "time" runs, the operator is alone, and does so for good.
LEMMA OneOperator ==
  CatchupSpec => []~(component = "time") \/ ([](component = "time") /\ Time!AloneSpec(Operator))
<1> DEFINE Here == component = "time"
<1>1. Installed => Time!Init
  BY DEF Installed
<1>2. [SideBySide]_all => (Here' <=> Here)
  BY DEF SideBySide, AtlasStep, TimeStep, RacingStep, VectorsStep, TurnStep, Runs, all
<1>3. Here /\ [SideBySide]_all => [Time!Alone(Operator)]_(Time!vars)
  <2> SUFFICES ASSUME Here, [SideBySide]_all PROVE [Time!Alone(Operator)]_(Time!vars)
    OBVIOUS
  <2>1. UNCHANGED timeVars => UNCHANGED Time!vars
    BY DEF timeVars, Time!vars, Time!source, Time!shown, Time!work, Time!erasing
  <2>2. TimeStep \/ UNCHANGED all
    BY DEF SideBySide, AtlasStep, RacingStep, VectorsStep, TurnStep, Runs
  <2>3. Time!Alone(Operator) \/ UNCHANGED timeVars
    BY <2>2 DEF TimeStep, all
  <2>4. QED
    BY <2>1, <2>3
<1> HIDE DEF Here
<1>4. CatchupSpec => []~Here \/ ([]Here /\ Time!AloneSpec(Operator))
  BY <1>1, <1>2, <1>3, PTL DEF CatchupSpec, Time!AloneSpec
<1>5. QED
  BY <1>4 DEF Here

\* A clean project of the Atlas shows its watched tables, whatever else catches up.
THEOREM CleanBeside == CatchupSpec => []CleanIsWatched
  BY Composition, AtlasCleanIsWatched, PTL

\* The time projection that may be used is that of the live neurons, while one operator
\* rebuilds it and any number of writers extend it; a forgotten neuron leaves no vector
\* and a live one is found (rebuildProjectTimeTopology, NeuronEmbeddingStore.upsert).
THEOREM ProjectionsFollow == CatchupSpec => []FollowsItsSource
<1> DEFINE Here == component = "time"
           Current == Time!UsableIsCurrent
           Followed == Vectors!ForgottenLeavesNoVector /\ Vectors!LiveIsFound
<1>1. (~Here \/ Current) /\ Followed => FollowsItsSource
  BY DEF FollowsItsSource
<1>2. Time!AloneSpec(Operator) => []Current
  BY Sized, CurrentWhileAlone
<1>3. Vectors!Spec => []Followed
  BY VectorsFollow
<1>4. CatchupSpec => []~Here \/ ([]Here /\ Time!AloneSpec(Operator))
  BY OneOperator
<1> HIDE DEF Here, Current, Followed
<1>5. QED
  BY <1>1, <1>2, <1>3, <1>4, Composition, PTL

\* Every variable keeps its type: a page ends at a neuron that was there, a batch fits, and
\* there is always a generation that nobody refers to.
THEOREM CatchupTypes == CatchupSpec => []TypesOK
<1>1. TypeOK /\ Time!TypeOK /\ Vectors!TypeOK => TypesOK
  BY DEF TypesOK
<1>2. QED
  BY <1>1, Composition, AtlasTypes, TimeTyped, VectorTyped, PTL

\* No entry of a usable time projection goes, whoever else rebuilds it, and a neuron
\* keeps an embedding while those of another model are replaced.
THEOREM UseKept == CatchupSpec => KeptWhileUsed
  BY Composition, StableWhileUsable, EmbeddingStays, PTL DEF KeptWhileUsed
=============================================================================
