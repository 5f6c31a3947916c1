--------------------------- MODULE NeuronVectors ---------------------------
(***************************************************************************)
(* The vectors of the neurons of a project, one writing process: the       *)
(* in-memory index of the hnswlib backend with the outbox that feeds it,   *)
(* and the embeddings of the configured model, computed across awaits when *)
(* a neuron is ingested and, after the model changes, by re-embedding      *)
(* runs.  Neurons are archived and restored, and the project forgotten,    *)
(* while vectors are on their way.                                         *)
(***************************************************************************)
EXTENDS Naturals, FiniteSets, FiniteSetsExt

CONSTANTS MaxNeurons,   \* bound: neurons ever ingested, in the order of their ids
          Models,       \* embedding models a restart may configure
          Runners,      \* re-embedding runs of the host, perhaps at once
          BatchSize,    \* neurons to an embedBatch call
          MaxFaults,    \* bound: failing index writes, metabolisms and embedBatch calls
          MaxRestarts   \* bound: restarts of the process

VectorAssumption ==
  /\ {MaxNeurons, MaxFaults, MaxRestarts} \subseteq Nat
  /\ BatchSize \in Nat \ {0} /\ Models # {}

VARIABLES neuron,     \* neuron[n]: not there yet, live (active or cold), archived, forgotten
          outbox,     \* neurons with a row in vector_write_outbox
          index,      \* neurons in the in-memory index
          torn,       \* neurons whose index entry an error took in this process
          emb,        \* emb[n]: the models with an embedding of n
          model,      \* the configured model
          calls,      \* neurons whose embed() call has not been answered
          rerun,      \* rerun[r]: a re-embedding run
          progress,   \* progress[m]: the cursor stored for m, 0 when there is none
          faults, restarts

vars == <<neuron, outbox, index, torn, emb, model, calls, rerun, progress, faults, restarts>>

Neurons == 1..MaxNeurons
Idle    == [pc |-> "idle", cursor |-> 0, batch |-> {}]

TypeOK == /\ neuron \in [Neurons -> {"absent", "live", "archived", "forgotten"}]
          /\ {outbox, index, torn, calls} \subseteq SUBSET Neurons
          /\ emb \in [Neurons -> SUBSET Models] /\ model \in Models
          /\ rerun \in [Runners -> [pc : {"idle", "list", "await"}, cursor : 0..MaxNeurons,
                                    batch : SUBSET Neurons]]
          /\ \A r \in Runners : /\ (rerun[r].batch # {}) <=> (rerun[r].pc = "await")
                                /\ Cardinality(rerun[r].batch) <= BatchSize
                                /\ \A n \in rerun[r].batch : n > rerun[r].cursor
          /\ progress \in [Models -> 0..MaxNeurons]
          /\ faults \in 0..MaxFaults /\ restarts \in 0..MaxRestarts

Init == /\ neuron = [n \in Neurons |-> "absent"]
        /\ outbox = {} /\ index = {} /\ torn = {} /\ calls = {}
        /\ emb = [n \in Neurons |-> {}]
        /\ model \in Models
        /\ rerun = [r \in Runners |-> Idle]
        /\ progress = [m \in Models |-> 0]
        /\ faults = 0 /\ restarts = 0

Present == {n \in Neurons : neuron[n] \in {"live", "archived"}}

-----------------------------------------------------------------------------
(* Ingestion.  The neuron and its outbox row are written in a transaction,  *)
(* the outbox is drained, and its embedding asked for.                      *)

\* Mutant: the row goes before its vector is added.
DrainedFirst(n, added) == /\ outbox' = outbox \ {n}
                          /\ index' = IF added THEN index \cup {n} ELSE index

\* drainVectorOutbox(n): when addVector throws, the row stays.
Drained(n, added) == IF added THEN index' = index \cup {n} /\ outbox' = outbox \ {n}
                              ELSE index' = index /\ outbox' = outbox \cup {n}

Fault(b) == IF b THEN faults < MaxFaults /\ faults' = faults + 1 ELSE UNCHANGED faults

Ingest(n) ==
  /\ neuron[n] = "absent"
  /\ neuron' = [neuron EXCEPT ![n] = "live"]
  /\ \E added \in BOOLEAN : Fault(~added) /\ Drained(n, added)
  /\ calls' = calls \cup {n}
  /\ UNCHANGED <<torn, emb, model, rerun, progress, restarts>>

\* Mutant: an embedding is written whether or not its neuron is still there.
UpsertedBlindly(e, ns) == [n \in Neurons |-> IF n \in ns THEN e[n] \cup {model} ELSE e[n]]

\* NeuronEmbeddingStore.upsert for each of ns: INSERT ... SELECT FROM neurons.
Upserted(e, ns) ==
  [n \in Neurons |-> IF n \in ns \cap Present THEN e[n] \cup {model} ELSE e[n]]

EmbedReturns(n) ==
  /\ n \in calls
  /\ calls' = calls \ {n}
  /\ \/ emb' = Upserted(emb, {n})
     \/ UNCHANGED emb            \* the provider failed: nothing asks again
  /\ UNCHANGED <<neuron, outbox, index, torn, model, rerun, progress, faults, restarts>>

-----------------------------------------------------------------------------
(* Metabolism: one transaction over the rows; the index is in memory, and   *)
(* its errors are swallowed.                                                *)

Metabolise(n, to) ==
  /\ neuron[n] \in {"live", "archived"} \ {to}
  /\ \E indexed, committed \in BOOLEAN :
       /\ Fault(~indexed \/ ~committed)
       /\ index' = CASE ~indexed -> index
                     [] indexed /\ to = "archived" -> index \ {n}
                     [] indexed /\ to = "live" -> index \cup {n}
       /\ neuron' = IF committed THEN [neuron EXCEPT ![n] = to] ELSE neuron
       /\ torn' = IF indexed /\ committed THEN torn \ {n} ELSE torn \cup {n}
  /\ UNCHANGED <<outbox, emb, model, calls, rerun, progress, restarts>>

\* forgetUser: rows, embeddings, outbox and cursors in a transaction, then the index.
Forget ==
  /\ Present # {}
  /\ neuron' = [n \in Neurons |-> IF n \in Present THEN "forgotten" ELSE neuron[n]]
  /\ emb' = [n \in Neurons |-> IF n \in Present THEN {} ELSE emb[n]]
  /\ outbox' = outbox \ Present
  /\ index' = index \ Present
  /\ torn' = torn \ Present
  /\ progress' = [m \in Models |-> 0]
  /\ UNCHANGED <<model, calls, rerun, faults, restarts>>

\* The process stops and another starts: live neurons are indexed, then the outbox drained.
Restart ==
  /\ restarts < MaxRestarts /\ restarts' = restarts + 1
  /\ model' \in Models
  /\ index' = {n \in Neurons : neuron[n] = "live"} \cup (outbox \cap Present)
  /\ outbox' = {} /\ torn' = {} /\ calls' = {}
  /\ rerun' = [r \in Runners |-> Idle]
  /\ UNCHANGED <<neuron, emb, progress, faults>>

-----------------------------------------------------------------------------
(* Re-embedding.                                                            *)

Stale(n) == emb[n] \ {model} # {}

\* Mutant: from the cursor on, itself included.
ListedFrom(cursor) ==
  LET from == {n \in Neurons : Stale(n) /\ n >= cursor}
  IN {n \in from : Cardinality({k \in from : k <= n}) <= BatchSize}

\* listStaleNeuronIds: the first of them after the cursor.
Listed(cursor) ==
  LET after == {n \in Neurons : Stale(n) /\ n > cursor}
  IN {n \in after : Cardinality({k \in after : k <= n}) <= BatchSize}

StartRun(r) ==
  /\ rerun[r].pc = "idle"
  /\ IF \E n \in Neurons : Stale(n)
     THEN /\ rerun' = [rerun EXCEPT ![r] = [pc |-> "list", cursor |-> progress[model], batch |-> {}]]
          /\ UNCHANGED progress
     ELSE /\ progress[model] # 0
          /\ progress' = [progress EXCEPT ![model] = 0]
          /\ UNCHANGED rerun
  /\ UNCHANGED <<neuron, outbox, index, torn, emb, model, calls, faults, restarts>>

\* Mutant: the last cursor is kept when nothing is left after it.
KeptCursor == progress

\* clearProgress
ClearedCursor == [progress EXCEPT ![model] = 0]

\* The next batch is listed and its contents read, up to the await.
ListBatch(r) ==
  LET batch == Listed(rerun[r].cursor)
      live  == batch \cap Present
      last  == IF batch = {} THEN rerun[r].cursor ELSE Max(batch)
  IN /\ rerun[r].pc = "list"
     /\ emb' = [n \in Neurons |-> IF n \in batch \ live THEN {} ELSE emb[n]]
     /\ IF batch = {}
        THEN progress' = ClearedCursor /\ rerun' = [rerun EXCEPT ![r] = Idle]
        ELSE /\ rerun' = [rerun EXCEPT ![r] = [@ EXCEPT !.pc = "await", !.batch = batch]]
             /\ UNCHANGED progress
     /\ UNCHANGED <<neuron, outbox, index, torn, model, calls, faults, restarts>>

\* Mutant: the old embeddings of the whole batch go, written again or not.
ReplacedAll(batch, got) ==
  [n \in Neurons |-> IF n \in batch THEN Upserted(emb, got)[n] \cap {model} ELSE emb[n]]

\* upsert, then deleteStaleEmbeddingsForNeuron, for each vector that came.
Replaced(batch, got) ==
  [n \in Neurons |-> IF n \in got \cap Present THEN Upserted(emb, got)[n] \cap {model} ELSE emb[n]]

\* embedBatch returned: vectors may be missing; the run goes on or has used its budget.
WriteBatch(r) ==
  LET batch == rerun[r].batch
  IN /\ rerun[r].pc = "await"
     /\ \E got \in SUBSET batch : Fault(got # batch) /\ emb' = Replaced(batch, got)
     /\ progress' = [progress EXCEPT ![model] = Max(batch)]
     /\ \/ rerun' = [rerun EXCEPT ![r] = [pc |-> "list", cursor |-> Max(batch), batch |-> {}]]
        \/ rerun' = [rerun EXCEPT ![r] = Idle]
     /\ UNCHANGED <<neuron, outbox, index, torn, model, calls, restarts>>

\* embedBatch rejects, or a vector of another size ends the run after those before it.
RunThrows(r) ==
  LET batch == rerun[r].batch
  IN /\ rerun[r].pc = "await"
     /\ Fault(TRUE)
     /\ \E n \in batch : emb' = Replaced(batch, {k \in batch : k < n})
     /\ rerun' = [rerun EXCEPT ![r] = Idle]
     /\ UNCHANGED <<neuron, outbox, index, torn, model, calls, progress, restarts>>

-----------------------------------------------------------------------------

Rerun(r) == StartRun(r) \/ ListBatch(r) \/ WriteBatch(r) \/ RunThrows(r)

Next == \/ \E n \in Neurons : Ingest(n) \/ EmbedReturns(n)
        \/ \E n \in Neurons : Metabolise(n, "archived") \/ Metabolise(n, "live")
        \/ Forget \/ Restart
        \/ \E r \in Runners : Rerun(r)

Spec == Init /\ [][Next]_vars

\* The host calls run() again when it has ended, and the provider answers.
LiveSpec == Spec /\ \A r \in Runners : WF_vars(StartRun(r) \/ ListBatch(r) \/ WriteBatch(r))

-----------------------------------------------------------------------------
(* Properties.                                                              *)

\* A neuron that was forgotten leaves no vector behind, although answers of the
\* embedding provider about it arrive after forgetUser (NeuronEmbeddingStore.upsert's
\* EXISTS, the registry's vector_write_outbox, removePoint).
ForgottenLeavesNoVector ==
  \A n \in Neurons : neuron[n] \in {"absent", "forgotten"} =>
    emb[n] = {} /\ n \notin index /\ n \notin outbox

\* A live neuron is in the index or will be when the outbox is next drained, but for one
\* whose index entry a failing metabolism took: that one waits for the next start.
LiveIsFound == \A n \in Neurons : neuron[n] = "live" => n \in index \cup outbox \cup torn

\* Re-embedding replaces: a neuron that has an embedding keeps one until it is forgotten,
\* whatever the provider returns and whichever runs overlap.
EmbeddingKept ==
  [][\A n \in Neurons : emb[n] # {} /\ emb'[n] = {} => neuron'[n] = "forgotten"]_vars

\* The embeddings of another model are eventually gone, those included that a run passed
\* over because the provider returned no vector for them.
ReEmbedded == \A n \in Neurons : []<>~Stale(n)
=============================================================================
