# Cogmem: a verification of the memory kernel

Cogmem stores what an agent and its user said as raw events, groups the events of a
conversation into episodes, and derives memory from them: dreams, beliefs, edges,
reminders, vectors, indexes. The modules here model how that state is written: what is
recorded, grouped and imported, what is derived from it, and what becomes of the
derived when its source is repaired, merged or erased. TLC checks them on small
instances, and TLAPS proves for every instance all the safety that the runs check: every
invariant, every action property and every refinement. Liveness stays with TLC.

Paths are relative to the repository's `src/`; `episode/EpisodeStore.ts` is
`src/episode/EpisodeStore.ts`.

## The system

| Component | State | Operations | Module |
|---|---|---|---|
| Agent backend (`agent/AgentMemoryBackend.ts`, `store/EventStore.ts`) | `memory_events`, sequence counters | `rememberTurnWithResult`, append, claim of a named turn, repair of unassembled events | `AgentTurn` |
| OpenClaw plugin (`host/openclaw/AutoMemoryPluginInstaller.ts`) | queue, processing and dead-letter files, two lock directories | hook, drain, recovery | `RememberQueue` |
| Transcript import (`bin/episode.ts`, `factory.ts`) | `episode_ingest_keys`, checkpoint file | import, resume, `appendEpisodeMessageAsync` | `EpisodeImport` |
| Batch import (`batch/`, `bin/import-support.ts`, `adapters/conversation/`) | cursors, processed records, anchors | `runOnce`, `--reindex-raw` | `SourceImport` |
| Turn assembly and episodes (`episode/`) | `memory_episodes`, links, receipts, jobs | append, close, reopen, seal, sweeps | `EpisodeLifecycle`, `Segmentation` |
| Dream backlog (`dream/DreamScheduler.ts`, `engine/DreamCuratorWorker.ts`, `store/`) | jobs, runs, candidates, frames | tick, claim, complete, retry, repair, review | `DreamQueue`, `DreamOutcome` |
| Promotion, review, beliefs (`engine/DeepWritePromotionPolicy.ts`, `belief/`) | `deep_write_candidates`, `beliefs` | publish, evaluate, approve, upsert, invalidate | `BeliefRevision` |
| Prospective memory (`prospective/`) | `prospective_memories`, transitions | propose, confirm, defer, end, `listDue` | `ProspectiveMemory` |
| Entities (`entity/EntityGovernanceService.ts`, `store/EntityStore.ts`) | instances, aliases, conflicts, merge candidates, resolution log | propose, apply, revert, archive, upsert | `EntityMerge` |
| Bindings (`binding/`, `store/MemoryBindingStore.ts`) | bindings, clusters, edges | `bindEvent`, `memory bind` | `MemoryBinding` |
| Atlas (`atlas/`, `migrations/MigrationUtils.ts`) | documents, edges with supports, the dirty flag | rebuild, partial projection, reindex, maintenance | `AtlasProjection`, `MemoryEdges` |
| Time topology (`store/TopologyStore.ts`, `factory.ts`) | projection state, bucket entries, rebuild jobs | ingest, `rebuild-topology` | `TimeProjection` |
| Neurons and vectors (`factory.ts`, `embedding/`, `vector/`) | neurons, outbox, index, embeddings | ingest, archive, re-embed, start-up | `NeuronVectors` |
| Policy execution (`retrieval/PolicySideEffectExecutor.ts`, `store/PolicyExecutionStore.ts`) | `policy_executions`, audit outbox | claim, renew, finish, replay, flush | `PolicyExecution`, `EffectOnce` |
| Its projection (`store/PolicyExecutionProjector.ts`) | read model, checkpoint | bootstrap, rebuild, replay | `EventProjection` |
| Erasure (`factory.ts`, `forgetUser`) | everything a project owns | one transaction, among work in flight | `Erasure` (also `NeuronVectors`, `TimeProjection`) |
| Recall, retrieval, routing, hosts, MCP, CLI, migrations, models | indexes over the above, files, sockets | reads, I/O | not modelled |

Calls are synchronous on one SQLite database, except for awaits of a model, a
reviewer, an effect or a file, between which anything else may run. Several processes
may open one database. `CONCURRENT_ACCESS.md` supports one writer process at a time;
where a property needs that, the model says so, and where it holds without, it is
checked without. The plugin's queue is shared by processes through files alone.

What is hard: the state read before an await and used after it; leases that run
out inside an await; processes that die between two statements; repairs that move
evidence under a dream in flight; the same row reached by seals, repairs, retries and
expiry; duplicate deliveries; a projection that is clean although its source changed;
an undo after other merges; an erasure among answers that are still to come.
`PROJECT.json` lists each place under `hazards`.

## Modules

A component module says what the code does: its state, one action per transaction,
statement or read, its properties. An MC module is a finite instance.

| Module | What it is |
|---|---|
| `DreamQueue`, `DreamOutcome` | the Dream backlog; what it promises: a request is answered at most once, from the evidence it has then |
| `EpisodeLifecycle`, `Segmentation` | turns into episodes; what grouping promises: every event at most once, groups grow at the end, final groups do not change |
| `PolicyExecution`, `EffectOnce` | effects under leases; what they promise: at most once, tried again only when known not to have happened |
| `EventProjection` | the audit outbox, its flushers, the projector and its checkpoint |
| `BeliefRevision` | one single-valued belief between frames, candidates, governance and repair |
| `EpisodeImport` | a transcript, line by line, with ingest keys and a checkpoint |
| `SourceImport` | the records of a growing file, by window, from anchor to consolidation |
| `ProspectiveMemory` | reminders between proposals, confirmations and the clock |
| `RememberQueue` | the plugin's queue: file operations of gateways and drainers |
| `AgentTurn` | named turns, their claim, sequence numbers, assembly and repair |
| `EntityMerge` | merges proposed, applied and undone, with alias conflicts |
| `AtlasProjection` | projects, watched tables, the flag, rebuilds |
| `MemoryEdges` | edges as the reduction of their supports |
| `MemoryBinding` | events bound to topics and clusters, statement by statement |
| `TimeProjection` | the time projection, its generations and their swap |
| `NeuronVectors` | index, outbox and embeddings of neurons |
| `Erasure` | `forgetUser` against turns, ticks, curator runs, promotions and reviews |
| `MCDreamQueue`, `MCEpisodeLifecycle` | finite instances of these two |
| `MCCatchup`, `MCGovernance`, `MCDelivery`, `MCDerivation` | finite instances of the others, side by side |
| `DreamQueueProofs`, `DreamPublicationProofs` | theorems about the backlog |
| `EpisodeLifecycleProofs` | theorems about the episodes |
| `GovernanceProofs`, `DerivationProofs`, `CatchupProofs` | theorems about the components of these instances, and about the instances |
| `HandoverProofs`, `DeliveryProofs` | the same of `MCDelivery`: the queue and the imports, then the rest |

The side-by-side modules: components that share no state need not be multiplied with
each other. Each instance keeps its own variables, `Init` picks one of them, and only
that one takes steps; the space is the sum, not the product. A component may come in
several instances, where its steps are held to a part of what they may do, so that
different bounds bring out different cases. The constants of the components are constants
of the MC module, given values in the `.cfg`, so that a theorem about the MC module is one
for all their values (but for `AgentTurn` in `MCCatchup`, where it serves liveness alone).
What the
components have in common (the ledger, the episodes) is modelled in each as far as it
needs it.

### DreamQueue and the code

The grain is that of the database: one action per SQLite transaction, autocommit
statement or read, because that is where another process can come in.

* `ep[e]` is the row of `memory_episodes` with its links. Of `dream_status` it
  keeps whether it is `processed`; the order of the links is
  `EpisodeLifecycle`'s concern.
* `job[e]` is the row of `episode_dream_jobs`; `"none"` is no row. `retry` is what
  is left until `retry_after`, `nudges` a history variable, how often somebody put the
  failed row back to `pending`.
* `run[l]` collects what one attempt, named by its lease id, has written: the row
  of `deep_write_runs` with its candidates, and its frame. `left` is what is left
  until `lease_until` (-1: past). `current` is a history variable: the job row of
  that queueing has not been deleted or requeued since.
* `worker[p]` is the local state of `DreamScheduler.tick`, `pc` the next statement.

`TickStart` to `TickDone` are the statements of a tick in their order: the two
sweeps of staged leftovers, the expiry of leases, the scheduling of due retries, the
SELECT, per row the claiming UPDATE and the `dream_status` UPDATE, then job by job
the read of the evidence, the frame, the run with its candidates, the completing
transaction, and its failure paths. `Crash` may happen at each of them. Around it
`Lifecycle` is what seals and reopenings do to the rows, `Repair` is
`repairEpisodeInTransaction` with its whole tail, `RetryFailed` is
`cogmem dream retry`, `Review` is `MemoryFrameStore.review`.

Abstractions. What the curator derives is left open, as are priority, mode and
the classification of errors: each is a nondeterministic choice. The two pairs of
expiring UPDATEs are one action, over disjoint rows and inside the tick's
synchronous prefix. That prefix, up to the SELECT, takes no time of the model's clock;
everywhere else a process may be suspended for any time. All ticks share
`leaseMs`. The skipping of jobs over empty episodes is left out because
`JobOnlyOverSealed` shows there are no such jobs. Lease ids are drawn from a finite
set and drawn again only when nothing refers to them (`Fresh`), which makes the
space finite without making ids collide. Conversations are left out, so a
split is never refused by the unique index over open scopes.

### EpisodeLifecycle and the code

One conversation: one project, session, source agent and thread, the scope in
which `findActiveEpisode` looks.

* `ep[e]` is the episode with its ordered links, two ages (`quiet` since
  `updated_at`, `since` since `sealed_at`), its last receipt and whether it has a job.
* `judged[v]` records, per linked event, the relation it got and the links it was
  judged against: the second is a history variable.
* `call[c]` is a delivery between `appendTurnAsync`'s read and its transaction.
* `sweep` is a sweep at work on the list it read.

`Receive` is the read before the reviewer's await. `CloseTurn`, `ContinueTurn`,
`ResumeTurn`, `StartTurn` and `DropTurn` are the outcomes of `appendTurnClassified`'s
transaction, one per way through its conditions; the relation and the verdict of the
boundary guard are open, the staleness check and its consequences are not. `StartSweep`,
`SweepRead` and `SweepSeal` are the sweeps with `sealEpisode` split where it reads
outside its transaction. `SealImported` and `OperatorSeal` are the explicit seals.
Noise turns touch no episode, and `batchSeal` has no caller; both are left out.
A soft seal by command over a hard-sealed episode is the operator's decision and is
left out of `OperatorSeal`.

`OneWriter` is the supported deployment: sweeps run without an await inside the host's
process. `ImportReseals` is what the code does; the passing runs set it to FALSE,
because its effect, a finding of its own, would hide everything else.

### Recording and importing

* `AgentTurn`. `ledger` holds the thread's events, `drawn` the turn counter, `writer[p]`
  a call of `rememberTurnWithResult` between its transactions: claim, draw, user's
  message, reply, links, assembly. `RepairEpisodes` is `episode repair` over a page of
  `Limit` events; it starts inclusively at the last event the one before read, so `Limit`
  is at least 2. The caller's own `turnSeq` and tool events are left out.
* `RememberQueue`. Files are their lines with an age; `host[h]` and `drainer[d]` name the
  next file operation. An append is one step, or two (open, write) when it is torn;
  `MaxTorn` bounds those. The clock counts how often `rememberDrainTimeoutMs` goes by:
  activity comes in bursts, separated by gaps longer than the timeout. Recording a turn
  is one step with three outcomes.
* `EpisodeImport`. `key`, `event` and `created` follow one identity (text and occurrence)
  through reservation, append, assembly and commit; `run[p]` is the import's loop, with
  `--resume` and `--skip-errors`; `Grow` and `Replace` change the file between runs.
* `SourceImport`. The anchors and record hashes are modelled by what they are made of:
  message, ordinal in its turn, file time for undated lines. `Start` scans a window,
  the steps after it are those of `runOnce` for each record, then the marks, the
  cursor and the consolidation.

### Deriving

* `BeliefRevision`. One key, so a belief row is value, time, source and `by`
  (`superseded_by_belief_id`). `Verdicts` is `compareBeliefs` for claims of one
  confidence: what two kinds of sources weigh is left open.
* `ProspectiveMemory`. `log` is the kind of each raw event; `rows` the versions of the keys.
  `Confirm`, `Defer` and `End` are the actions of `resolve`; what is due is what `listDue` selects.
* `MemoryBinding`. `at[p]` is `bindEvent` between two of its statements, each a commit of
  its own. The classifier is a constant; the page sizes 8, 5 and 3 are scaled to 3, 2, 1.
* `MemoryEdges`. `sup` holds one row per edge and author (the curator or a frame), `edge`
  is what they add up to. Three kinds of edge are told apart: entrances, relations between
  neighbouring episodes on an issue, and one that any frame may assert; an issue stands
  for the issue and topic hints alike. Evidence is a set; `wrote` collects the edges whose
  version a transaction raises. The author `raw_evidence` and frames that need confirmation are left
  out.
* `AtlasProjection`. A row is its presence; a table is watched (a trigger sets the flag in
  the write's transaction) or not. `Maintenance` is one project's turn in a tick.
* `TimeProjection`. A neuron's buckets are one entry per zone. `local[p]` is
  `rebuildProjectTimeTopology` between its transactions, page by page; `job`, `staged`
  and `snapshot` are its tables. Generation ids are used again when nothing refers to them.
* `NeuronVectors`. hnswlib, one process. `calls` are `embed` calls whose answer is to come;
  `rerun[r]` is `ReEmbeddingPipeline.run` around its await.
* `PolicyExecution`. `row[k]` is the row of the key, `proc[p]` an execution, `applied` and
  `orphans` history: how often the effect happened, and calls nobody waits for.
* `EventProjection`. `outbox` and `log` with each flusher's place in
  `flushAuditOutbox`; `proj` is the projector between its transactions.

### Deciding

* `EntityMerge`. Instances with aliases, conflicts, candidates and the resolution log,
  whose idempotency keys are its primary key. All instances have one type and belong
  to the project; an instance's canonical name is the instance.
* `Erasure`. One project, one tick, several curator runs. Erasing is one step, as its
  transaction is; `Assign`, `Curate`, `Framed`, `Complete`, `Answer` are what comes back
  from awaits. Whether a lease has expired is a choice of `Claim`; an attempt derives one
  frame or one candidate; ids are never reused. `episode_dream_runs` and the dirty flag
  are left out.

## Runs

| Run | Question | Result |
|---|---|---|
| `DreamRaces` | two processes, one episode, crashes, expiring leases, nudges, repairs | holds, 512 thousand states |
| `DreamRepairs` | two episodes, two events, a batch in flight, every repair | holds, 798 thousand states |
| `DreamLiveness` | do jobs settle and leftovers go | holds, 209 thousand states |
| `EpisodeTurns` | order, receipts, context and finality of turns | holds, 765 thousand states |
| `EpisodeOverlap` | one open episode, with sweeps from another process | holds, 81 thousand states |
| `EpisodeQuiet` | does a quiet conversation reach the backlog | holds, 3 thousand states |
| `Catchup` | do projections, vectors and turns follow their source, and catch up | holds, 254 thousand states |
| `Governance` | do merges, beliefs and erasures leave what they decided | holds, 386 thousand states |
| `Delivery` | is what is retried done once | holds, 769 thousand states |
| `Derivation` | does what is derived rest on what was said | holds, 691 thousand states |
| `EpisodeImportReseal` | does a hard seal stay | violated |
| `ErasureOutrun` | does an erasure hold against a tick in flight | violated |

The instances of the side-by-side runs (in quotes, the values of `component`):

| Run | Instances |
|---|---|
| `Catchup` | Atlas of two projects; the time projection of three neurons in two zones, rebuilt by one operator who may die ("time"), or of one neuron, by two rebuilders and with a `forgetUser` ("racing"); two neurons, two models ("vectors"); a named turn submitted twice ("turn") |
| `Governance` | two entities that share a nickname and two merges; two episodes that speak of one preference, in four stories ("beliefs"); an erasure beside Dream ticks over two episodes ("dreams"), beside one curator run and one episode ("beside"), beside two runs and their cursor ("cursor") |
| `Delivery` | one operation and three executions ("policy"); the audit with two flushers ("audit") or one that tries again ("retried"); the queue with two jobs, gateways and drainers; two imports of at most two lines ("import") or one of three, resumed ("resume"); two importers of a growing file that read all of it ("source"), or one that stops and changes its window ("windowed") |
| `Derivation` | one key, three events, two candidates; edges of three episodes ("edges") or two, rebuilt twice ("twice"); one binder that stops ("stopping") or two ("together"); the writers of a named turn, with repairs ("turn") |

### Properties

Of the backlog:

* `OneAnswerPerQueueing`, `ProcessedMeansCurrent`, `VisibleRestsOnLinks`: whatever
  expires, dies or overlaps, one queueing publishes once, a processed job was
  answered from the evidence the episode has now, and visible candidates cite
  only events still linked to their episode.
* `PublishedUnderLease`: candidates become visible only in the step that processes
  their job, under a lease still running.
* `OneActiveFrame`: publication and approval never trip the unique index over active
  frames.
* `JobOnlyOverSealed`, `ShownAsDreamed`: jobs exist over hard-sealed episodes with
  evidence, and an episode shown as dreamed has its job processed.
* `AttemptBudget`, `TerminalStays`: no history tries a queueing beyond its limit, and
  terminal failures are final.
* `ImplementsOutcome`: with leases, retries and crashes as stuttering, the backlog
  implements `DreamOutcome`.
* `JobSettles`, `LeftoversSwept`: every queued job is eventually processed, refused or
  used up, and nothing stays staged.

Of the grouping: `ClosureIsLast` and `ShiftIsFirst` are rules of
`EpisodeInvariantValidator` that the assembler must keep; `JudgedInContext` says a
verdict formed before the await is never applied to an episode that moved on;
`ReceiptMatches` relates the last receipt to the links; `ImplementsSegmentation` is
finality; `OneOpenEpisode` the unique index; `QuietIsQueued` progress.

Of what catches up (`Catchup`):

* `CleanIsWatched`: a project whose flag is clean shows what its watched tables hold.
* `FollowsItsSource`: a time projection that may be used holds every neuron and nothing
  else (`UsableIsCurrent`); a forgotten neuron leaves no vector, a live one is in the
  index or on its way (`ForgottenLeavesNoVector`, `LiveIsFound`).
* `KeptWhileUsed`: no rebuild takes entries from a projection in use (`UsableIsStable`),
  no neuron loses its embedding while re-embedding (`EmbeddingKept`).
* `CatchesUp`: flags come clean, the time projection becomes usable, old embeddings go,
  recorded events come to an episode, infinitely often (`Refreshed`, `ReEmbedded`,
  `Assembled`).

Of what decides (`Governance`):

* `AppliedIsUndoable`: an applied merge has its one merge row in the log and no revert row.
* `DecisionsStand`: an undone merge never comes back (`RevertIsFinal`); a decided candidate
  is changed by a repair or a new Dream alone (`DecidedStays`).
* `BeliefsAreGrounded`: promoted beliefs rest on promoted candidates, a superseded row
  gave way to a later word, pointers end (`RestsOnPromoted`, `LaterWordStands`,
  `ChainEnds`).
* `ErasureHolds`: no episode links an event the ledger has lost, nothing shown rests on
  one, and the curator's cursor skips no event (`LinksAreInLedger`,
  `ShownRestsOnLedger`, `CursorSkipsNothing`).

Of what is done once (`Delivery`):

* `ImplementsEffectOnce`: the executor implements `EffectOnce`.
* `AuditIsHonest`, `ReadersStay`: the record of an execution is logged once or still in the
  outbox; a ready checkpoint covers what it says; a reader never goes back.
* `DeliveredOnce`: a queued turn is in a file until it is recorded (`KeptUnlessTorn`), once
  and by one drainer while nothing dies or overruns (`RecordedOnce`, `WorksAlone`); a line a
  checkpoint skips is stored (`CheckpointIsTrue`), one answer says it created it
  (`CreatedOnce`), committed is settled (`CommittedIsSettled`); a marked record was imported
  to the end (`MarkedIsImported`), and a message of a line with a time is one event as long
  as every run reads the same window (`DatedOnce`).

Of what is derived (`Derivation`):

* `DueIsConsented`: what is due rests on an affirmation given after all its evidence, which
  activates nothing else that is due.
* `GraphFollowsItsSources`: edges are what their supports add up to, none rests on a frame
  whose events moved, a clean projection shows the episodes, a second rebuild changes
  nothing; a binding's cluster holds its event; while no call is cut short, topics hang
  together and edges keep all evidence.
* `TurnIsOne`: a name stands for one turn (`OneTurn`), what is answered as recorded is
  (`AnsweredIsRecorded`), a sequence number joins one turn's messages (`SeqIsOneTurn`).

Each property of a passing run has a mutant in `PROJECT.json`: a change of the modelled
code (a dropped guard, a missing reset, a wrong order) under which the run fails. The
mutated definitions stand in the modules before the ones they change. A property that is
a conjunction over components has one mutant listed; the modules hold another for each
other part (`\* Mutant:`), and the run fails with each of them in place.

### Findings

1. `EpisodeImportReseal` (`HardSealedStays`): the seal at the end of an import does not look
   at the episode's status. It un-seals a hard-sealed episode and deletes its job, though
   `MEMORY_MODEL.md:74` says hard-sealed episodes never reopen automatically.
2. `ErasureOutrun` (`NothingErasedIsStored`): a Dream tick that awaits a model while its
   project is erased stores the frame and the candidates it derived afterwards. Its
   completion fails, but the rows stay until the next erasure; `MEMORY_MODEL.md:26` says
   `forgetUser` erases every project-owned projection.

### Further divergences

Met while modelling. The modules state what the repository says as properties that do
not hold; no run lists them. Where a configuration is named, `tlc -config X.cfg M` shows the
behaviour; the others need the bounds in the last column.

| Property | What happens | Shown by |
|---|---|---|
| `DreamQueue!RetryableIsRetried` | a retryable failure on the last attempt leaves a job that is neither retried nor terminal (`episode/EpisodeStore.ts:704`; `MEMORY_MODEL.md:29`) | `DreamStuckRetryable.cfg`, `MCDreamQueue` |
| `EpisodeLifecycle!ReviewIsAwaited` | the grace sweep finishes and queues what was sealed for review (`episode/EpisodeStore.ts:658`; `MEMORY_MODEL.md:74`) | `EpisodeReviewSkipped.cfg`, `MCEpisodeLifecycle` |
| `EpisodeLifecycle!NightTouchesOnlyIdle` | the Night hard-seals episodes whose last turn is fresh (`factory.ts:1945`; `docs/adr/0012:26`) | `EpisodeNightFresh.cfg`, `MCEpisodeLifecycle` |
| `BeliefRevision!OneCurrentValue` | a frame published late puts an older value beside the newer one (`belief/BeliefStore.ts:631`; `belief/FrameRelationBeliefs.ts:16`) | `BeliefTwoValues.cfg`, `BeliefRevision` |
| `SourceImport!OneEventPerMessage` | the time of an undated line is the file's, so a grown file imports the line again (`adapters/conversation/ConversationMarkdownAdapter.ts:132`) | `ImportGrown.cfg`, `SourceImport` |
| the same | a window that cuts a turn gives its records other anchors (`bin/import-support.ts:466`) | windows `{{b, c}, {a, b, c}}`, nothing undated |
| `SourceImport!WindowConsolidated` | a run that dies after its marks is never consolidated (`batch/InstalledBatchProcessor.ts:286`) | one fault |
| `EpisodeImport!ResumeAccepted` | the checkpoint of a first line that fails is refused by `--resume` (`bin/episode.ts:181`) | one line, one fault |
| `ProspectiveMemory!ResurfacesWithNewEvidence` | part of a rejected candidate's evidence makes a new version (`prospective/ProspectiveMemoryService.ts:93`; `CHANGELOG.md:250`) | `ProspectiveResurfaces.cfg`, `ProspectiveMemory` |
| `ProspectiveMemory!OneCandidatePerAffirmation` | a candidate confirmed anew gives its first affirmation free for a second one (`:148`) | two keys, four events |
| `RememberQueue!NoJobLost` | an append into a file already renamed is removed unread (`AutoMemoryPluginInstaller.ts:2043`) | `RememberTorn.cfg`, `RememberQueue` |
| `RememberQueue!OneDrainer` | a drain longer than the timeout loses its lock to another (`:2017`) | `RememberTwoDrainers.cfg`, `RememberQueue` |
| `RememberQueue!Settled` | the last turn's job waits for a turn that may not come (`:1574`) | `LiveSpec`, one job |
| `AgentTurn!RefusedSaysOther` | a named turn cut in half is refused as a conflict for ever (`factory.ts:1600`) | `TurnHalf.cfg`, `AgentTurn` |
| `EntityMerge!OwnAliasesKept` | undoing a merge removes an alias the target had before (`entity/EntityGovernanceService.ts:161`) | `MergeAliasLost.cfg`, `MCGovernance` |
| `EntityMerge!MergeIsReversible` | an applied merge that is proposed again can no longer be undone (`:78`) | the same with this invariant |
| `EntityMerge!ConflictIsShared` | archiving an instance leaves its alias conflicts active (`store/EntityStore.ts:749`) | the same with this invariant |
| `AtlasProjection!CleanIsCurrent` | writes to unwatched tables leave the flag clean (`migrations/MigrationUtils.ts:173`) | `AtlasAlias.cfg`, `AtlasProjection` |
| `AtlasProjection!CleanIsIndexed` | one project's rebuild empties the search rows of all (`:201`) | `AtlasIndex.cfg`, `AtlasProjection` |
| `TimeProjection!UsableIsCurrent` | a second rebuilder empties the first one's snapshot before its swap (`factory.ts:1416`) | two rebuilders, two neurons |
| `TimeProjection!ErasedWhole` | a neuron ingested between `forgetUser`'s read and its transaction survives (`factory.ts:3278`) | two neurons, one erasure |
| `MemoryEdges!CleanHasRelations` | a targeted reindex drops relations and leaves the flag clean (`atlas/GraphCurator.ts:193`) | three episodes |
| `MemoryEdges!RebuildIsIdempotent` | a rebuild raises the version of edges that do not change (`atlas/MemoryFrameProjector.ts:46`) | two frames on one edge |
| `MemoryBinding!BoundIsComplete` | an event whose binding was cut is taken for bound (`factory.ts:2591`) | one stop |
| `MemoryBinding!CorrectsPrior` | a correction bound late corrects what came after it (`binding/MemoryBindingService.ts:90`) | one stop, a correction |

### Bounds, and why they suffice

* `DreamRaces`: two processes are the smallest number that race. Each attempt takes one
  lease id; two are enough for an attempt that lost its lease and the one that replaced
  it, and an id comes free when nothing refers to it. `MaxAttempts` = 2 lets a job
  fail, be retried and be used up; `MaxNudges` = 1 lets an operator reset one.
  `LeaseMs` = 1 lets a lease survive one unit of time and not two, so it runs out in every
  await and in none.
* `DreamRepairs`: two episodes and two events are what a move, a merge and
  a split need; a batch of two lets the second job be repaired while the first is at
  work. One process suffices there: repairs interleave with it at every step.
* `DreamLiveness`: one process may die at each statement and start again; three ids,
  because a dead one may stay referred to.
* `EpisodeTurns`: two deliveries of three events, three episodes and ages up to 2, with
  all thresholds at 1, so that each threshold is passed and not passed.
* Symmetry: lease ids, processes and events are interchangeable in the safety runs. The
  liveness runs use no symmetry set; they number the ids and take the least free one
  (`LeastIdFirst`). The view of `MCDreamQueue` leaves out what a free id last stood for.
* `Catchup`: pages of two over three neurons, and batches of two over two, make a cursor
  stop inside and at the end; one touch or crash falls into each step of a rebuild; two
  faults outlast one retry. `MaxWrites` = 3 writes before, during and after a rebuild.
* `Governance`: two merges of two instances are a merge and its repetition or its reverse.
  Two belief rows are a value and its successor, and the four stories are, up to renaming,
  all there are over two values and two times: the same or another value, at once or
  later. One erasure with one restart leaves room for work before and after.
* `Delivery`: three executions are a holder, one that finds its row, and one that replays.
  Two versions and two flushers race for a row. Two jobs, gateways and drainers, one
  death, one torn append and one passing of the timeout are the queue's cases one by one
  and in pairs; a batch of one job leaves the other to be put back. Two stops cut an import
  and its repetition short. Two lines may be equal, malformed or cut by a chunk. `MaxAttempts`, 5 in
  the audit, is 1 or 2.
* `Derivation`: three events are evidence, an affirmation and one after it; two rows are two
  versions. Two frames may support one edge. Five events exceed a page of three bindings;
  three that are bound at once are one before, one beside and one after. A turn's two messages
  are a page of repairs, so the next page starts inside or behind them.

### Fairness

`DreamQueue!FairSpec`: every process finishes the ticks it starts and starts ticks again
(weak fairness of `TickStep`), time passes (strong fairness, because a tick's synchronous
prefix takes no time), and operators stay away. The repository leaves scheduling to the
host: `docs/adr/0012` has it run a Night every day, which is a maintenance tick followed
by a Dream tick, and `cogmem dream tick` in between. Crashes are allowed at any time; `Quiet`
in the properties says that they end eventually, without which nothing could be promised. `IdsLast` keeps the finite set of
ids from being what stops a job. `EpisodeLifecycle!FairSpec`: the sweeps of those ticks
come back (strong fairness of `StartSweep`, since turns keep making an episode
busy) and work through what they found.

`MCCatchup!Fairness` has one conjunct for each component, all weak. Maintenance ticks come
again: `MEMORY_MODEL.md:98` gives them to the host. An operator runs `rebuild-topology`
until the projection can be used, and leases, which are times, run out. The host calls a
re-embedding run again when it has ended, and providers answer (perhaps with failures, which
`MaxFaults` bounds). `episode repair` is run now and then. Nothing else is fair: writers
may stop for good at any step, crashes and faults end by their bounds.

## Proofs

### The backlog

`DreamQueueProofs` proves, for any numbers of episodes, events, processes, lease ids
and any limits:

* `TypeCorrect`: `Spec => []TypeOK`. The invariant is `TypeInv`, which adds that the
  leases a worker holds name episodes; without it `MarkProcessing` could write outside the
  table.
* `AttemptsBounded`: `Spec => []AttemptBudget`. The budget is not inductive: a pending
  row at the limit could be claimed once more. `BudgetInv` adds that a pending or
  scheduled row is below the limit plus its nudges. The lemma `JobSteps` reduces every step
  of the system to one of a few steps of a job row, `JobStep`, so the rest is
  arithmetic.
* `TerminalIsFinal`: `Spec => TerminalStays`, from the same lemma.
* `JobsOverSealed` and `DreamedIsProcessed`: `Spec => []JobOnlyOverSealed` and
  `Spec => []ShownAsDreamed`, from `RowsInv`, which relates the three statuses of an
  episode.

`DreamPublicationProofs` reduces every step once more, from three sides: what it does
to the rows of an attempt (`RunStep`: show no more than before, take in the evidence,
start over under a claim, or be published), to a tick (`TickMoves`), and to a job's lease
and an episode's links (`JobMoves`, `LinksStep`). From these:

* `NothingPublishedLate`: `Spec => PublishedUnderLease`. Needs `CursorInv`, that a tick at
  work has a lease id with an episode.
* `AnsweredOnce`: `Spec => []OneAnswerPerQueueing`. Not inductive alone; `AnswerInv` adds
  that only a processed job is answered, so the run that publishes next finds no answer,
  and what takes a processed job back disowns its answer in the same transaction.
* `VisibleIsLinked`: `Spec => []VisibleRestsOnLinks`. Rests on `ReadInv`: as long as the
  lease a tick works under stands, what it read before its awaits is what the episode has.
  Events join only episodes without a job (`RowsInv`), and repairs that move events take
  the job, hence the lease, away.
* `ProcessedIsCurrent`: `Spec => []ProcessedMeansCurrent`. Adds `OwnInv` (no two ticks have
  the same attempt before them and none a published one, so staging never hides what
  is shown) and `LeaseInv` (the lease of a processing job names an attempt at it that
  nothing disowned).
* `OneFrameActive`: `Spec => []OneActiveFrame`, from `FrameInv`.

* `BacklogImplementsOutcome`: `Spec => ImplementsOutcome`. With `OutcomeInv`, the
  conjunction of the invariants above, the answers the mapping shows are none, or one from
  the evidence at hand for a processed job. Only an expiry, a failure and a completion end
  the work on a job (`FinishingSteps`): the first two are `Refuse`, the third `Publish`, and
  every other step, a repair, a claim or a crash, is `Revise` of the episodes whose jobs it
  drops or makes anew.

### The episodes

`EpisodeLifecycleProofs` describes the row operators by lemmas and reduces the steps to two
kinds: `TurnEffect`, what a turn can do to the groups, and `SealEffect`, what sweeps, imports
and operators can.

* `EpisodeTypes`, `OneIsOpen`: types, and at most one open episode, for any number of
  episodes, events and deliveries, and with a second process sweeping. Types rest on
  `TypeInv`, which knows that a delivery at work has an event and a sweep has links.
* `VerdictsFit`, `ShiftsComeFirst`: together inductive (`GroupInv`): the links a turn was
  judged against are those it joins, so a shift, judged against nothing, comes first.
* `ReceiptsMatch`, with one writer: `SealInv` adds that the links a sweep has read are still
  those of its episode.
* `ClosuresEnd`, `SealsStay`, `GroupingIsFinal` (the refinement of `Segmentation`), with one
  writer and imports that look at the status: `ClosedInv` adds that a closing turn's episode
  is sealed. `EpisodeImportReseal` shows that the second condition is needed, and that the
  code does not meet it.

### Side by side

A proof module for side-by-side components extends their MC module. It proves the theorems
of each component from its own specification, whose constants are those of the MC module;
`Composition` then shows that a behaviour of the whole is one of each component, the steps of
the others apart, and the properties that the runs list follow.

**What is decided** (`GovernanceProofs`).

* Merges. `LogInv` (the log has one row per merge and action, an applied merge has the one
  and not the other) gives `AppliedUndoable` and `RevertedForGood`. `OriginLogged`, that an
  audit row holds the own canonical id of every redirected instance, needs `OriginInv`, which
  follows the chain of merges to the first.
* Beliefs. `BeliefInv` adds two things to `RestsOnPromoted`: pointers lead to other rows that
  are there, and a candidate has one exactly while it is promoted (`PointersInv`); the row a
  superseded one points at stands behind it, has another value, and a later time unless its
  source is another (`YieldInv`). So following pointers ends. `BeliefsRest` and
  `CandidatesStand` state it.
* Erasure. `ErasureInv`. None of the three parts of `ErasureHolds` is inductive: a tick or a
  run holds events outside the database. `WholeInv` says that what was read at once is
  erased at once; `TickInv` and `StagedInv` that what is held or staged for an episode is in
  the ledger as long as that episode is still sealed, which is what completion and review
  look at; `ReadInv` and `ClockInv` that a curator's run holds everything up to its last
  event, so that the cursor it writes skips nothing.

**What is derived** (`DerivationProofs`).

* Prospective memory. `Versions` (versions do not exceed their place, every key has a latest)
  and `Consent` (a confirmation in force is an affirmation after the evidence, on record, of
  this row alone) give `Recorded`, `DueConsented` and `EndedForGood`.
* Turns. `TurnInv`: a sequence is drawn by one call, a message is written under the sequence of
  its call (`SeqInv`), the messages of a name are in one sequence and were submitted together
  (`NameInv`, `ReplyInv`, `AskedInv`), what a writer holds is its own (`WriterInv`), and who was
  told "recorded" or "duplicate" finds all of it (`ToldInv`). Claiming by name and writing by
  sequence are far apart in the code; `WriterInv` is what joins them. The type of the counter
  needs `CountInv`: a call that has not drawn can still draw once, so what is drawn and what is
  still to draw do not exceed the calls, and the ledger has at most two messages a sequence.
* Edges. `EdgeInv` is inductive between transactions; inside one it is not, since supports are
  written edge by edge and reduced afterwards. So the lemmas follow a transaction through its
  statements with the three tables in a record (`IsTables`): of the edges, all but those whose
  supports were just written are reduced (`ReducedBut`), and the reduction then closes the gap.
  `FrameInv` says that an active frame belongs to one episode and cites its events. What a
  rebuild writes is a function of the sources (`CuratorRow`, `FrameRow`), so the second finds
  it there. `EdgesFollow`.
* Bindings. An edge is never removed and its evidence grows; what a process has still to write
  to the edge of its binding is on its list (`Pending`, in `EvidenceInv`), in however many
  processes: `EvidenceKeptThere`. With one process (`Lone`), `ClusterInv` adds that what was
  read of a cluster is all of it until it is fused. That what is bound to a topic hangs together
  (`TopicIsConnected`) is `JoinedInv`: a call has read the newest event bound to the topic
  (`HasRead`), however small the page, and links its own to it (`Reaches`) or is about to
  (`ToWrite`) before that event counts as bound; so one event joins a connected set. Evidence and
  connection are stated while no call was cut short: the repository does not complete one that
  was (`BoundIsComplete`, Further divergences).

**What catches up** (`CatchupProofs`).

* Atlas. `AtlasCleanIsWatched` is inductive with the types.
* Types. `HeldInv`: what is shown, staged, copied, listed or held in a page is of neurons that
  were drawn once, and the generations are those of the rebuilders and two more. `RunInv`: a
  re-embedding run awaits a batch that fits, behind its cursor.
* Vectors. `VectorInv`: both halves of `VectorsFollow` are inductive together, over the calls of
  a provider that are still to answer and pages that were read before. `EmbeddingStays` follows.
* Time projection. `StableInv`, that while there is a job the projection is not clean, and that
  who is at work has a job's generation, gives `StableWhileUsable` for any number of rebuilders
  and with erasures. `CurrentInv` is about one operator (`Alone`): the job is his (`WorkInv`),
  at every statement the staged and copied pages cover the neurons up to the cursor, as of the
  revision that publication compares (`CoverInv`), and what is shown as clean at the source's
  revision is all of it (`ShownInv`).
  `CurrentWhileAlone` is not stated for several rebuilders, for two of them violate it (see
  Further divergences); `OneOperator` shows that the instance "time" stays with one.

**What is done once** (`HandoverProofs`, `DeliveryProofs`).

* Effects. The argument is about one operation: `KeyInv` says who calls for it, what is on
  its way and what has happened: at most one execution calls, what happened and what is
  under way add up to at most one, and a row that says "not executed" has nobody left who
  could make it happen. From it `AtMostOnce`, `KnownNotExecuted`, `ReportsAreSo`,
  `DeadRowsStay`, and `EffectsOnce`, the refinement of `EffectOnce`.
* Audit. `FlushInv`: what a flusher holds was not given up, and what it deletes is in the log.
  `ReadInv`: what a rebuild stages and a replay extends has every event up to its cursor, and
  every event that readers already see. `AuditHonest` and the action property `ReadersGoOn`.
* Import of a file. `ImportInv`: a run has met each text as often as the lines it has read
  (`RunInv`; the lemmas `Met...` are about that count), so identities
  agree between runs of a growing file; of all runs between "appended" and "answered" one
  holds the creation (`ClaimInv`).
* Import of a transcript. `ReaderInv` orders a run: nothing is ingested before all is settled,
  nothing marked before all is ingested; `MarkedHolds` follows. `DatedHolds` adds `DatedInv`: the
  anchor of a dated line depends on neither the mtime nor how much was read, as long as the
  window is the same; `OneWindow` shows that it is in "source".
* Queue. `SoleInv`: while the timeout has not gone by, whoever may spawn, was spawned or drains
  is alone under the spawn lock. `OnceInv`: then a turn is in one line of one file, in one
  drainer's hands or recorded. `OwedInv`, at all times but after a torn append: a queued turn is
  recorded, dead, in the queue, or in a processing file that still stands for it, where
  `PlaceInv` says which do. From these `JobsKept`, `OnceHolds` and `AloneHeld`.

### Assumptions, and what is only model-checked

The assumptions are `ConstantsAssumption` of `DreamQueue` and `EpisodeLifecycle`,
`ExecutionAssumption`, `KnownAssumption`, `ProspectiveAssumption`, `Bounds` and `Apart` of
`AtlasProjection`, and those that the instantiated modules name and the MC modules assume for
their instances (`Erasing`, `Revision`, `Sized`, `Vectoring`, `Talking`, `Turning`, `Edging`,
`Bounding`, `Projecting`, `Queueing`, `Importing`, `Sourcing`). They say that bounds are numbers,
that pages and batches hold something, that special values are not ordinary ones, and that a
sentinel like `Malformed` is no text. TLC evaluates them on every run.

Proved is every invariant, action property and refinement that a passing run lists. Only
model-checked are the liveness properties (`JobSettles`, `LeftoversSwept`, `QuietIsQueued`,
`CatchesUp`): fairness and `ENABLED` are out of the prover's reach.

A proof is about the model. Where a property needs a condition ("with one rebuilder", "with
one binder", "while all read one window"), so does its theorem, and Further divergences says
what happens without.

## Plan

1. Done: the backlog and the episodes; what records, imports, derives and decides, side by
   side; theorems about all of their safety.
2. Theorems over fewer assumptions: `DatedOnce` and `CurrentWhileAlone` for several processes
   whose work does not overlap.
3. More of the system: migrations that run at start-up in several processes, the ownership
   ledger of installed host files, snapshots and their import, the bridge daemon.
4. Compositions, where TLC can bear them: `EpisodeLifecycle` with `DreamQueue` over scopes, where
   a split meets the unique index over open episodes.

## Not modelled

* Recall, retrieval, ranking and routing are reads whose quality is no matter of states; the
  decay of the core graph is numeric.
* Language models, embeddings as numbers, extraction and classification: nondeterministic
  choices or constants here.
* `RuntimeProjector` with the outbox of `PlanRuntimeStore` repeats `EventProjection`, statement
  for statement. `VectorProjector`, the background job table and the proposal ledger with its
  applier are driven by tests only.
* Snapshots, `StorageCompactor`, `MemoryGovernanceExecutor`, the checkpoints of the offline
  consolidation, belief scopes and facts, topic governance, and the index file of the vector
  store: within reach, not yet done.
* Hosts, the bridge, MCP, CLI, installers, updates, migrations, language packs and assets: I/O
  and data around the kernel. `PROJECT.json` lists every component with the reason.
