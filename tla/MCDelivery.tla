---------------------------- MODULE MCDelivery ----------------------------
(***************************************************************************)
(* Small instances of what must be done once although it is tried again:   *)
(* the effects of policies, the projection of their audit, the queue of    *)
(* finished turns, and the two imports.  They share no state, so they are  *)
(* checked side by side: Init picks one, the others stay as they were      *)
(* installed, and the states of the run are the sum of theirs.             *)
(***************************************************************************)
EXTENDS PolicyExecution, Sequences

VARIABLES component,   \* the one that runs
          command, outbox, log, flush, model, ckpt, proj,
          queue, processing, dead, lock, spawnLock, host, drainer, queued, times, late,
          deaths, torn, clock,
          file, key, event, created, checkpoint, run, passed, faults,
          source, events, settled, neurons, rows, consolidated, reader, sfaults

CONSTANTS Flushers, MaxVersions, MaxAttempts   \* of EventProjection

Audit == INSTANCE EventProjection

CONSTANTS Jobs, Hosts, Drainers, BatchSize, MaxDeaths, MaxTorn, MaxClock   \* of RememberQueue

Queue == INSTANCE RememberQueue

CONSTANTS Importers, Texts, Malformed, MaxLines, ChunkSize, MaxErrors, MaxFaults   \* of EpisodeImport

Import == INSTANCE EpisodeImport

CONSTANTS Messages, Users, Undated, Windows, MaxStops   \* of SourceImport

Source == INSTANCE SourceImport WITH
  Texts <- Messages, MaxFaults <- MaxStops, file <- source, run <- reader, faults <- sfaults

ASSUME Projecting == Audit!ProjectionAssumption
ASSUME Queueing == Queue!QueueAssumption
ASSUME Importing == Import!ImportAssumption
ASSUME Sourcing == Source!ImportAssumption

auditVars == <<command, outbox, log, flush, model, ckpt, proj>>
queueVars == <<queue, processing, dead, lock, spawnLock, host, drainer, queued, times, late,
               deaths, torn, clock>>
importVars == <<file, key, event, created, checkpoint, run, passed, faults>>
sourceVars == <<source, events, settled, neurons, rows, consolidated, reader, sfaults>>
all == <<component, vars, auditVars, queueVars, importVars, sourceVars>>

Installed ==
  /\ component \in {"policy", "audit", "retried", "queue", "import", "resume", "source", "windowed"}
  /\ Init /\ Audit!Init /\ Queue!Init /\ Import!Init /\ Source!Init
  /\ component \in {"import", "resume"} \/ file = <<Malformed>>
  /\ component = "import" => Len(file) <= 2
  /\ component \in {"source", "windowed"} \/ source = <<CHOOSE t \in Messages : TRUE>>

Runs(c) == component = c /\ UNCHANGED component
PolicyStep   == Runs("policy") /\ Next /\ UNCHANGED <<auditVars, queueVars, importVars, sourceVars>>

\* One process alone does something.
Alone(r) ==
  LET one == CHOOSE p \in DOMAIN r : TRUE
  IN  \A p \in DOMAIN r \ {one} : r[p].pc \in {"idle", "away"}

\* Two processes flush the audit, and a failed row waits; or one does, and tries it again.
AuditStep    == /\ Runs("audit") /\ Audit!Next /\ ~Audit!RetryTime
                /\ UNCHANGED <<vars, queueVars, importVars, sourceVars>>
RetriedStep  == /\ Runs("retried") /\ Audit!Next /\ Alone(flush')
                /\ UNCHANGED <<vars, queueVars, importVars, sourceVars>>

QueueStep    == Runs("queue") /\ Queue!Next /\ UNCHANGED <<vars, auditVars, importVars, sourceVars>>

\* Two imports of one file of two lines; or one import, resumed, of a longer file.
ImportStep   == /\ Runs("import") /\ Import!Next /\ Len(file') <= 2
                /\ UNCHANGED <<vars, auditVars, queueVars, sourceVars>>
ResumeStep   == /\ Runs("resume") /\ Import!Next /\ Alone(run')
                /\ UNCHANGED <<vars, auditVars, queueVars, sourceVars>>

\* Two importers of a growing file; or one that stops, and reads a part of it or all.
SourceStep   == /\ Runs("source") /\ Source!NextOver(Messages) /\ sfaults' = 0
                /\ UNCHANGED <<vars, auditVars, queueVars, importVars>>
WindowedStep == /\ Runs("windowed") /\ Source!Next /\ Alone(reader')
                /\ UNCHANGED <<vars, auditVars, queueVars, importVars>>
SideBySide ==
  \/ PolicyStep \/ AuditStep \/ RetriedStep \/ QueueStep
  \/ ImportStep \/ ResumeStep \/ SourceStep \/ WindowedStep

DeliverySpec == Installed /\ [][SideBySide]_all

-----------------------------------------------------------------------------
\* Every variable keeps its type.
TypesOK ==
  /\ component = "policy" => TypeOK
  /\ component \in {"audit", "retried"} => Audit!TypeOK
  /\ component = "queue" => Queue!TypeOK
  /\ component \in {"import", "resume"} => Import!TypeOK
  /\ component \in {"source", "windowed"} => Source!TypeOK

\* The audit of a policy's execution is in the log once, or still in the outbox,
\* whoever flushes and dies, and a checkpoint that says ready covers what it says
\* (flushAuditOutbox, PolicyExecutionProjector).
AuditIsHonest ==
  component \in {"audit", "retried"} => Audit!RecordedOnce /\ Audit!AuditKept /\ Audit!CheckpointIsHonest

\* Rebuilds, replays and their failures never take a reader of the projection back.
ReadersStay == Audit!ReadersNeverGoBack

\* What is handed over arrives, and once: a queued turn is in one of the queue's files
\* until it is recorded, whoever dies, but for an append that a rename splits; in the
\* ordinary run it is recorded once and one drainer works.  A line that a checkpoint lets
\* a resumed import skip is in the store under its own identity, and one answer alone says
\* so; a record that later runs over a source skip was imported to the end, and a message
\* of a dated line, imported with one window, is one event (remember-queue,
\* EpisodeImport, BatchIngestor).
DeliveredOnce ==
  /\ component = "queue" => Queue!KeptUnlessTorn /\ Queue!RecordedOnce /\ Queue!WorksAlone
  /\ component \in {"import", "resume"} =>
       Import!CheckpointIsTrue /\ Import!CreatedOnce /\ Import!CommittedIsSettled
  /\ component \in {"source", "windowed"} => Source!MarkedIsImported
  /\ component = "source" => Source!DatedOnce
=============================================================================
