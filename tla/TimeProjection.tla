--------------------------- MODULE TimeProjection ---------------------------
(***************************************************************************)
(* The civil-time projection of one project: which neuron lies in which    *)
(* time bucket, the flag that says whether it can be used, and its         *)
(* rebuild.  A rebuild stages a generation page by page under a job row    *)
(* that outlives the process, claims the job under a lease and swaps the   *)
(* projection in one transaction.  Ingestion extends a usable projection   *)
(* in its own transaction and leaves one that is not for a rebuild.        *)
(*                                                                         *)
(* Every action is one transaction or one statement, and those of other    *)
(* processes fall between.  A neuron's day, week and month buckets are one *)
(* entry, told apart by the time zone only; the graph staged from the      *)
(* snapshot follows it.                                                    *)
(***************************************************************************)
EXTENDS Naturals, FiniteSets, FiniteSetsExt

CONSTANTS N,           \* neurons the project may come to hold, ordered by creation
          Zones,       \* time zones the processes are configured with
          Rebuilders,  \* processes that run rebuild-topology
          ZoneOf,      \* rebuilder -> its time zone
          Limit,       \* neurons on a page (500 in the code)
          None, Lost,  \* no value; a token whose process died
          MaxTouches,  \* bound: changes that add no neuron
          MaxForgets,  \* bound: forgetUser of the project
          MaxCrashes   \* bound: rebuilders that die

Sizes == /\ N \in Nat \ {0} /\ Limit \in Nat \ {0}
         /\ IsFiniteSet(Rebuilders) /\ ZoneOf \in [Rebuilders -> Zones]

VARIABLES neurons,   \* the live neurons
          revision,  \* topology_source_revisions
          state,     \* topology_projection_state
          entries,   \* time_bucket_entries, as <<neuron, zone>>
          job,       \* topology_time_rebuild_jobs
          staged,    \* topology_time_rebuild_entries of the job
          snapshot,  \* topology_time_rebuild_active_neurons of the job
          local,     \* rebuilder -> where it is, its generation, revision, cursor and page
          listed,    \* ids a forgetUser has read
          used, touches, forgets, crashes

source == <<neurons, revision, used, touches>>
shown == <<state, entries>>
work == <<job, staged, snapshot>>
erasing == <<listed, forgets>>
vars == <<source, shown, work, erasing, local, crashes>>

Neuron == 1..N
NoState == [status |-> "none", zone |-> None, rev |-> 0]
State(s, z, r) == [status |-> s, zone |-> z, rev |-> r]
NoJob == [gen |-> 0, zone |-> None, status |-> "none", cursor |-> 0, rev |-> 0,
          token |-> None, leased |-> FALSE]
Idle == [pc |-> "idle", gen |-> 0, rev |-> 0, cursor |-> 0, page |-> {}]

Init ==
  /\ neurons = {} /\ used = {} /\ revision = 0 /\ state = NoState /\ entries = {}
  /\ job = NoJob /\ staged = {} /\ snapshot = {}
  /\ local = [p \in Rebuilders |-> Idle]
  /\ listed = {}
  /\ touches = 0 /\ forgets = 0 /\ crashes = 0

-----------------------------------------------------------------------------
\* The writers.

\* Mutant: any clean projection is extended, whatever its zone.
IncrementalAnyZone(z) ==
  IF state = NoState THEN revision = 0 ELSE state.status = "clean" /\ state.rev = revision

\* beginTimeProjectionSourceUpdate: may this write extend the projection?
Incremental(z) ==
  IF state = NoState THEN revision = 0 ELSE state = State("clean", z, revision)

\* ingest by a process of zone z: one transaction.
Ingest(z, n) ==
  /\ n \notin used
  /\ used' = used \cup {n}
  /\ neurons' = neurons \cup {n}
  /\ revision' = revision + 1
  /\ IF Incremental(z)
       THEN entries' = entries \cup {<<n, z>>} /\ state' = State("clean", z, revision')
       ELSE state' = State("dirty", z, revision') /\ UNCHANGED entries
  /\ UNCHANGED <<touches, work, erasing, local, crashes>>

\* recordTimeProjectionSourceMutation: a state that is there becomes dirty.
Dirtied == IF state = NoState THEN NoState ELSE State("dirty", state.zone, revision + 1)

\* addNeuron: a writer other than ingest.
AddNeuron(n) ==
  /\ n \notin used
  /\ used' = used \cup {n}
  /\ neurons' = neurons \cup {n}
  /\ revision' = revision + 1
  /\ state' = Dirtied
  /\ UNCHANGED <<entries, touches, work, erasing, local, crashes>>

\* updateNeuronMetadata: a title or a status changes.
UpdateMetadata ==
  /\ touches < MaxTouches
  /\ neurons # {}
  /\ touches' = touches + 1
  /\ revision' = revision + 1
  /\ state' = Dirtied
  /\ UNCHANGED <<neurons, used, entries, work, erasing, local, crashes>>

\* forgetUser reads the ids, and deletes in a transaction that begins later:
\* the neurons by id, everything else of the project by its scope.
ForgetList ==
  /\ forgets < MaxForgets /\ listed = {} /\ neurons # {}
  /\ forgets' = forgets + 1
  /\ listed' = neurons
  /\ UNCHANGED <<source, shown, work, local, crashes>>

ForgetDelete ==
  /\ listed # {}
  /\ neurons' = neurons \ listed
  /\ listed' = {}
  /\ revision' = 0 /\ state' = NoState /\ entries' = {}
  /\ job' = NoJob /\ staged' = {} /\ snapshot' = {}
  /\ UNCHANGED <<used, touches, forgets, local, crashes>>

-----------------------------------------------------------------------------
\* rebuildProjectTimeTopology, as rebuilder p runs it.

Usable(z) == IF state = NoState THEN revision = 0 ELSE state = State("clean", z, revision)

At(p, pc) == local[p].pc = pc
Go(p, pc) == local' = [local EXCEPT ![p].pc = pc]
Current(p) == revision = local[p].rev
Mine(p) == job.gen = local[p].gen
\* Mutant: publication does not ask for the job.
OwnedByAnyone(p) == TRUE
Owned(p) == Mine(p) /\ job.status = "ready" /\ job.token = p

\* The catch: a process that claimed the job fails its own, another one only a
\* job nobody has claimed; the projection's state follows in a second statement.
Fail(p, claimed) ==
  /\ IF Mine(p) /\ job.token = (IF claimed THEN p ELSE None)
       THEN job' = [job EXCEPT !.status = "failed"] /\ Go(p, "failing")
       ELSE local' = [local EXCEPT ![p] = Idle] /\ UNCHANGED job
  /\ UNCHANGED <<source, shown, staged, snapshot, erasing, crashes>>

\* Mutant: the failure is filed under a word of its own.
MarkError(p) ==
  /\ At(p, "failing")
  /\ state' = State("error", ZoneOf[p], revision)
  /\ local' = [local EXCEPT ![p] = Idle]
  /\ UNCHANGED <<source, entries, work, erasing, crashes>>

MarkFailed(p) ==
  /\ At(p, "failing")
  /\ state' = State("failed", ZoneOf[p], revision)
  /\ local' = [local EXCEPT ![p] = Idle]
  /\ UNCHANGED <<source, entries, work, erasing, crashes>>

Resumable(p) ==
  job.status \in {"building", "ready"} /\ job.zone = ZoneOf[p] /\ job.rev = revision

\* The job is read; one that can be resumed is taken up where it stands.
Look(p) ==
  /\ At(p, "idle")
  /\ local' = [local EXCEPT ![p] =
       IF Resumable(p)
         THEN [Idle EXCEPT !.pc = IF job.status = "ready" THEN "claim" ELSE "stage",
                           !.gen = job.gen, !.rev = job.rev, !.cursor = job.cursor]
         ELSE [Idle EXCEPT !.pc = "create", !.rev = revision]]
  /\ UNCHANGED <<source, shown, work, erasing, crashes>>

\* A random id: one that neither the job nor a process refers to.
NewGeneration ==
  CHOOSE g \in 1..Cardinality(Rebuilders) + 2 : g # job.gen /\ \A p \in Rebuilders : g # local[p].gen

\* A new generation replaces the job; what the old one staged goes with it.
Create(p) ==
  /\ At(p, "create")
  /\ job' = [NoJob EXCEPT !.gen = NewGeneration, !.zone = ZoneOf[p], !.status = "building", !.rev = local[p].rev]
  /\ staged' = {} /\ snapshot' = {}
  /\ state' = State("building", ZoneOf[p], local[p].rev)
  /\ local' = [local EXCEPT ![p] = [@ EXCEPT !.pc = "stage", !.gen = job'.gen]]
  /\ UNCHANGED <<source, entries, erasing, crashes>>

\* listTimeProjectionNeurons: the first Limit neurons after the cursor.
PageAfter(c) ==
  {n \in neurons : n > c /\ Cardinality({k \in neurons : c < k /\ k <= n}) <= Limit}

\* assertCurrentSource, then the next page is read; after the last one, on to the next loop.
Read(p, pc, write, done) ==
  /\ At(p, pc)
  /\ Current(p)
  /\ LET page == PageAfter(local[p].cursor) IN
       local' = [local EXCEPT ![p] =
         [@ EXCEPT !.page = page, !.pc = IF page = {} THEN done ELSE write,
                   !.cursor = IF page = {} THEN 0 ELSE Max(page)]]
  /\ UNCHANGED <<source, shown, work, erasing, crashes>>

ReadForStage(p) == Read(p, "stage", "staging", "clear")
ReadForSnapshot(p) == Read(p, "copy", "copying", "mark")

\* The page's entries and the cursor, in one transaction; without its job the
\* generation violates the foreign key.
Stage(p) ==
  /\ At(p, "staging") /\ Mine(p)
  /\ staged' = staged \cup local[p].page
  /\ job' = IF job.status = "building" THEN [job EXCEPT !.cursor = local[p].cursor] ELSE job
  /\ Go(p, "stage")
  /\ UNCHANGED <<source, shown, snapshot, erasing, crashes>>

\* The snapshot of the live neurons begins empty.
ClearSnapshot(p) ==
  /\ At(p, "clear") /\ Current(p)
  /\ snapshot' = IF Mine(p) THEN {} ELSE snapshot
  /\ Go(p, "copy")
  /\ UNCHANGED <<source, shown, job, staged, erasing, crashes>>

\* A plain INSERT: a row that is there already violates the primary key.
CanCopy(p) == Mine(p) /\ local[p].page \cap snapshot = {}
Copy(p) ==
  /\ At(p, "copying") /\ CanCopy(p)
  /\ snapshot' = snapshot \cup local[p].page
  /\ Go(p, "copy")
  /\ UNCHANGED <<source, shown, job, staged, erasing, crashes>>

\* The graph is staged, and the job becomes ready, if it still is one to build.
MarkReady(p) ==
  /\ At(p, "mark") /\ Current(p)
  /\ job' = IF Mine(p) /\ job.status = "building" THEN [job EXCEPT !.status = "ready"] ELSE job
  /\ Go(p, "claim")
  /\ UNCHANGED <<source, shown, staged, snapshot, erasing, crashes>>

\* Mutant: the lease of a claim never runs out.
ClaimableOnce(p) == Mine(p) /\ job.status = "ready" /\ job.token = None
Claimable(p) == Mine(p) /\ job.status = "ready" /\ (job.token = None \/ ~job.leased)
Claim(p) ==
  /\ At(p, "claim") /\ Current(p) /\ Claimable(p)
  /\ job' = [job EXCEPT !.token = p, !.leased = TRUE]
  /\ Go(p, "claimed")
  /\ UNCHANGED <<source, shown, staged, snapshot, erasing, crashes>>

\* assertCurrentSource once more, outside the transaction that publishes.
Check(p) ==
  /\ At(p, "claimed") /\ Current(p)
  /\ Go(p, "publish")
  /\ UNCHANGED <<source, shown, work, erasing, crashes>>

\* publishTimeProjectionAtomically: the lease is renewed by its token, and the
\* staged entries of the neurons in the snapshot replace the project's.
Publish(p) ==
  /\ At(p, "publish") /\ Owned(p)
  /\ entries' = (staged \cap snapshot) \X {job.zone}
  /\ job' = [job EXCEPT !.leased = TRUE]
  /\ Go(p, "finish")
  /\ UNCHANGED <<source, state, staged, snapshot, erasing, crashes>>

\* The state becomes clean and the job goes, with what it staged.
Finish(p) ==
  /\ At(p, "finish") /\ Current(p) /\ Owned(p)
  /\ state' = State("clean", ZoneOf[p], local[p].rev)
  /\ job' = NoJob /\ staged' = {} /\ snapshot' = {}
  /\ local' = [local EXCEPT ![p] = Idle]
  /\ UNCHANGED <<source, entries, erasing, crashes>>

\* What throws: an assertion of the source, a foreign or primary key, a lost claim.
Throws(p) ==
  \/ local[p].pc \in {"stage", "clear", "copy", "mark", "claim"} /\ ~Current(p) /\ Fail(p, FALSE)
  \/ At(p, "staging") /\ ~Mine(p) /\ Fail(p, FALSE)
  \/ At(p, "copying") /\ ~CanCopy(p) /\ Fail(p, FALSE)
  \/ At(p, "claim") /\ ~Claimable(p) /\ Fail(p, FALSE)
  \/ At(p, "claimed") /\ ~Current(p) /\ Fail(p, TRUE)
  \/ At(p, "publish") /\ ~Owned(p) /\ Fail(p, TRUE)
  \/ At(p, "finish") /\ ~(Current(p) /\ Owned(p)) /\ Fail(p, TRUE)

Rebuild(p) ==
  \/ Look(p) \/ Create(p)
  \/ ReadForStage(p) \/ Stage(p)
  \/ ClearSnapshot(p) \/ ReadForSnapshot(p) \/ Copy(p) \/ MarkReady(p)
  \/ Claim(p) \/ Check(p) \/ Publish(p) \/ Finish(p)
  \/ Throws(p) \/ MarkFailed(p)

Crash(p) ==
  /\ crashes < MaxCrashes /\ ~At(p, "idle")
  /\ crashes' = crashes + 1
  /\ local' = [local EXCEPT ![p] = Idle]
  /\ job' = IF job.token = p THEN [job EXCEPT !.token = Lost] ELSE job
  /\ UNCHANGED <<source, shown, staged, snapshot, erasing>>

\* Thirty seconds pass.
LeaseExpires ==
  /\ job.leased
  /\ job' = [job EXCEPT !.leased = FALSE]
  /\ UNCHANGED <<source, shown, staged, snapshot, erasing, local, crashes>>

Next ==
  \/ \E n \in Neuron : AddNeuron(n) \/ \E z \in Zones : Ingest(z, n)
  \/ UpdateMetadata
  \/ ForgetList \/ ForgetDelete
  \/ LeaseExpires
  \/ \E p \in Rebuilders : Rebuild(p) \/ Crash(p)

Spec == Init /\ [][Next]_vars

\* One operator rebuilds, and no user is forgotten.
Alone(p) == Next /\ UNCHANGED forgets /\ \A q \in Rebuilders \ {p} : UNCHANGED local[q]
AloneSpec(p) == Init /\ [][Alone(p)]_vars

\* The operator runs the command again until the projection is usable, the
\* command runs to its end, and leases run out.
Wanted(p) == ~(At(p, "idle") /\ Usable(ZoneOf[p]))
LiveSpec ==
  Spec /\ WF_vars(LeaseExpires) /\ \A p \in Rebuilders : WF_vars(Wanted(p) /\ Rebuild(p))

-----------------------------------------------------------------------------
\* Every variable keeps its type.
TypeOK ==
  /\ neurons \subseteq used /\ used \subseteq Neuron
  /\ revision \in Nat
  /\ state \in [status : {"none", "dirty", "building", "clean", "failed"},
                zone : Zones \cup {None}, rev : Nat]
  /\ entries \subseteq used \X Zones
  /\ job \in [gen : 0..Cardinality(Rebuilders) + 2, zone : Zones \cup {None}, status : {"none", "building", "ready", "failed"},
              cursor : 0..N, rev : Nat, token : Rebuilders \cup {None, Lost}, leased : BOOLEAN]
  /\ staged \subseteq used /\ snapshot \subseteq used
  /\ listed \subseteq used

\* CODING_STANDARDS: "clean only when the whole projection is current".  When a
\* process may use the projection, it holds every neuron, in the process's zone,
\* and nothing else, whatever writes and crashes fell into the rebuild.
UsableIsCurrent == \A z \in Zones : Usable(z) => entries = neurons \X {z}

\* A projection that can be used shows one zone, and no entry of it goes while
\* it can be used: a publisher that lost its lease does not replace it.
UsableIsStable ==
  [][\A z \in Zones : Usable(z) /\ Usable(z)' /\ listed = listed' => entries \subseteq entries']_vars

\* A rebuild that is run until it succeeds brings the projection back, however
\* often writes, a crash or another rebuild take it away.
Rebuilt == \A p \in Rebuilders : []<>Usable(ZoneOf[p])

\* MEMORY_MODEL: forgetUser "erases every project-owned projection [...], not
\* only Raw Ledger/vector state": its transaction leaves no neuron.
ErasedWhole == [][listed # {} /\ listed' = {} => neurons' = {}]_vars
=============================================================================
