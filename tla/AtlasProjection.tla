-------------------------- MODULE AtlasProjection --------------------------
(***************************************************************************)
(* The Memory Atlas: documents projected, per project, from the source     *)
(* tables, and the flag that says whether a refresh is owed.  Triggers on  *)
(* the watched tables set the flag in the transaction of the write; a      *)
(* rebuild clears it in the transaction that projects.  backfill also      *)
(* reads tables that no trigger watches (entity_aliases and                *)
(* entity_relations).                                                      *)
(*                                                                         *)
(* Other processes write at any point.  A row stands for its present       *)
(* version; frames, actions and facets, which are computed from the same   *)
(* rows in the same transaction, are not told apart from them.             *)
(***************************************************************************)
EXTENDS Naturals

CONSTANTS Projects,    \* project ids the host uses
          All,         \* '__all__', what a failed rebuild of everything is filed under
          Watched,     \* source tables with a trigger
          Unwatched,   \* source tables without one
          Rows,        \* rows a table may hold
          MaxWrites,   \* bound: writes to the source tables
          MaxFaults    \* bound: rebuilds and projections that fail

ASSUME Bounds == MaxWrites \in Nat /\ MaxFaults \in Nat
ASSUME Apart == All \notin Projects /\ Watched \cap Unwatched = {}

VARIABLES source,   \* project -> the rows of its source tables
          docs,     \* memory_atlas_documents
          index,    \* memory_atlas_fts
          status,   \* memory_atlas_projection_state
          owed,     \* projects the running maintenance tick has still to look at
          writes, faults

vars == <<source, docs, index, status, owed, writes, faults>>

Row == (Watched \cup Unwatched) \X Rows
Known(d) == {p \in Projects : status[p] # "none" \/ d[p] # {}} \cup {p \in {All} : status[p] # "none"}

Init ==
  /\ source = [p \in Projects |-> {}]
  /\ docs = [p \in Projects |-> {}]
  /\ index = [p \in Projects |-> {}]
  /\ status = [p \in Projects \cup {All} |-> "none"]
  /\ owed = {}
  /\ writes = 0 /\ faults = 0

\* A row is inserted, changed or deleted; the trigger marks its project.
MarkDirty(p, r) == IF r[1] \in Watched THEN [status EXCEPT ![p] = "dirty"] ELSE status

Write(p, r) ==
  /\ writes < MaxWrites
  /\ writes' = writes + 1
  /\ source' = [source EXCEPT ![p] = IF r \in @ THEN @ \ {r} ELSE @ \cup {r}]
  /\ status' = MarkDirty(p, r)
  /\ UNCHANGED <<docs, index, owed, faults>>

Fault == faults < MaxFaults /\ faults' = faults + 1

\* Documents of the watched tables are deleted and written anew; those of the
\* others (node types 'alias' and 'relation') are only inserted or replaced.
Backfilled(p) == {d \in docs[p] : d[1] \in Unwatched} \cup source[p]
Projected(ps) == [p \in Projects |-> IF p \in ps THEN Backfilled(p) ELSE docs[p]]

\* backfill empties the whole index, and the projects rebuilt are indexed anew.
Reindexed(ps, d) == [p \in Projects |-> IF p \in ps THEN d[p] ELSE {}]

\* Mutant: a rebuild of one project clears the flag of all.
MarkCleanAll(ps) == [p \in DOMAIN status |-> IF status[p] # "none" THEN "clean" ELSE "none"]
MarkClean(ps) == [p \in DOMAIN status |-> IF p \in ps THEN "clean" ELSE status[p]]

\* rebuild of one project: one transaction.
Rebuild(p) ==
  /\ docs' = Projected({p})
  /\ index' = Reindexed({p}, docs')
  /\ status' = MarkClean({p})
  /\ UNCHANGED <<source, writes, faults>>

\* rebuild of everything: the projects are the known ones after the backfill.
RebuildAll ==
  /\ docs' = Projected(Projects)
  /\ index' = Reindexed(Projects, docs')
  /\ status' = MarkClean(Known(docs'))
  /\ UNCHANGED <<source, owed, writes, faults>>

\* Mutant: the failure is filed under a word of its own.
FailedWord(p) == [status EXCEPT ![p] = "failed"]
MarkFailed(p) == [status EXCEPT ![p] = "error"]

RebuildFails(p) ==
  /\ Fault
  /\ status' = MarkFailed(p)
  /\ UNCHANGED <<source, docs, index, writes>>

\* projectEpisodes, as reindex calls it: the rows addressed, and no flag, unless it fails.
ProjectEpisodes(p, r) ==
  /\ r[1] \in Watched
  /\ docs' = [docs EXCEPT ![p] = (@ \ {r}) \cup ({r} \cap source[p])]
  /\ index' = [index EXCEPT ![p] = (@ \ {r}) \cup ({r} \cap source[p])]
  /\ UNCHANGED <<source, status, owed, writes, faults>>

ProjectEpisodesFails(p) ==
  /\ Fault
  /\ status' = [status EXCEPT ![p] = "dirty"]
  /\ UNCHANGED <<source, docs, index, owed, writes>>

\* Mutant: only a dirty project is refreshed.
NeedsRefreshDirty(p) == status[p] = "dirty"
ProjectionNeedsRefresh(p) == status[p] # "clean"

\* runMaintenanceTick without a project: ensureAllFresh takes the known
\* projects one by one, each in its own transaction; one that fails is
\* reported, and the others go on.
Tick ==
  /\ owed = {}
  /\ \E p \in Known(docs) : ProjectionNeedsRefresh(p)
  /\ owed' = Known(docs)
  /\ UNCHANGED <<source, docs, index, status, writes, faults>>

EnsureFresh(p) ==
  /\ owed' = owed \ {p}
  /\ \/ ~ProjectionNeedsRefresh(p) /\ UNCHANGED <<source, docs, index, status, writes, faults>>
     \/ ProjectionNeedsRefresh(p) /\ (Rebuild(p) \/ RebuildFails(p))

Maintenance == Tick \/ \E p \in owed : EnsureFresh(p)

Next ==
  \/ Maintenance
  \/ RebuildAll
  \/ RebuildFails(All) /\ UNCHANGED owed
  \/ \E p \in Projects :
       \/ Rebuild(p) /\ UNCHANGED owed
       \/ RebuildFails(p) /\ UNCHANGED owed
       \/ ProjectEpisodesFails(p)
       \/ \E r \in Row : Write(p, r) \/ ProjectEpisodes(p, r)

Spec == Init /\ [][Next]_vars

\* The host runs the maintenance tick again and again, and a tick ends.
LiveSpec == Spec /\ WF_vars(Maintenance)

-----------------------------------------------------------------------------
\* Every variable keeps its type.
TypeOK ==
  /\ source \in [Projects -> SUBSET Row]
  /\ docs \in [Projects -> SUBSET Row]
  /\ index \in [Projects -> SUBSET Row]
  /\ status \in [Projects \cup {All} -> {"none", "clean", "dirty", "error"}]
  /\ owed \subseteq Projects \cup {All}
  /\ writes \in 0..MaxWrites /\ faults \in 0..MaxFaults

WatchedIn(rows) == {r \in rows : r[1] \in Watched}

\* A project whose flag is clean shows what its watched tables hold, whoever
\* wrote, failed or rebuilt in between.
CleanIsWatched ==
  \A p \in Projects : status[p] = "clean" => WatchedIn(docs[p]) = WatchedIn(source[p])

\* Once the writes and the faults are over, every known project becomes clean
\* and stays so.
Refreshed == <>[](\A p \in Projects \cup {All} : status[p] \in {"none", "clean"})

\* CODING_STANDARDS: "clean only when the whole projection is current".
CleanIsCurrent == \A p \in Projects : status[p] = "clean" => docs[p] = source[p]

\* The same, of the search index: a clean project's documents can be searched.
CleanIsIndexed == \A p \in Projects : status[p] = "clean" => docs[p] \subseteq index[p]
=============================================================================
