---------------------------- MODULE EntityMerge ----------------------------
(***************************************************************************)
(* Merging of entity instances within one project, and its undoing:        *)
(* EntityGovernanceService proposes, applies and reverts merge candidates, *)
(* EntityStore keeps the instances, their aliases and the alias conflicts, *)
(* while promotion and offline consolidation write to the same instances.  *)
(*                                                                         *)
(* Every operation is one synchronous call on one connection.  All         *)
(* instances have one type and are exclusive to the project, and evidence  *)
(* that fails its second check only makes a call throw before it has       *)
(* written, which is a stuttering step.                                    *)
(* An instance's canonical name is the instance itself.                    *)
(***************************************************************************)
EXTENDS Naturals, FiniteSets

CONSTANTS Entities,       \* entity_instances of the project
          Nicknames,      \* aliases that are nobody's canonical name
          Known,          \* instance -> the nicknames it was created with
          MaxCandidates   \* bound: merge candidates ever proposed

ASSUME KnownAssumption == Known \in [Entities -> SUBSET Nicknames]

VARIABLES ent,        \* entity_instances: canonical id, status, aliases_json
          aliases,    \* entity_aliases: <<instance, alias>>
          conflicts,  \* entity_alias_conflicts: alias -> row's status
          cands,      \* entity_merge_candidates: merge -> status
          log         \* entity_resolution_log

vars == <<ent, aliases, conflicts, cands, log>>

Aliases == Entities \cup Nicknames
Merges == [source : Entities, target : Entities, alias : Aliases]
Verdicts == {"approved", "pending", "rejected"}
Entry == [merge : Merges, action : {"merge", "revert"},
          previous : Entities, status : {"active", "archived"}]

Init ==
  /\ ent = [e \in Entities |-> [canonical |-> e, status |-> "active", names |-> Known[e]]]
  /\ aliases = {h \in Entities \X Aliases : h[2] = h[1] \/ h[2] \in Known[h[1]]}
  /\ conflicts = [a \in Aliases |->
       IF Cardinality({e \in Entities : <<e, a>> \in aliases}) > 1 THEN "active" ELSE "none"]
  /\ cands = [m \in Merges |-> "none"]
  /\ log = {}

Entries(m, action) == {l \in log : l.merge = m /\ l.action = action}

\* refreshAliasConflict, for the aliases As: compares the active holders only.
Refreshed(As, e, al) ==
  [a \in Aliases |->
     IF a \notin As THEN conflicts[a]
     ELSE IF Cardinality({x \in Entities : <<x, a>> \in al /\ e[x].status = "active"}) > 1
       THEN "active"
     ELSE IF conflicts[a] = "none" THEN "none" ELSE "resolved"]

-----------------------------------------------------------------------------
\* The candidate's id is a hash of the merge, so a second proposal rewrites
\* the row, whatever has become of it.  The verdict comes of confidence and
\* evidence.
Recorded(m, verdict) == [cands EXCEPT ![m] = verdict]

Propose(m, verdict) ==
  /\ cands[m] = "none" =>
       Cardinality({x \in Merges : cands[x] # "none"}) < MaxCandidates
  /\ m.source = m.target => verdict = "rejected"
  /\ cands' = Recorded(m, verdict)
  /\ UNCHANGED <<ent, aliases, conflicts, log>>

Row(m, previous) == [merge |-> m, action |-> "merge", previous |-> previous,
                     status |-> ent[m.source].status]

\* Mutant: the audit row is keyed by its time.
LoggedByTime(m) == log' = log \cup {Row(m, ent[m.source].canonical)}

\* Mutant: insert or ignore.
LoggedOrLeft(m) ==
  log' = IF Entries(m, "merge") # {} THEN log ELSE log \cup {Row(m, ent[m.source].canonical)}

\* Mutant: a merge that moves nothing is not logged.
LoggedIfMoved(m) ==
  /\ Entries(m, "merge") = {}
  /\ log' = IF ent[m.source].canonical = ent[m.target].canonical THEN log
            ELSE log \cup {Row(m, ent[m.source].canonical)}

\* Mutant: the source is read after it was redirected.
LoggedAfter(m) ==
  /\ Entries(m, "merge") = {}
  /\ log' = log \cup {Row(m, ent[m.target].canonical)}

\* The audit row's id is elog:<candidate>:merge: a second one fails the
\* primary key and takes the transaction with it.
Logged(m) ==
  /\ Entries(m, "merge") = {}
  /\ log' = log \cup {Row(m, ent[m.source].canonical)}

\* The alias is added, and its conflict judged, before the source is archived.
Apply(m) ==
  /\ cands[m] = "approved"
  /\ aliases' = aliases \cup {<<m.target, m.alias>>}
  /\ conflicts' = Refreshed({m.alias}, ent, aliases')
  /\ ent' = [ent EXCEPT ![m.source].canonical = ent[m.target].canonical,
                        ![m.source].status = "archived"]
  /\ Logged(m)
  /\ cands' = [cands EXCEPT ![m] = "applied"]

\* removeAlias: the target's own name stays.
Without(m) == IF m.alias = m.target THEN aliases ELSE aliases \ {<<m.target, m.alias>>}

Restored(m, entry) ==
  [ent EXCEPT ![m.source].canonical = entry.previous, ![m.source].status = entry.status]

Revert(m) ==
  /\ cands[m] = "applied"
  /\ \E entry \in Entries(m, "merge") :
       /\ ent' = Restored(m, entry)
       /\ log' = log \cup {[entry EXCEPT !.action = "revert"]}
  /\ aliases' = Without(m)
  /\ conflicts' = IF m.alias = m.target THEN conflicts
                  ELSE Refreshed({m.alias}, ent', aliases')
  /\ cands' = [cands EXCEPT ![m] = "reverted"]

\* upsertEntity of a name the project has: findExistingInstance takes the
\* instance whatever its status, and only a promotion passes one ("active")
\* and the name itself among the aliases.
UpsertEntity(e, new, promoted) ==
  LET names == ent[e].names \cup new IN
  /\ ent' = [ent EXCEPT ![e].names = names,
                        ![e].status = IF promoted THEN "active" ELSE @]
  /\ aliases' = aliases \cup ({e} \X names)
  /\ conflicts' = Refreshed(IF promoted THEN names \cup {e} ELSE names, ent', aliases')
  /\ UNCHANGED <<cands, log>>

\* archiveEntity, by offline consolidation.
ArchiveEntity(e) ==
  /\ ent' = [ent EXCEPT ![e].status = "archived"]
  /\ UNCHANGED <<aliases, conflicts, cands, log>>

Govern == \E m \in Merges : Apply(m) \/ Revert(m) \/ \E v \in Verdicts : Propose(m, v)

Next ==
  \/ Govern
  \/ \E e \in Entities :
       \/ ArchiveEntity(e)
       \/ \E new \in SUBSET Nicknames, promoted \in BOOLEAN : UpsertEntity(e, new, promoted)

Spec == Init /\ [][Next]_vars

-----------------------------------------------------------------------------
\* Every variable keeps its type, and the audit rows their primary key.
TypeOK ==
  /\ ent \in [Entities -> [canonical : Entities, status : {"active", "archived"},
                           names : SUBSET Nicknames]]
  /\ aliases \subseteq Entities \X Aliases
  /\ conflicts \in [Aliases -> {"none", "active", "resolved"}]
  /\ cands \in [Merges -> Verdicts \cup {"none", "applied", "reverted"}]
  /\ log \subseteq Entry
  /\ \A l, k \in log : l.merge = k.merge /\ l.action = k.action => l = k

\* Where an instance stood before its first merge is never lost: as long as it
\* is redirected, some audit row of a merge of it holds its own canonical id.
OriginIsLogged ==
  \A e \in Entities : ent[e].canonical # e =>
    \E l \in log : l.action = "merge" /\ l.merge.source = e /\ l.previous = e

\* A merge that is applied can still be undone once: it has exactly one merge
\* row to be undone from and no revert row.
AppliedIsUndoable ==
  \A m \in Merges : cands[m] = "applied" =>
    Cardinality(Entries(m, "merge")) = 1 /\ Entries(m, "revert") = {}

\* A merge the project has undone never comes back, however often it is
\* proposed and approved again.
RevertIsFinal ==
  [][\A m \in Merges : Entries(m, "revert") # {} => Entries(m, "merge")' = Entries(m, "merge")
        /\ (cands[m] # "applied" => cands'[m] # "applied")]_vars

\* CHANGELOG: merges are reversible.  A merge that was applied and not undone
\* is still one that revert accepts.
MergeIsReversible ==
  \A m \in Merges : Entries(m, "merge") # {} /\ Entries(m, "revert") = {} => cands[m] = "applied"

\* CHANGELOG: merges are reversible.  Undoing one takes from the target no
\* alias it had of its own.
OwnAliasesKept == \A e \in Entities : \A a \in ent[e].names : <<e, a>> \in aliases

\* Maintenance reports the active conflicts as ones that need review: an alias
\* in conflict is one that two active instances hold.
ConflictIsShared ==
  \A a \in Aliases : conflicts[a] = "active" =>
    Cardinality({e \in Entities : <<e, a>> \in aliases /\ ent[e].status = "active"}) > 1
=============================================================================
