-------------------------- MODULE GovernanceProofs --------------------------
(***************************************************************************)
(* What is decided stays decided and can be traced, for any number of      *)
(* entity instances, aliases and candidates, of episodes, values and       *)
(* belief rows, and of turns, curator runs and erasures.                   *)
(*                                                                         *)
(*  - Merges: the audit log only grows, holds one row per merge and        *)
(*    action, and the first merge of an instance is recorded while the     *)
(*    instance is still its own.                                           *)
(*  - Beliefs: a superseded row names a row that is not itself and whose   *)
(*    word is later; a candidate has a belief exactly while it is promoted.*)
(*  - Erasure: as long as the episode a tick or a row works for is sealed, *)
(*    what it has read of it is in the ledger; a batch of the curator has  *)
(*    no gap below it that is not consolidated.                            *)
(***************************************************************************)
EXTENDS MCGovernance, TLAPS, FiniteSetTheorems, WellFoundedInduction

EntType == [canonical : Entities, status : {"active", "archived"}, names : SUBSET Nicknames]

Types == /\ ent \in [Entities -> EntType]
         /\ aliases \subseteq Entities \X Aliases
         /\ conflicts \in [Aliases -> {"none", "active", "resolved"}]
         /\ cands \in [Merges -> Verdicts \cup {"none", "applied", "reverted"}]

\* One row per merge and action; a merge is undone after it was applied.
LogInv ==
  /\ log \subseteq Entry
  /\ \A l, k \in log : l.merge = k.merge /\ l.action = k.action => l = k
  /\ \A m \in Merges : cands[m] = "applied" => Entries(m, "merge") # {} /\ Entries(m, "revert") = {}
  /\ \A m \in Merges : Entries(m, "revert") # {} => Entries(m, "merge") # {}

\* The audit row of the first merge of e.
Origin(e) == \E l \in log : l.action = "merge" /\ l.merge.source = e /\ l.previous = e

OriginInv ==
  /\ \A e \in Entities : ent[e].canonical # e => Origin(e)
  /\ \A l \in log : l.previous # l.merge.source => Origin(l.merge.source)

Inv == Types /\ LogInv /\ OriginInv

-----------------------------------------------------------------------------
LEMMA RefreshedType ==
  ASSUME Types, NEW As, NEW e, NEW al
  PROVE  Refreshed(As, e, al) \in [Aliases -> {"none", "active", "resolved"}]
<1> DEFINE New(a) ==
      IF a \notin As THEN conflicts[a]
      ELSE IF Cardinality({x \in Entities : <<x, a>> \in al /\ e[x].status = "active"}) > 1
        THEN "active"
      ELSE IF conflicts[a] = "none" THEN "none" ELSE "resolved"
<1>1. \A a \in Aliases : New(a) \in {"none", "active", "resolved"}
  BY DEF Types
<1>2. Refreshed(As, e, al) = [a \in Aliases |-> New(a)]
  BY DEF Refreshed
<1> HIDE DEF New
<1>3. QED
  BY <1>1, <1>2

\* Rewriting the place and the status of an instance.
LEMMA Replacing ==
  ASSUME Types, NEW e \in Entities, NEW new \in EntType, ent' = [ent EXCEPT ![e] = new]
  PROVE  /\ ent' \in [Entities -> EntType] /\ ent'[e].canonical = new.canonical
         /\ \A x \in Entities \ {e} : ent'[x] = ent[x]
  BY DEF Types

Put(e, c, s) == [ent EXCEPT ![e].canonical = c, ![e].status = s]

LEMMA Placed ==
  ASSUME Types, NEW e \in Entities, NEW c \in Entities, NEW s \in {"active", "archived"},
         ent' = Put(e, c, s)
  PROVE  \E new \in EntType : new.canonical = c /\ ent' = [ent EXCEPT ![e] = new]
<1> DEFINE new == [ent[e] EXCEPT !.canonical = c, !.status = s]
<1>1. ent[e] \in EntType
  BY DEF Types
<1>2. new \in EntType /\ new.canonical = c
  BY <1>1 DEF EntType
<1>3. ent' = [ent EXCEPT ![e] = new]
  BY <1>1 DEF EntType, Types, Put
<1> HIDE DEF new
<1>4. QED
  BY <1>2, <1>3, Zenon

LEMMA Upserted ==
  ASSUME Types, NEW e \in Entities, NEW more \in SUBSET Nicknames, NEW promoted \in BOOLEAN,
         UpsertEntity(e, more, promoted)
  PROVE  \E new \in EntType : new.canonical = ent[e].canonical /\ ent' = [ent EXCEPT ![e] = new]
<1> DEFINE names == ent[e].names \cup more
           status == IF promoted THEN "active" ELSE ent[e].status
           new == [ent[e] EXCEPT !.names = names, !.status = status]
<1>1. ent[e] \in EntType
  BY DEF Types
<1>2. names \in SUBSET Nicknames /\ status \in {"active", "archived"}
  BY <1>1 DEF EntType
<1>3. ent' = [ent EXCEPT ![e].names = names, ![e].status = status]
  BY <1>1 DEF UpsertEntity, EntType, Types
<1> HIDE DEF names, status
<1>4. new \in EntType /\ new.canonical = ent[e].canonical
  BY <1>1, <1>2 DEF EntType
<1>5. ent' = [ent EXCEPT ![e] = new]
  BY <1>1, <1>3 DEF EntType, Types
<1> HIDE DEF new
<1>6. QED
  BY <1>4, <1>5, Zenon

LEMMA MergeInit == Init => Inv
<1> SUFFICES ASSUME Init PROVE Inv
  OBVIOUS
<1>1. \A e \in Entities : Known[e] \in SUBSET Nicknames
  BY KnownAssumption
<1>2. ent \in [Entities -> EntType] /\ \A e \in Entities : ent[e].canonical = e
  BY <1>1 DEF Init, EntType
<1>3. aliases \subseteq Entities \X Aliases
  BY DEF Init
<1>4. conflicts \in [Aliases -> {"none", "active", "resolved"}]
  BY DEF Init
<1>5. cands = [m \in Merges |-> "none"] /\ log = {}
  BY DEF Init
<1>6. QED
  BY <1>2, <1>3, <1>4, <1>5 DEF Inv, Types, LogInv, OriginInv, Entries

\* A new verdict leaves the log and the instances alone.
LEMMA ProposeStep ==
  ASSUME Inv, NEW m \in Merges, NEW v \in Verdicts, Propose(m, v)
  PROVE  Inv'
<1>1. cands' = [cands EXCEPT ![m] = v] /\ UNCHANGED <<ent, aliases, conflicts, log>>
  BY DEF Propose, Recorded
<1>2. Types'
  BY <1>1 DEF Inv, Types
<1>3. \A n \in Merges : cands'[n] = "applied" => cands[n] = "applied"
  BY <1>1 DEF Inv, Types, Verdicts
<1>4. LogInv'
  BY <1>1, <1>3 DEF Inv, LogInv, Entries
<1>5. OriginInv'
  BY <1>1 DEF Inv, OriginInv, Origin
<1>6. QED
  BY <1>2, <1>4, <1>5 DEF Inv

\* A row added to the log.
LEMMA Logging ==
  ASSUME LogInv, NEW l \in Entry, log' = log \cup {l}, Entries(l.merge, l.action) = {},
         l.action = "revert" => Entries(l.merge, "merge") # {}
  PROVE  /\ log' \subseteq Entry
         /\ \A j, k \in log' : j.merge = k.merge /\ j.action = k.action => j = k
         /\ \A m \in Merges : Entries(m, "revert")' # {} => Entries(m, "merge")' # {}
         /\ \A m \in Merges \ {l.merge} : \A a \in {"merge", "revert"} : Entries(m, a)' = Entries(m, a)
         /\ l \in Entries(l.merge, l.action)'
         /\ \A a \in {"merge", "revert"} \ {l.action} : Entries(l.merge, a)' = Entries(l.merge, a)
<1>1. log' \subseteq Entry
  BY DEF LogInv
<1>2. \A j, k \in log' : j.merge = k.merge /\ j.action = k.action => j = k
  BY DEF LogInv, Entries
<1>3. \A m \in Merges \ {l.merge} : \A a \in {"merge", "revert"} : Entries(m, a)' = Entries(m, a)
  BY DEF Entries
<1>4. l \in Entries(l.merge, l.action)'
  BY DEF Entries
<1>5. \A a \in {"merge", "revert"} \ {l.action} : Entries(l.merge, a)' = Entries(l.merge, a)
  BY DEF Entries
<1>6. l.action \in {"merge", "revert"} /\ l.merge \in Merges
  BY DEF Entry
<1>7. \A m \in Merges : Entries(m, "revert")' # {} => Entries(m, "merge")' # {}
  BY <1>3, <1>4, <1>5, <1>6 DEF LogInv
<1>8. QED
  BY <1>1, <1>2, <1>3, <1>4, <1>5, <1>7

\* The first merge of an instance is logged while it is still its own; a later one
\* finds that row.
LEMMA ApplyStep ==
  ASSUME Inv, NEW m \in Merges, Apply(m)
  PROVE  Inv'
<1> DEFINE l == Row(m, ent[m.source].canonical)
           c == ent[m.target].canonical
<1>1. m.source \in Entities /\ m.target \in Entities /\ m.alias \in Aliases
  BY DEF Merges
<1>2. ent[m.source] \in EntType /\ ent[m.target] \in EntType /\ Types /\ LogInv /\ OriginInv
  BY <1>1 DEF Inv, Types
<1>3. /\ l \in Entry /\ l.merge = m /\ l.action = "merge" /\ l.previous = ent[m.source].canonical
      /\ c \in Entities
  BY <1>1, <1>2 DEF Row, Entry, EntType
<1>4. /\ log' = log \cup {l} /\ Entries(m, "merge") = {} /\ cands[m] = "approved"
      /\ cands' = [cands EXCEPT ![m] = "applied"]
      /\ ent' = [ent EXCEPT ![m.source].canonical = c, ![m.source].status = "archived"]
      /\ aliases' = aliases \cup {<<m.target, m.alias>>}
      /\ conflicts' = Refreshed({m.alias}, ent, aliases')
  BY DEF Apply, Logged
<1> HIDE DEF l, c
<1>5. /\ ent' \in [Entities -> EntType] /\ ent'[m.source].canonical = c
      /\ \A x \in Entities \ {m.source} : ent'[x] = ent[x]
  <2>0. ent' = Put(m.source, c, "archived")
    BY <1>4 DEF Put
  <2>1. PICK new \in EntType : new.canonical = c /\ ent' = [ent EXCEPT ![m.source] = new]
    BY <1>1, <1>2, <1>3, <2>0, Placed
  <2>2. QED
    BY <1>1, <1>2, <2>1, Replacing
<1>6. Types'
  <2>1. conflicts' \in [Aliases -> {"none", "active", "resolved"}]
    BY <1>2, <1>4, RefreshedType
  <2>2. aliases' \subseteq Entities \X Aliases
    BY <1>1, <1>2, <1>4 DEF Types
  <2>3. cands' \in [Merges -> Verdicts \cup {"none", "applied", "reverted"}]
    BY <1>2, <1>4 DEF Types
  <2>4. QED
    BY <1>5, <2>1, <2>2, <2>3 DEF Types
<1>7. LogInv'
  <2>1. /\ log' \subseteq Entry
        /\ \A j, k \in log' : j.merge = k.merge /\ j.action = k.action => j = k
        /\ \A n \in Merges : Entries(n, "revert")' # {} => Entries(n, "merge")' # {}
        /\ \A n \in Merges \ {m} : \A a \in {"merge", "revert"} : Entries(n, a)' = Entries(n, a)
        /\ Entries(m, "merge")' # {} /\ Entries(m, "revert")' = Entries(m, "revert")
    BY <1>2, <1>3, <1>4, Logging
  <2>2. Entries(m, "revert") = {}
    BY <1>2, <1>4 DEF LogInv
  <2>3. \A n \in Merges \ {m} : cands'[n] = cands[n]
    BY <1>2, <1>4 DEF Types
  <2>4. \A n \in Merges : cands'[n] = "applied" => Entries(n, "merge")' # {} /\ Entries(n, "revert")' = {}
    BY <1>2, <2>1, <2>2, <2>3 DEF LogInv
  <2>5. QED
    BY <2>1, <2>4 DEF LogInv
<1>8. OriginInv'
  <2>1. \A e \in Entities : Origin(e) => Origin(e)'
    BY <1>4 DEF Origin
  <2>2. Origin(m.source)'
    <3>1. CASE ent[m.source].canonical = m.source
      BY <1>3, <1>4, <3>1 DEF Origin
    <3>2. CASE ent[m.source].canonical # m.source
      BY <1>1, <1>2, <2>1, <3>2 DEF OriginInv
    <3>3. QED
      BY <3>1, <3>2
  <2>3. \A e \in Entities : ent'[e].canonical # e => Origin(e)'
    BY <1>1, <1>2, <1>5, <2>1, <2>2 DEF OriginInv
  <2>4. ASSUME NEW j \in log', j.previous # j.merge.source PROVE Origin(j.merge.source)'
    <3>1. CASE j = l
      BY <1>3, <2>2, <3>1
    <3>2. CASE j \in log
      <4>1. Origin(j.merge.source) /\ j.merge.source \in Entities
        BY <1>2, <2>4, <3>2 DEF OriginInv, LogInv, Entry, Merges
      <4>2. QED
        BY <2>1, <4>1
    <3>3. QED
      BY <1>4, <3>1, <3>2
  <2>5. QED
    BY <2>3, <2>4 DEF OriginInv
<1>9. QED
  BY <1>6, <1>7, <1>8 DEF Inv

\* Undoing a merge puts the instance where the merge's row says it was; if that is not
\* its own place, an earlier row is its origin.
LEMMA RevertStep ==
  ASSUME Inv, NEW m \in Merges, Revert(m)
  PROVE  Inv'
<1>1. PICK entry \in Entries(m, "merge") :
        /\ ent' = Restored(m, entry)
        /\ log' = log \cup {[entry EXCEPT !.action = "revert"]}
  BY DEF Revert
<1> DEFINE l == [entry EXCEPT !.action = "revert"]
<1>2. /\ entry \in log /\ entry \in Entry /\ entry.merge = m /\ entry.action = "merge"
      /\ Types /\ LogInv /\ OriginInv /\ cands[m] = "applied"
      /\ cands' = [cands EXCEPT ![m] = "reverted"] /\ aliases' = Without(m)
      /\ conflicts' = IF m.alias = m.target THEN conflicts ELSE Refreshed({m.alias}, ent', aliases')
  BY <1>1 DEF Entries, Inv, LogInv, Revert
<1>3. /\ entry.previous \in Entities /\ entry.status \in {"active", "archived"}
      /\ m.source \in Entities
  BY <1>2 DEF Entry, Merges
<1>4. l \in Entry /\ l.merge = m /\ l.action = "revert" /\ l.previous = entry.previous
  BY <1>2 DEF Entry
<1>5. log' = log \cup {l}
  BY <1>1
<1> HIDE DEF l
<1>6. /\ ent' \in [Entities -> EntType] /\ ent'[m.source].canonical = entry.previous
      /\ \A x \in Entities \ {m.source} : ent'[x] = ent[x]
  <2>1. ent' = Put(m.source, entry.previous, entry.status)
    BY <1>1 DEF Restored, Put
  <2>2. PICK new \in EntType : new.canonical = entry.previous /\ ent' = [ent EXCEPT ![m.source] = new]
    BY <1>2, <1>3, <2>1, Placed
  <2>3. QED
    BY <1>2, <1>3, <2>2, Replacing
<1>7. Types'
  <2>1. conflicts' \in [Aliases -> {"none", "active", "resolved"}]
    BY <1>2, RefreshedType DEF Types
  <2>2. QED
    BY <1>2, <1>6, <2>1 DEF Types, Without
<1>8. LogInv'
  <2>1. Entries(m, "revert") = {} /\ Entries(m, "merge") # {}
    BY <1>2 DEF LogInv
  <2>2. /\ log' \subseteq Entry
        /\ \A j, k \in log' : j.merge = k.merge /\ j.action = k.action => j = k
        /\ \A n \in Merges : Entries(n, "revert")' # {} => Entries(n, "merge")' # {}
        /\ \A n \in Merges \ {m} : \A a \in {"merge", "revert"} : Entries(n, a)' = Entries(n, a)
    BY <1>2, <1>4, <1>5, <2>1, Logging
  <2>3. /\ cands'[m] # "applied" /\ \A n \in Merges \ {m} : cands'[n] = cands[n]
    BY <1>2 DEF Types
  <2>4. \A n \in Merges : cands'[n] = "applied" => Entries(n, "merge")' # {} /\ Entries(n, "revert")' = {}
    BY <1>2, <2>2, <2>3 DEF LogInv
  <2>5. QED
    BY <2>2, <2>4 DEF LogInv
<1>9. OriginInv'
  <2>1. \A e \in Entities : Origin(e) => Origin(e)'
    BY <1>5 DEF Origin
  <2>2. entry.previous # m.source => Origin(m.source)
    BY <1>2 DEF OriginInv
  <2>3. \A e \in Entities : ent'[e].canonical # e => Origin(e)'
    BY <1>2, <1>3, <1>6, <2>1, <2>2 DEF OriginInv
  <2>4. ASSUME NEW j \in log', j.previous # j.merge.source PROVE Origin(j.merge.source)'
    <3>1. CASE j = l
      BY <1>3, <1>4, <2>1, <2>2, <2>4, <3>1
    <3>2. CASE j \in log
      <4>1. Origin(j.merge.source) /\ j.merge.source \in Entities
        BY <1>2, <2>4, <3>2 DEF OriginInv, LogInv, Entry, Merges
      <4>2. QED
        BY <2>1, <4>1
    <3>3. QED
      BY <1>5, <3>1, <3>2
  <2>5. QED
    BY <2>3, <2>4 DEF OriginInv
<1>10. QED
  BY <1>7, <1>8, <1>9 DEF Inv

\* Promotion and consolidation change what an instance is called and whether it is
\* active, never where it points.
LEMMA OtherStep ==
  ASSUME Inv, NEW e \in Entities,
         \/ ArchiveEntity(e)
         \/ \E new \in SUBSET Nicknames, promoted \in BOOLEAN : UpsertEntity(e, new, promoted)
  PROVE  Inv' /\ UNCHANGED <<cands, log>>
<1>1. Types /\ LogInv /\ OriginInv /\ ent[e] \in EntType
  BY DEF Inv, Types
<1>2. /\ ent' \in [Entities -> EntType] /\ \A x \in Entities : ent'[x].canonical = ent[x].canonical
      /\ aliases' \subseteq Entities \X Aliases
      /\ conflicts' \in [Aliases -> {"none", "active", "resolved"}]
      /\ UNCHANGED <<cands, log>>
  <2>1. ASSUME ArchiveEntity(e)
        PROVE  /\ ent' \in [Entities -> EntType] /\ \A x \in Entities : ent'[x].canonical = ent[x].canonical
               /\ aliases' \subseteq Entities \X Aliases
               /\ conflicts' \in [Aliases -> {"none", "active", "resolved"}]
               /\ UNCHANGED <<cands, log>>
    <3> DEFINE new == [ent[e] EXCEPT !.status = "archived"]
    <3>1. new \in EntType /\ new.canonical = ent[e].canonical
      BY <1>1 DEF EntType
    <3>2. ent' = [ent EXCEPT ![e] = new] /\ UNCHANGED <<aliases, conflicts, cands, log>>
      BY <2>1 DEF ArchiveEntity
    <3> HIDE DEF new
    <3>3. QED
      BY <1>1, <3>1, <3>2 DEF Types
  <2>2. ASSUME NEW more \in SUBSET Nicknames, NEW promoted \in BOOLEAN, UpsertEntity(e, more, promoted)
        PROVE  /\ ent' \in [Entities -> EntType] /\ \A x \in Entities : ent'[x].canonical = ent[x].canonical
               /\ aliases' \subseteq Entities \X Aliases
               /\ conflicts' \in [Aliases -> {"none", "active", "resolved"}]
               /\ UNCHANGED <<cands, log>>
    <3> DEFINE names == ent[e].names \cup more
    <3>1. names \in SUBSET Nicknames
      BY <1>1 DEF EntType
    <3>2. PICK new \in EntType : new.canonical = ent[e].canonical /\ ent' = [ent EXCEPT ![e] = new]
      BY <1>1, <2>2, Upserted
    <3>3. ent' \in [Entities -> EntType] /\ \A x \in Entities : ent'[x].canonical = ent[x].canonical
      BY <1>1, <3>2, Replacing
    <3>4. aliases' = aliases \cup ({e} \X names) /\ UNCHANGED <<cands, log>>
      BY <2>2 DEF UpsertEntity
    <3>5. conflicts' \in [Aliases -> {"none", "active", "resolved"}]
      BY <1>1, <2>2, RefreshedType DEF UpsertEntity
    <3>6. QED
      BY <1>1, <3>1, <3>3, <3>4, <3>5 DEF Types, Aliases
  <2>3. QED
    BY <2>1, <2>2
<1>3. Types'
  BY <1>1, <1>2 DEF Types
<1>4. LogInv'
  BY <1>1, <1>2 DEF LogInv, Entries
<1>5. OriginInv'
  BY <1>1, <1>2 DEF OriginInv, Origin
<1>6. QED
  BY <1>2, <1>3, <1>4, <1>5 DEF Inv

LEMMA MergeNext == Inv /\ [Next]_vars => Inv'
<1> SUFFICES ASSUME Inv, [Next]_vars PROVE Inv'
  OBVIOUS
<1>1. CASE UNCHANGED vars
  BY <1>1 DEF vars, Inv, Types, LogInv, OriginInv, Origin, Entries
<1>2. QED
  BY <1>1, ProposeStep, ApplyStep, RevertStep, OtherStep DEF Next, Govern

LEMMA InvAlways == Spec => []Inv
  BY MergeInit, MergeNext, PTL DEF Spec

-----------------------------------------------------------------------------
\* Variables keep their types and the audit rows their primary key.
THEOREM MergeTypes == Spec => []TypeOK
<1>1. Inv => TypeOK
  BY DEF Inv, Types, LogInv, TypeOK, EntType
<1>2. QED
  BY <1>1, InvAlways, PTL

\* Where an instance stood before its first merge is never lost.
THEOREM OriginLogged == Spec => []OriginIsLogged
<1>1. Inv => OriginIsLogged
  BY DEF Inv, OriginInv, Origin, OriginIsLogged
<1>2. QED
  BY <1>1, InvAlways, PTL

\* A merge that is applied can be undone, once.
THEOREM AppliedUndoable == Spec => []AppliedIsUndoable
<1>1. ASSUME Inv, NEW m \in Merges, cands[m] = "applied"
      PROVE  Cardinality(Entries(m, "merge")) = 1 /\ Entries(m, "revert") = {}
  <2>1. PICK l \in log : l \in Entries(m, "merge")
    BY <1>1 DEF Inv, LogInv, Entries
  <2>2. Entries(m, "merge") = {l}
    BY <1>1, <2>1 DEF Inv, LogInv, Entries
  <2>3. Cardinality({l}) = 1
    BY FS_Singleton
  <2>4. QED
    BY <1>1, <2>2, <2>3 DEF Inv, LogInv
<1>2. Inv => AppliedIsUndoable
  BY <1>1 DEF AppliedIsUndoable
<1>3. QED
  BY <1>2, InvAlways, PTL

\* A merge that was undone never comes back.
THEOREM RevertedForGood == Spec => RevertIsFinal
<1> DEFINE Final ==
      \A m \in Merges : Entries(m, "revert") # {} => Entries(m, "merge")' = Entries(m, "merge")
        /\ (cands[m] # "applied" => cands'[m] # "applied")
<1>1. Inv /\ [Next]_vars => [Final]_vars
  <2> SUFFICES ASSUME Inv, [Next]_vars PROVE Final \/ UNCHANGED vars
    OBVIOUS
  <2>1. ASSUME NEW m \in Merges, Apply(m) PROVE Final
    <3>1. /\ Entries(m, "merge") = {} /\ log' = log \cup {Row(m, ent[m.source].canonical)}
          /\ cands' = [cands EXCEPT ![m] = "applied"]
      BY <2>1 DEF Apply, Logged
    <3>2. Entries(m, "revert") = {}
      BY <3>1 DEF Inv, LogInv
    <3>3. Row(m, ent[m.source].canonical).merge = m
      BY DEF Row
    <3>4. \A n \in Merges \ {m} : cands'[n] = cands[n] /\ Entries(n, "merge")' = Entries(n, "merge")
      BY <3>1, <3>3 DEF Inv, Types, Entries
    <3>5. QED
      BY <3>2, <3>4
  <2>2. ASSUME NEW m \in Merges, Revert(m) PROVE Final
    <3>1. PICK l \in Entry : log' = log \cup {l} /\ l.action = "revert" /\ cands' = [cands EXCEPT ![m] = "reverted"]
      <4>1. PICK entry \in Entries(m, "merge") : log' = log \cup {[entry EXCEPT !.action = "revert"]}
        BY <2>2 DEF Revert
      <4>2. [entry EXCEPT !.action = "revert"] \in Entry
        BY <4>1 DEF Inv, LogInv, Entries, Entry
      <4>3. [entry EXCEPT !.action = "revert"].action = "revert"
        BY <4>1 DEF Inv, LogInv, Entries, Entry
      <4>4. QED
        BY <2>2, <4>1, <4>2, <4>3 DEF Revert
    <3>2. \A n \in Merges : Entries(n, "merge")' = Entries(n, "merge")
      BY <3>1 DEF Entries
    <3>3. \A n \in Merges : cands[n] # "applied" => cands'[n] # "applied"
      BY <3>1 DEF Inv, Types
    <3>4. QED
      BY <3>2, <3>3
  <2>3. ASSUME NEW m \in Merges, NEW v \in Verdicts, Propose(m, v) PROVE Final
    <3>1. cands' = [cands EXCEPT ![m] = v] /\ log' = log
      BY <2>3 DEF Propose, Recorded
    <3>2. \A n \in Merges : cands[n] # "applied" => cands'[n] # "applied"
      BY <3>1 DEF Inv, Types, Verdicts
    <3>3. QED
      BY <3>1, <3>2 DEF Entries
  <2>4. ASSUME NEW e \in Entities,
               \/ ArchiveEntity(e)
               \/ \E new \in SUBSET Nicknames, promoted \in BOOLEAN : UpsertEntity(e, new, promoted)
        PROVE  Final
    BY <2>4 DEF ArchiveEntity, UpsertEntity, Entries
  <2>5. QED
    BY <2>1, <2>2, <2>3, <2>4 DEF Next, Govern
<1>2. QED
  BY <1>1, InvAlways, PTL DEF Spec, RevertIsFinal

BeliefTypes ==
  /\ claim \in [BeliefEpisodes -> Beliefs!Claim]
  /\ frame \in [BeliefEpisodes -> {"none", "needs_confirmation", "active", "superseded"}]
  /\ cand \in [BeliefEpisodes -> [status : Beliefs!CandStatus, target : 0..MaxBeliefs]]
  /\ run \subseteq BeliefEpisodes
  /\ beliefs \in Seq(Beliefs!Belief) /\ Len(beliefs) <= MaxBeliefs

\* Pointers lead to rows that are there, and on; a candidate points at what it became.
PointersInv ==
  /\ \A i \in 1..Len(beliefs) : beliefs[i].by <= Len(beliefs) /\ beliefs[i].by # i
  /\ \A e \in BeliefEpisodes : (cand[e].target > 0) = (cand[e].status = "promoted")

\* What supersession says of the rows it relates.
Yielded(rows, i) ==
  LET j == rows[i].by
  IN  /\ j > i /\ rows[j].value # rows[i].value
      /\ rows[j].source = rows[i].source => rows[j].when > rows[i].when

YieldInv == \A i \in 1..Len(beliefs) : beliefs[i].status = "superseded" => Yielded(beliefs, i)

BeliefInv == BeliefTypes /\ PointersInv /\ YieldInv /\ Beliefs!RestsOnPromoted

-----------------------------------------------------------------------------
LEMMA BeliefsInit == Beliefs!Init => BeliefInv
  BY Revision DEF Beliefs!Init, BeliefInv, BeliefTypes, PointersInv, YieldInv, Beliefs!RestsOnPromoted,
     Beliefs!NoCandidate, Beliefs!CandStatus, Beliefs!RevisionAssumption

LEMMA RowIsBelief ==
  ASSUME BeliefTypes, NEW e \in BeliefEpisodes, NEW s \in Beliefs!Source
  PROVE  /\ Beliefs!Row(e, s) \in Beliefs!Belief
         /\ Beliefs!Row(e, s).status = "active" /\ Beliefs!Row(e, s).by = 0
         /\ Beliefs!Row(e, s).source = s /\ Beliefs!Row(e, s).episode = e
<1>1. claim[e] \in [value : Values, when : Times]
  BY DEF BeliefTypes, Beliefs!Claim
<1>2. 0 \in 0..MaxBeliefs
  BY Revision DEF Beliefs!RevisionAssumption
<1>3. QED
  BY <1>1, <1>2 DEF Beliefs!Row, Beliefs!Belief, Beliefs!Source

LEMMA RowsTyped ==
  ASSUME BeliefTypes
  PROVE  /\ Len(beliefs) \in Nat
         /\ \A i \in 1..Len(beliefs) : beliefs[i] \in Beliefs!Belief /\ beliefs[i].episode \in BeliefEpisodes
                                      /\ beliefs[i].by \in Nat
<1>1. Len(beliefs) \in Nat /\ \A i \in 1..Len(beliefs) : beliefs[i] \in Beliefs!Belief
  BY DEF BeliefTypes
<1>2. \A row \in Beliefs!Belief : row.episode \in BeliefEpisodes /\ row.by \in Nat
  BY DEF Beliefs!Belief
<1>3. QED
  BY <1>1, <1>2

\* A row that gives way to row n.
Superseded(row, n) == [row EXCEPT !.status = "superseded", !.by = n]

LEMMA SupersededRow ==
  ASSUME NEW row \in Beliefs!Belief, NEW n \in 0..MaxBeliefs
  PROVE  /\ Superseded(row, n) \in Beliefs!Belief
         /\ Superseded(row, n).status = "superseded" /\ Superseded(row, n).by = n
         /\ \A f \in {"value", "when", "source", "episode"} : Superseded(row, n)[f] = row[f]
  BY DEF Beliefs!Belief, Superseded

\* How a row of the table can change when a row is inserted after it: it stays, or it gives
\* way to the new one, which says something else, and later if it is of the same source.
Yields(i, new) ==
  \/ beliefs'[i] = beliefs[i]
  \/ /\ beliefs'[i] = Superseded(beliefs[i], Len(beliefs) + 1)
     /\ beliefs[i].value # new.value
     /\ new.source = beliefs[i].source => new.when > beliefs[i].when

InsertedRow(new) ==
  /\ beliefs' \in Seq(Beliefs!Belief) /\ Len(beliefs') = Len(beliefs) + 1 /\ Len(beliefs') <= MaxBeliefs
  /\ beliefs'[Len(beliefs) + 1] = new
  /\ \A i \in 1..Len(beliefs) : Yields(i, new)

LEMMA Appending ==
  ASSUME NEW S, NEW r \in Seq(S), NEW x \in S
  PROVE  /\ Append(r, x) \in Seq(S) /\ Len(Append(r, x)) = Len(r) + 1
         /\ Append(r, x)[Len(r) + 1] = x
         /\ \A i \in 1..Len(r) : Append(r, x)[i] = r[i]
  OBVIOUS

LEMMA Inserting ==
  ASSUME BeliefTypes, NEW new \in Beliefs!Belief, NEW gone, Len(beliefs) < MaxBeliefs,
         beliefs' = Beliefs!Inserted(new, gone)
  PROVE  /\ beliefs' \in Seq(Beliefs!Belief) /\ Len(beliefs') = Len(beliefs) + 1 /\ Len(beliefs') <= MaxBeliefs
         /\ beliefs'[Len(beliefs) + 1] = new
         /\ \A i \in 1..Len(beliefs) :
              beliefs'[i] = IF i \in gone THEN Superseded(beliefs[i], Len(beliefs) + 1) ELSE beliefs[i]
<1> DEFINE n == Len(beliefs)
           Now(i) == IF i \in gone THEN Superseded(beliefs[i], n + 1) ELSE beliefs[i]
           rows == [i \in 1..n |-> Now(i)]
<1>1. n \in Nat /\ n + 1 \in 0..MaxBeliefs /\ \A i \in 1..n : beliefs[i] \in Beliefs!Belief
  BY Revision DEF BeliefTypes, Beliefs!RevisionAssumption
<1>2. beliefs' = Append(rows, new)
  BY DEF Beliefs!Inserted, Superseded
<1> HIDE DEF n
<1>3. \A i \in 1..n : Now(i) \in Beliefs!Belief
  BY <1>1, SupersededRow
<1> HIDE DEF Now
<1>4. rows \in Seq(Beliefs!Belief) /\ Len(rows) = n /\ \A i \in 1..n : rows[i] = Now(i)
  BY <1>1, <1>3
<1> HIDE DEF rows
<1>5. /\ beliefs' \in Seq(Beliefs!Belief) /\ Len(beliefs') = n + 1
      /\ beliefs'[n + 1] = new /\ \A i \in 1..n : beliefs'[i] = rows[i]
  BY <1>2, <1>4, Appending
<1>6. \A i \in 1..n : beliefs'[i] = Now(i)
  BY <1>4, <1>5
<1>7. QED
  BY <1>1, <1>5, <1>6 DEF n, Now

LEMMA Upserting ==
  ASSUME BeliefTypes, NEW new \in Beliefs!Belief, NEW refused \in BOOLEAN, Beliefs!Upsert(new, refused)
  PROVE  \/ refused /\ UNCHANGED beliefs
         \/ ~refused /\ InsertedRow(new)
<1>1. CASE refused
  BY <1>1 DEF Beliefs!Upsert
<1>2. CASE ~refused
  <2>1. PICK v \in [Beliefs!Live \ Beliefs!Same(new) -> {"incoming", "existing", "tie"}] :
          /\ \A i \in DOMAIN v : v[i] \in Beliefs!Verdicts(new, beliefs[i])
          /\ Len(beliefs) < MaxBeliefs /\ beliefs' = Beliefs!Inserted(new, Beliefs!Replaced(v))
    BY <1>2 DEF Beliefs!Upsert
  <2>2. \A i \in Beliefs!Replaced(v) : i \in Beliefs!Live \ Beliefs!Same(new) /\ v[i] = "incoming"
    BY DEF Beliefs!Replaced, Beliefs!Beaten
  <2>3. ASSUME NEW i \in Beliefs!Replaced(v)
        PROVE  /\ beliefs[i].value # new.value
               /\ new.source = beliefs[i].source => new.when > beliefs[i].when
    <3>1. beliefs[i].value # new.value
      BY <2>2 DEF Beliefs!Same
    <3>2. "incoming" \in Beliefs!Verdicts(new, beliefs[i])
      BY <2>1, <2>2
    <3>3. QED
      BY <3>1, <3>2 DEF Beliefs!Verdicts
  <2>4. \A i \in 1..Len(beliefs) : Yields(i, new)
    BY <2>1, <2>3, Inserting DEF Yields
  <2>5. QED
    BY <1>2, <2>1, <2>4, Inserting DEF InsertedRow
<1>3. QED
  BY <1>1, <1>2

\* What an insertion leaves of the invariant of the rows.
LEMMA InsertKeeps ==
  ASSUME BeliefInv, NEW new \in Beliefs!Belief, new.status = "active", new.by = 0, InsertedRow(new)
  PROVE  /\ \A i \in 1..Len(beliefs') : beliefs'[i].by <= Len(beliefs') /\ beliefs'[i].by # i
         /\ YieldInv'
         /\ \A i \in 1..Len(beliefs) : beliefs'[i].status = "active" => beliefs'[i] = beliefs[i]
<1> DEFINE n == Len(beliefs)
<1>1. /\ n \in Nat /\ n + 1 \in 0..MaxBeliefs
      /\ \A i \in 1..n : beliefs[i] \in Beliefs!Belief /\ beliefs[i].by \in Nat
  <2>1. n \in Nat /\ n + 1 <= MaxBeliefs /\ MaxBeliefs \in Nat
    BY Revision DEF BeliefInv, BeliefTypes, InsertedRow, Beliefs!RevisionAssumption
  <2>2. \A i \in 1..n : beliefs[i] \in Beliefs!Belief
    BY DEF BeliefInv, BeliefTypes
  <2>3. QED
    BY <2>1, <2>2 DEF Beliefs!Belief
<1>2. /\ Len(beliefs') = n + 1 /\ beliefs'[n + 1] = new /\ 1..Len(beliefs') = (1..n) \cup {n + 1}
      /\ \A i \in 1..n : Yields(i, new)
  BY <1>1 DEF InsertedRow
<1>3. \A i \in 1..n :
        \/ beliefs'[i] = beliefs[i]
        \/ /\ beliefs'[i].status = "superseded" /\ beliefs'[i].by = n + 1
           /\ beliefs[i].value # new.value
           /\ new.source = beliefs[i].source => new.when > beliefs[i].when
  BY <1>1, <1>2, SupersededRow DEF Yields
<1>4. \A i \in 1..n : /\ beliefs'[i].value = beliefs[i].value /\ beliefs'[i].source = beliefs[i].source
                      /\ beliefs'[i].when = beliefs[i].when
  BY <1>1, <1>2, SupersededRow DEF Yields
<1>5. \A i \in 1..Len(beliefs') : beliefs'[i].by <= Len(beliefs') /\ beliefs'[i].by # i
  BY <1>1, <1>2, <1>3 DEF BeliefInv, PointersInv
<1>6. ASSUME NEW i \in 1..Len(beliefs'), beliefs'[i].status = "superseded"
      PROVE  Yielded(beliefs', i)
  <2>1. i \in 1..n
    BY <1>2, <1>6
  <2>2. CASE beliefs'[i] = beliefs[i]
    <3>1. beliefs[i].by > i /\ beliefs[i].by \in 1..n /\ Yielded(beliefs, i)
      BY <1>1, <1>6, <2>1, <2>2 DEF BeliefInv, PointersInv, YieldInv, Yielded
    <3>2. QED
      BY <1>4, <2>1, <2>2, <3>1 DEF Yielded
  <2>3. CASE /\ beliefs'[i].by = n + 1 /\ beliefs[i].value # new.value
             /\ new.source = beliefs[i].source => new.when > beliefs[i].when
    BY <1>1, <1>2, <1>4, <2>1, <2>3 DEF Yielded
  <2>4. QED
    BY <1>3, <2>1, <2>2, <2>3
<1>7. QED
  BY <1>3, <1>5, <1>6 DEF YieldInv

\* A claim that reaches the table with a frame.
LEMMA FrameClaim ==
  ASSUME BeliefInv, NEW e \in BeliefEpisodes, Beliefs!PublishFrame(e)
  PROVE  BeliefInv'
<1>1. /\ frame' \in [BeliefEpisodes -> {"none", "needs_confirmation", "active", "superseded"}]
      /\ UNCHANGED <<claim, cand, run>>
  BY DEF Beliefs!PublishFrame, BeliefInv, BeliefTypes
<1> DEFINE new == Beliefs!Row(e, "frame")
<1>2. new \in Beliefs!Belief /\ new.status = "active" /\ new.by = 0 /\ new.source = "frame"
  BY RowIsBelief DEF BeliefInv, Beliefs!Source
<1>3. UNCHANGED beliefs \/ InsertedRow(new)
  BY <1>2, Upserting DEF Beliefs!PublishFrame, Beliefs!Project, BeliefInv
<1>4. CASE UNCHANGED beliefs
  BY <1>1, <1>4 DEF BeliefInv, BeliefTypes, PointersInv, YieldInv, Beliefs!RestsOnPromoted
<1>5. CASE InsertedRow(new)
  <2>1. /\ \A i \in 1..Len(beliefs') : beliefs'[i].by <= Len(beliefs') /\ beliefs'[i].by # i
        /\ YieldInv'
        /\ \A i \in 1..Len(beliefs) : beliefs'[i].status = "active" => beliefs'[i] = beliefs[i]
    BY <1>2, <1>5, InsertKeeps
  <2>2. BeliefTypes'
    BY <1>1, <1>5 DEF BeliefInv, BeliefTypes, InsertedRow
  <2>3. Beliefs!RestsOnPromoted'
    <3>1. Len(beliefs) \in Nat /\ Len(beliefs') = Len(beliefs) + 1 /\ beliefs'[Len(beliefs) + 1] = new
      BY <1>5 DEF InsertedRow, BeliefInv, BeliefTypes
    <3>2. ASSUME NEW i \in 1..Len(beliefs'), beliefs'[i].source = "candidate", beliefs'[i].status = "active"
          PROVE  i \in 1..Len(beliefs) /\ beliefs'[i] = beliefs[i]
      <4>1. i # Len(beliefs) + 1
        BY <1>2, <3>1, <3>2
      <4>2. i \in 1..Len(beliefs)
        BY <3>1, <3>2, <4>1
      <4>3. QED
        BY <2>1, <3>2, <4>2
    <3>3. QED
      BY <1>1, <3>2 DEF BeliefInv, Beliefs!RestsOnPromoted
  <2>4. QED
    BY <1>1, <2>1, <2>2, <2>3 DEF BeliefInv, PointersInv
<1>6. QED
  BY <1>3, <1>4, <1>5

\* A candidate that was not promoted moves to a status that is not that either.
LEMMA MarkedStep ==
  ASSUME BeliefInv, NEW e \in BeliefEpisodes, NEW s \in Beliefs!CandStatus \ {"promoted"},
         cand[e].status # "promoted", cand' = [cand EXCEPT ![e] = [status |-> s, target |-> 0]],
         run' \subseteq BeliefEpisodes, UNCHANGED <<claim, frame, beliefs>>
  PROVE  BeliefInv'
<1>1. 0 \in 0..MaxBeliefs
  BY Revision DEF Beliefs!RevisionAssumption
<1>2. cand' \in [BeliefEpisodes -> [status : Beliefs!CandStatus, target : 0..MaxBeliefs]]
  BY <1>1 DEF BeliefInv, BeliefTypes
<1>3. \A x \in BeliefEpisodes \ {e} : cand'[x] = cand[x]
  BY DEF BeliefInv, BeliefTypes
<1>4. cand'[e].status = s /\ cand'[e].target = 0
  BY DEF BeliefInv, BeliefTypes
<1>5. BeliefTypes'
  BY <1>2 DEF BeliefInv, BeliefTypes
<1>6. PointersInv'
  BY <1>3, <1>4 DEF BeliefInv, PointersInv
<1>7. Beliefs!RestsOnPromoted'
  <2>1. \A i \in 1..Len(beliefs) : beliefs[i].source = "candidate" /\ beliefs[i].status = "active" =>
          beliefs[i].episode \in BeliefEpisodes /\ beliefs[i].episode # e
    <3> SUFFICES ASSUME NEW i \in 1..Len(beliefs), beliefs[i].source = "candidate", beliefs[i].status = "active"
                 PROVE  beliefs[i].episode \in BeliefEpisodes /\ beliefs[i].episode # e
      OBVIOUS
    <3>1. cand[beliefs[i].episode] = [status |-> "promoted", target |-> i]
      BY DEF BeliefInv, Beliefs!RestsOnPromoted
    <3>2. QED
      BY <3>1, RowsTyped DEF BeliefInv
  <2>2. QED
    BY <1>3, <2>1 DEF BeliefInv, Beliefs!RestsOnPromoted
<1>8. QED
  BY <1>5, <1>6, <1>7 DEF BeliefInv, YieldInv

\* A candidate is promoted, or refused and left to a review.
LEMMA PromotionStep ==
  ASSUME BeliefInv, NEW e \in BeliefEpisodes, cand[e].status # "promoted", Beliefs!Promote(e),
         run' \subseteq BeliefEpisodes, UNCHANGED <<claim, frame>>
  PROVE  BeliefInv'
<1> DEFINE new == Beliefs!Row(e, "candidate")
           n == Len(beliefs)
<1>1. /\ new \in Beliefs!Belief /\ new.status = "active" /\ new.by = 0
      /\ new.source = "candidate" /\ new.episode = e
  BY RowIsBelief DEF BeliefInv, Beliefs!Source
<1>2. PICK refused \in BOOLEAN :
        /\ Beliefs!Upsert(new, refused)
        /\ cand' = IF refused THEN Beliefs!Marked(e, "needs_confirmation")
                   ELSE [cand EXCEPT ![e] = [status |-> "promoted", target |-> n + 1]]
  BY DEF Beliefs!Promote
<1>3. CASE refused
  BY <1>1, <1>2, <1>3, Upserting, MarkedStep DEF BeliefInv, Beliefs!Marked, Beliefs!CandStatus
<1>4. CASE ~refused
  <2>1. InsertedRow(new)
    BY <1>1, <1>2, <1>4, Upserting DEF BeliefInv
  <2>2. /\ \A i \in 1..Len(beliefs') : beliefs'[i].by <= Len(beliefs') /\ beliefs'[i].by # i
        /\ YieldInv'
        /\ \A i \in 1..n : beliefs'[i].status = "active" => beliefs'[i] = beliefs[i]
    BY <1>1, <2>1, InsertKeeps
  <2>3. n \in Nat /\ n + 1 \in 0..MaxBeliefs /\ Len(beliefs') = n + 1 /\ beliefs'[n + 1] = new
    BY <2>1, Revision DEF InsertedRow, BeliefInv, BeliefTypes, Beliefs!RevisionAssumption
  <2>4. cand' = [cand EXCEPT ![e] = [status |-> "promoted", target |-> n + 1]]
    BY <1>2, <1>4
  <2> HIDE DEF n
  <2>5. /\ cand' \in [BeliefEpisodes -> [status : Beliefs!CandStatus, target : 0..MaxBeliefs]]
        /\ cand'[e] = [status |-> "promoted", target |-> n + 1]
        /\ \A x \in BeliefEpisodes \ {e} : cand'[x] = cand[x]
    BY <2>3, <2>4 DEF BeliefInv, BeliefTypes, Beliefs!CandStatus
  <2>6. BeliefTypes'
    BY <2>1, <2>5 DEF BeliefInv, BeliefTypes, InsertedRow
  <2>7. PointersInv'
    BY <2>2, <2>3, <2>5 DEF BeliefInv, PointersInv
  <2>8. ASSUME NEW i \in 1..Len(beliefs'), beliefs'[i].source = "candidate", beliefs'[i].status = "active"
        PROVE  cand'[beliefs'[i].episode] = [status |-> "promoted", target |-> i]
    <3>1. CASE i = n + 1
      BY <1>1, <2>3, <2>5, <3>1
    <3>2. CASE i \in 1..n
      <4>1. beliefs'[i] = beliefs[i]
        BY <2>2, <2>8, <3>2 DEF n
      <4>2. cand[beliefs[i].episode] = [status |-> "promoted", target |-> i] /\ beliefs[i].episode \in BeliefEpisodes
        BY <2>8, <3>2, <4>1, RowsTyped DEF BeliefInv, Beliefs!RestsOnPromoted, n
      <4>3. QED
        BY <2>5, <4>1, <4>2
    <3>3. QED
      BY <2>3, <3>1, <3>2
  <2>9. QED
    BY <2>2, <2>6, <2>7, <2>8 DEF BeliefInv, Beliefs!RestsOnPromoted
<1>5. QED
  BY <1>3, <1>4

\* What a repair does to one row.
LEMMA RepairedRow ==
  ASSUME BeliefTypes, NEW e \in BeliefEpisodes, beliefs' = Beliefs!Invalidated(e)
  PROVE  /\ beliefs' \in Seq(Beliefs!Belief) /\ Len(beliefs') = Len(beliefs)
         /\ \A i \in 1..Len(beliefs) :
              /\ beliefs'[i].value = beliefs[i].value /\ beliefs'[i].when = beliefs[i].when
              /\ beliefs'[i].source = beliefs[i].source /\ beliefs'[i].episode = beliefs[i].episode
              /\ beliefs'[i].by = beliefs[i].by
              /\ beliefs'[i].status = IF i = cand[e].target THEN "suspect" ELSE beliefs[i].status
<1> DEFINE n == Len(beliefs)
           Now(i) == IF i = cand[e].target THEN [beliefs[i] EXCEPT !.status = "suspect"] ELSE beliefs[i]
<1>1. n \in Nat /\ \A i \in 1..n : beliefs[i] \in Beliefs!Belief
  BY DEF BeliefTypes
<1>2. beliefs' = [i \in 1..n |-> Now(i)]
  BY DEF Beliefs!Invalidated
<1> HIDE DEF n
<1>3. \A i \in 1..n :
        /\ Now(i) \in Beliefs!Belief
        /\ Now(i).value = beliefs[i].value /\ Now(i).when = beliefs[i].when
        /\ Now(i).source = beliefs[i].source /\ Now(i).episode = beliefs[i].episode
        /\ Now(i).by = beliefs[i].by
        /\ Now(i).status = IF i = cand[e].target THEN "suspect" ELSE beliefs[i].status
  BY <1>1 DEF Beliefs!Belief
<1> HIDE DEF Now
<1>4. beliefs' \in Seq(Beliefs!Belief) /\ Len(beliefs') = n /\ \A i \in 1..n : beliefs'[i] = Now(i)
  BY <1>1, <1>2, <1>3
<1>5. QED
  BY <1>3, <1>4 DEF n

LEMMA RepairStep ==
  ASSUME BeliefInv, NEW e \in BeliefEpisodes, NEW moved \in BOOLEAN, Beliefs!Repair(e, moved)
  PROVE  BeliefInv'
<1>1. /\ beliefs' \in Seq(Beliefs!Belief) /\ Len(beliefs') = Len(beliefs)
      /\ \A i \in 1..Len(beliefs) :
           /\ beliefs'[i].value = beliefs[i].value /\ beliefs'[i].when = beliefs[i].when
           /\ beliefs'[i].source = beliefs[i].source /\ beliefs'[i].episode = beliefs[i].episode
           /\ beliefs'[i].by = beliefs[i].by
           /\ beliefs'[i].status = IF i = cand[e].target THEN "suspect" ELSE beliefs[i].status
  BY RepairedRow DEF Beliefs!Repair, BeliefInv
<1>2. frame' \in [BeliefEpisodes -> {"none", "needs_confirmation", "active", "superseded"}]
  BY DEF Beliefs!Repair, BeliefInv, BeliefTypes
<1>3. /\ cand' \in [BeliefEpisodes -> [status : Beliefs!CandStatus, target : 0..MaxBeliefs]]
      /\ cand'[e].status # "promoted" /\ (cand'[e].target > 0) = FALSE
      /\ \A x \in BeliefEpisodes \ {e} : cand'[x] = cand[x]
  <2>1. 0 \in 0..MaxBeliefs
    BY Revision DEF Beliefs!RevisionAssumption
  <2>2. CASE cand[e].status \in {"none", "superseded"}
    BY <2>2 DEF Beliefs!Repair, BeliefInv, BeliefTypes, PointersInv
  <2>3. CASE cand[e].status \notin {"none", "superseded"}
    BY <2>1, <2>3 DEF Beliefs!Repair, Beliefs!Marked, BeliefInv, BeliefTypes, Beliefs!CandStatus
  <2>4. QED
    BY <2>2, <2>3
<1>4. BeliefTypes'
  BY <1>1, <1>2, <1>3 DEF Beliefs!Repair, BeliefInv, BeliefTypes
<1>5. PointersInv'
  <2>1. \A i \in 1..Len(beliefs') : beliefs'[i].by <= Len(beliefs') /\ beliefs'[i].by # i
    BY <1>1 DEF BeliefInv, PointersInv
  <2>2. \A x \in BeliefEpisodes : (cand'[x].target > 0) = (cand'[x].status = "promoted")
    BY <1>3 DEF BeliefInv, PointersInv
  <2>3. QED
    BY <2>1, <2>2 DEF PointersInv
<1>6. YieldInv'
  <2> SUFFICES ASSUME NEW i \in 1..Len(beliefs'), beliefs'[i].status = "superseded"
               PROVE  Yielded(beliefs', i)
    BY DEF YieldInv
  <2>1. Yielded(beliefs, i) /\ beliefs[i].by > i /\ beliefs[i].by <= Len(beliefs) /\ i \in 1..Len(beliefs)
    BY <1>1 DEF BeliefInv, YieldInv, Yielded, PointersInv
  <2>2. beliefs[i].by \in 1..Len(beliefs)
    BY <2>1, RowsTyped DEF BeliefInv
  <2>3. QED
    BY <1>1, <2>1, <2>2 DEF Yielded
<1>7. Beliefs!RestsOnPromoted'
  <2> SUFFICES ASSUME NEW i \in 1..Len(beliefs'), beliefs'[i].source = "candidate",
                      beliefs'[i].status = "active"
               PROVE  cand'[beliefs'[i].episode] = [status |-> "promoted", target |-> i]
    BY DEF Beliefs!RestsOnPromoted
  <2>1. /\ i # cand[e].target /\ beliefs[i].source = "candidate" /\ beliefs[i].status = "active"
        /\ beliefs'[i].episode = beliefs[i].episode /\ i \in 1..Len(beliefs)
    BY <1>1
  <2>2. cand[beliefs[i].episode] = [status |-> "promoted", target |-> i]
    BY <2>1 DEF BeliefInv, Beliefs!RestsOnPromoted
  <2>3. beliefs[i].episode \in BeliefEpisodes /\ beliefs[i].episode # e
    BY <2>1, <2>2, RowsTyped DEF BeliefInv
  <2>4. QED
    BY <1>3, <2>1, <2>2, <2>3
<1>8. QED
  BY <1>4, <1>5, <1>6, <1>7 DEF BeliefInv

LEMMA BeliefsNext == BeliefInv /\ [Beliefs!Next]_(Beliefs!vars) => BeliefInv'
<1> SUFFICES ASSUME BeliefInv, [Beliefs!Next]_(Beliefs!vars) PROVE BeliefInv'
  OBVIOUS
<1> USE DEF Beliefs!CandStatus
<1>1. CASE UNCHANGED Beliefs!vars
  BY <1>1 DEF Beliefs!vars, BeliefInv, BeliefTypes, PointersInv, YieldInv, Beliefs!RestsOnPromoted
<1>2. CASE Beliefs!ListPending
  BY <1>2 DEF Beliefs!ListPending, BeliefInv, BeliefTypes, PointersInv, YieldInv, Beliefs!RestsOnPromoted
<1>3. ASSUME NEW e \in BeliefEpisodes, Beliefs!PublishFrame(e) \/ Beliefs!ApproveFrame(e) PROVE BeliefInv'
  BY <1>3, FrameClaim DEF Beliefs!ApproveFrame
<1>4. ASSUME NEW e \in BeliefEpisodes, Beliefs!ProposeFrame(e) PROVE BeliefInv'
  BY <1>4 DEF Beliefs!ProposeFrame, BeliefInv, BeliefTypes, PointersInv, YieldInv, Beliefs!RestsOnPromoted
<1>5. ASSUME NEW e \in BeliefEpisodes, NEW s \in Beliefs!CandStatus, Beliefs!PublishCandidate(e, s) PROVE BeliefInv'
  BY <1>5, MarkedStep DEF Beliefs!PublishCandidate, BeliefInv, BeliefTypes
<1>6. ASSUME NEW e \in BeliefEpisodes, NEW s \in Beliefs!CandStatus, Beliefs!Close(e, s) PROVE BeliefInv'
  BY <1>6, MarkedStep DEF Beliefs!Close, Beliefs!Marked, BeliefInv, BeliefTypes
<1>7. ASSUME NEW e \in BeliefEpisodes, Beliefs!Evaluate(e) PROVE BeliefInv'
  <2>1. run' \subseteq BeliefEpisodes /\ UNCHANGED <<claim, frame>>
    BY <1>7 DEF Beliefs!Evaluate, BeliefInv, BeliefTypes
  <2>2. CASE UNCHANGED <<cand, beliefs>>
    BY <2>1, <2>2 DEF BeliefInv, BeliefTypes, PointersInv, YieldInv, Beliefs!RestsOnPromoted
  <2>3. CASE Beliefs!Takes(e) /\ Beliefs!Promote(e)
    BY <2>1, <2>3, PromotionStep DEF Beliefs!Takes
  <2>4. ASSUME NEW s \in {"candidate", "needs_confirmation", "rejected"},
               Beliefs!Takes(e), cand' = Beliefs!Marked(e, s), UNCHANGED beliefs
        PROVE  BeliefInv'
    BY <2>1, <2>4, MarkedStep DEF Beliefs!Takes, Beliefs!Marked
  <2>5. QED
    BY <1>7, <2>2, <2>3, <2>4 DEF Beliefs!Evaluate
<1>8. ASSUME NEW e \in BeliefEpisodes, Beliefs!Approve(e) PROVE BeliefInv'
  <2>1. run' \subseteq BeliefEpisodes /\ UNCHANGED <<claim, frame>> /\ cand[e].status = "needs_confirmation"
    BY <1>8 DEF Beliefs!Approve, BeliefInv, BeliefTypes
  <2>2. CASE Beliefs!Promote(e)
    BY <2>1, <2>2, PromotionStep
  <2>3. ASSUME NEW s \in {"candidate", "rejected"}, cand' = Beliefs!Marked(e, s), UNCHANGED beliefs
        PROVE  BeliefInv'
    BY <2>1, <2>3, MarkedStep DEF Beliefs!Marked
  <2>4. QED
    BY <1>8, <2>2, <2>3 DEF Beliefs!Approve
<1>9. ASSUME NEW e \in BeliefEpisodes, NEW moved \in BOOLEAN, Beliefs!Repair(e, moved) PROVE BeliefInv'
  BY <1>9, RepairStep
<1>10. QED
  BY <1>1, <1>2, <1>3, <1>4, <1>5, <1>6, <1>7, <1>8, <1>9 DEF Beliefs!Next

-----------------------------------------------------------------------------
\* How the candidate of an episode moves: from waiting to anything, to superseded from
\* anything, and from superseded to a new candidate.
Moves(x) ==
  \/ cand'[x] = cand[x]
  \/ cand[x].status \in {"candidate", "needs_confirmation"}
  \/ cand'[x].status = "superseded" /\ cand'[x].target = 0
  \/ cand[x].status \in {"none", "superseded"} /\ cand'[x].target = 0

LEMMA OneMoves ==
  ASSUME BeliefTypes, NEW e \in BeliefEpisodes, NEW new, cand' = [cand EXCEPT ![e] = new],
         \/ cand[e].status \in {"candidate", "needs_confirmation"}
         \/ new.status = "superseded" /\ new.target = 0
         \/ cand[e].status \in {"none", "superseded"} /\ new.target = 0
  PROVE  \A x \in BeliefEpisodes : Moves(x)
  BY DEF BeliefTypes, Moves

LEMMA CandidatesMove ==
  ASSUME BeliefInv, [Beliefs!Next]_(Beliefs!vars)
  PROVE  \A x \in BeliefEpisodes : Moves(x)
<1> USE DEF BeliefInv
<1>1. CASE UNCHANGED cand
  BY <1>1 DEF Moves
<1>2. ASSUME NEW e \in BeliefEpisodes, NEW s \in Beliefs!CandStatus, Beliefs!PublishCandidate(e, s)
      PROVE  \A x \in BeliefEpisodes : Moves(x)
  BY <1>2, OneMoves DEF Beliefs!PublishCandidate
<1>3. ASSUME NEW e \in BeliefEpisodes, NEW s \in Beliefs!CandStatus, Beliefs!Close(e, s)
      PROVE  \A x \in BeliefEpisodes : Moves(x)
  BY <1>3, OneMoves DEF Beliefs!Close, Beliefs!Marked
<1>4. ASSUME NEW e \in BeliefEpisodes, Beliefs!Evaluate(e) \/ Beliefs!Approve(e)
      PROVE  \A x \in BeliefEpisodes : Moves(x)
  <2>1. CASE UNCHANGED cand
    BY <2>1, <1>1
  <2>2. CASE cand' # cand
    <3>1. cand[e].status \in {"candidate", "needs_confirmation"}
      BY <1>4, <2>2 DEF Beliefs!Evaluate, Beliefs!Approve, Beliefs!Takes
    <3>2. \E new : cand' = [cand EXCEPT ![e] = new]
      BY <1>4, <2>2 DEF Beliefs!Evaluate, Beliefs!Approve, Beliefs!Promote, Beliefs!Marked
    <3>3. QED
      BY <3>1, <3>2, OneMoves
  <2>3. QED
    BY <2>1, <2>2
<1>5. ASSUME NEW e \in BeliefEpisodes, NEW moved \in BOOLEAN, Beliefs!Repair(e, moved)
      PROVE  \A x \in BeliefEpisodes : Moves(x)
  <2>1. UNCHANGED cand \/ cand' = [cand EXCEPT ![e] = [status |-> "superseded", target |-> 0]]
    BY <1>5 DEF Beliefs!Repair, Beliefs!Marked
  <2>2. QED
    BY <2>1, <1>1, OneMoves
<1>6. ASSUME NEW e \in BeliefEpisodes, Beliefs!PublishFrame(e) \/ Beliefs!ProposeFrame(e) \/ Beliefs!ApproveFrame(e)
      PROVE  UNCHANGED cand
  BY <1>6 DEF Beliefs!PublishFrame, Beliefs!ProposeFrame, Beliefs!ApproveFrame
<1>7. CASE Beliefs!ListPending \/ UNCHANGED Beliefs!vars
  BY <1>7, <1>1 DEF Beliefs!ListPending, Beliefs!vars
<1>8. QED
  BY <1>1, <1>2, <1>3, <1>4, <1>5, <1>6, <1>7 DEF Beliefs!Next

LEMMA BeliefsAlways == Beliefs!Spec => []BeliefInv
  BY BeliefsInit, BeliefsNext, PTL DEF Beliefs!Spec

\* Every row, candidate and frame keeps its type; pointers lead to rows that are there,
\* and a candidate points at a row if and only if it is promoted.
THEOREM BeliefsTyped == Beliefs!Spec => []Beliefs!TypeOK
<1>1. BeliefInv => Beliefs!TypeOK
  <2> SUFFICES ASSUME BeliefInv PROVE Beliefs!TypeOK
    OBVIOUS
  <2>1. \A i \in 1..Len(beliefs) : beliefs[i].status = "superseded" => beliefs[i].by > 0
    BY RowsTyped DEF BeliefInv, YieldInv, Yielded
  <2>2. QED
    BY <2>1 DEF BeliefInv, BeliefTypes, PointersInv, Beliefs!TypeOK
<1>2. QED
  BY <1>1, BeliefsAlways, PTL

\* Promoted memory rests on a standing candidate; a row gave way to a row inserted later,
\* of another value, that tells of a later episode if it is of the same source.
THEOREM BeliefsRest == Beliefs!Spec => [](Beliefs!RestsOnPromoted /\ Beliefs!LaterWordStands /\ Beliefs!ChainEnds)
<1>1. BeliefInv => Beliefs!RestsOnPromoted /\ Beliefs!LaterWordStands /\ Beliefs!ChainEnds
  BY DEF BeliefInv, YieldInv, Yielded, Beliefs!LaterWordStands, Beliefs!ChainEnds
<1>2. QED
  BY <1>1, BeliefsAlways, PTL

\* A candidate that was decided on changes by a repair or a new Dream alone.
THEOREM CandidatesStand == Beliefs!Spec => Beliefs!DecidedStays
<1> DEFINE Stays(e) ==
      /\ cand[e].status = "rejected" => cand'[e].status \in {"rejected", "superseded"}
      /\ cand[e].status = "promoted" => cand'[e] = cand[e] \/ cand'[e].status = "superseded"
      /\ cand[e].status = "superseded" => cand'[e].target = 0
<1>1. BeliefInv /\ [Beliefs!Next]_(Beliefs!vars) => [\A e \in BeliefEpisodes : Stays(e)]_(Beliefs!vars)
  <2> SUFFICES ASSUME BeliefInv, [Beliefs!Next]_(Beliefs!vars), NEW e \in BeliefEpisodes PROVE Stays(e)
    OBVIOUS
  <2>1. Moves(e)
    BY CandidatesMove
  <2>2. cand[e].status # "promoted" => cand[e].target = 0
    BY DEF BeliefInv, BeliefTypes, PointersInv
  <2>3. QED
    BY <2>1, <2>2 DEF Moves
<1>2. QED
  BY <1>1, BeliefsAlways, PTL DEF Beliefs!Spec, Beliefs!DecidedStays

EverRecorded == {e \in Project!Events : seq[e] # 0}

\* Events that were read at once are erased at once.
Whole(S) == S \subseteq EverRecorded /\ (S \cap ledger = {} \/ S \subseteq ledger)

ClockInv == /\ ledger \subseteq EverRecorded
            /\ \A e \in Project!Events : seq[e] <= counter
            /\ cursor <= counter

\* A run in flight has read all there was up to the last event it has read.
ReadInv == \A r \in Runners, m \in Project!Events, e \in ledger :
             m \in runs[r] /\ seq[e] <= seq[m] => e \in dreamed \cup runs[r]

WholeInv == /\ \A r \in Runners : Whole(runs[r])
            /\ Whole(tick.events)
            /\ \A c \in candidates : Whole(c.events)

Was(ep) == episodes[ep].status \in {"sealed", "erased"}

\* What a tick holds was sealed, and rests on the ledger until it is erased.
TickInv == /\ tick.at \notin {"idle", "next"} => tick.ep # Project!Direct
           /\ \A ep \in tick.jobs : Was(ep)
           /\ tick.ep # Project!Direct =>
                Was(tick.ep) /\ (episodes[tick.ep].status = "sealed" => tick.events \subseteq ledger)

\* So does what it has staged.
StagedInv ==
  \A row \in frames \cup candidates : row.ep # Project!Direct =>
    /\ Was(row.ep)
    /\ row.status = "staged" /\ episodes[row.ep].status = "sealed" => row.events \subseteq ledger

ErasureInv == /\ Project!TypeOK /\ ClockInv /\ ReadInv /\ WholeInv /\ TickInv /\ StagedInv
              /\ Project!LinksAreInLedger /\ Project!ShownRestsOnLedger /\ Project!CursorSkipsNothing

-----------------------------------------------------------------------------
(* Sets of numbers.                                                          *)

LEMMA NatOrder == \A T \in SUBSET Nat : T # {} => \E b \in T : \A x \in T : ~(x < b)
<1> DEFINE R == OpToRel(<, Nat)
<1>1. IsWellFoundedOn(R, Nat)
  BY NatLessThanWellFounded
<1>2. \A x, y \in Nat : x < y => <<x, y>> \in R
  BY DEF OpToRel
<1> HIDE DEF R
<1>3. ASSUME NEW T \in SUBSET Nat, T # {} PROVE \E b \in T : \A x \in T : ~(x < b)
  <2>1. PICK b \in T : \A y \in T : <<y, b>> \notin R
    BY <1>1, <1>3, WFMin
  <2>2. QED
    BY <1>2, <2>1
<1>4. QED
  BY <1>3

\* Max0 is what its name says, of numbers with a bound.
LEMMA Max0Is ==
  ASSUME NEW S \in SUBSET Nat, NEW b \in Nat, \A s \in S : s <= b
  PROVE  /\ Project!Max0(S) \in Nat /\ Project!Max0(S) <= b /\ \A s \in S : s <= Project!Max0(S)
         /\ S # {} => Project!Max0(S) \in S
<1>1. CASE S = {}
  BY <1>1 DEF Project!Max0
<1>2. CASE S # {}
  <2> DEFINE T == {x \in Nat : \A s \in S : s <= x}
  <2>1. PICK m \in T : \A x \in T : ~(x < m)
    BY NatOrder
  <2>2. m \in S
    <3>1. SUFFICES ASSUME m \notin S PROVE FALSE
      OBVIOUS
    <3>2. m \in Nat /\ \A s \in S : s \in Nat /\ s < m
      BY <2>1, <3>1
    <3>3. PICK s0 \in S : TRUE
      BY <1>2
    <3> DEFINE k == m - 1
    <3>4. k \in Nat /\ k < m /\ \A s \in S : s <= k
      BY <3>2, <3>3
    <3> HIDE DEF k
    <3>5. k \in T
      BY <3>4
    <3>6. QED
      BY <2>1, <3>4, <3>5
  <2>3. \E n \in S : \A s \in S : s <= n
    BY <2>1, <2>2
  <2>4. Project!Max0(S) \in S /\ \A s \in S : s <= Project!Max0(S)
    BY <1>2, <2>3 DEF Project!Max0
  <2>5. QED
    BY <2>4
<1>3. QED
  BY <1>1, <1>2

LEMMA LatestOf ==
  ASSUME Project!TypeOK, ClockInv, NEW S \in SUBSET Project!Events
  PROVE  /\ Project!Max0(Project!Seqs(S)) \in Nat /\ Project!Max0(Project!Seqs(S)) <= counter
         /\ S # {} => \E m \in S : Project!Max0(Project!Seqs(S)) = seq[m]
<1>1. /\ Project!Seqs(S) \in SUBSET Nat /\ counter \in Nat /\ \A s \in Project!Seqs(S) : s <= counter
      /\ S # {} => Project!Seqs(S) # {}
  BY DEF Project!TypeOK, ClockInv, Project!Seqs
<1>2. /\ Project!Max0(Project!Seqs(S)) \in Nat /\ Project!Max0(Project!Seqs(S)) <= counter
      /\ S # {} => Project!Max0(Project!Seqs(S)) \in Project!Seqs(S)
  BY <1>1, Max0Is
<1>3. QED
  BY <1>2 DEF Project!Seqs

\* A restart finds the counter where it was.
LEMMA ReseedKeeps ==
  ASSUME Project!TypeOK, ClockInv
  PROVE  Project!Reseeded = counter
<1> DEFINE S == {counter} \cup Project!Seqs(ledger)
<1>1. S \in SUBSET Nat /\ counter \in S /\ \A s \in S : s <= counter
  BY DEF Project!TypeOK, ClockInv, Project!Seqs
<1>2. Project!Max0(S) \in Nat /\ Project!Max0(S) <= counter /\ counter <= Project!Max0(S)
  BY <1>1, Max0Is
<1>3. QED
  BY <1>2 DEF Project!Reseeded, Project!TypeOK

LEMMA SameCount == \A S : Project!Cardinality(S) = Cardinality(S)
  BY Zenon DEF Project!Cardinality, Cardinality

\* What a run reads has no gap.
LEMMA BatchIsDense ==
  ASSUME Project!TypeOK, ClockInv, NEW m \in Project!Batch, NEW e \in Project!Undreamed, seq[e] <= seq[m]
  PROVE  e \in Project!Batch
<1> DEFINE Before(x) == {f \in Project!Undreamed : seq[f] < seq[x]}
<1>1. Project!Undreamed \subseteq Project!Events /\ m \in Project!Undreamed /\ \A f \in Project!Undreamed : seq[f] \in Nat
  BY DEF Project!Undreamed, Project!Batch, Project!TypeOK
<1>2. IsFiniteSet(Project!Events)
  BY Erasing, FS_Interval DEF Project!Events, Project!Bounds
<1>3. IsFiniteSet(Before(m)) /\ IsFiniteSet(Before(e))
  BY <1>1, <1>2, FS_Subset
<1>4. Before(e) \subseteq Before(m)
  BY <1>1
<1>5. Cardinality(Before(e)) <= Cardinality(Before(m))
  BY <1>3, <1>4, FS_Subset
<1>6. \A x : x \in Project!Batch <=> x \in Project!Undreamed /\ Cardinality(Before(x)) < Limit
  BY SameCount, Zenon DEF Project!Batch
<1>7. Cardinality(Before(e)) \in Nat /\ Cardinality(Before(m)) \in Nat
  BY <1>3, FS_CardinalityType
<1>8. Cardinality(Before(e)) < Limit
  BY <1>5, <1>6, <1>7, Erasing DEF Project!Bounds
<1>9. QED
  BY <1>6, <1>8

-----------------------------------------------------------------------------
(* The ledger, its cursor and the runs over it.                              *)

LedgerInv == /\ Project!TypeOK /\ ClockInv /\ ReadInv /\ WholeInv /\ Project!CursorSkipsNothing

LEMMA RecordStep ==
  ASSUME ErasureInv, NEW e \in Project!Events, Project!Record(e)
  PROVE  ErasureInv'
<1> USE DEF ErasureInv
<1>1. /\ seq[e] = 0 /\ e \notin ledger /\ ledger' = ledger \cup {e} /\ counter' = counter + 1
      /\ seq' = [seq EXCEPT ![e] = counter + 1]
      /\ UNCHANGED <<ignored, episodes, frames, candidates, cursor, dreamed, tick, runs, erasures, restarts>>
  BY DEF Project!Record, ClockInv, EverRecorded, Project!derived, Project!cursorVars, Project!bounds
<1>2. /\ counter \in Nat /\ cursor \in Nat /\ seq \in [Project!Events -> Nat]
      /\ seq'[e] = counter + 1 /\ \A f \in Project!Events \ {e} : seq'[f] = seq[f]
  BY <1>1 DEF Project!TypeOK
<1>3. Project!TypeOK'
  BY <1>1, <1>2 DEF Project!TypeOK, Project!Record
<1>4. ClockInv' /\ EverRecorded \subseteq EverRecorded' /\ e \notin EverRecorded
  BY <1>1, <1>2 DEF ClockInv, EverRecorded
<1>5. \A S : Whole(S) => Whole(S)'
  BY <1>1, <1>4 DEF Whole
<1>6. WholeInv'
  BY <1>1, <1>5 DEF WholeInv
<1>7. ReadInv'
  <2> SUFFICES ASSUME NEW r \in Runners, NEW m \in Project!Events, NEW f \in ledger',
                      m \in runs[r], seq'[f] <= seq'[m]
               PROVE  f \in dreamed \cup runs[r]
    BY <1>1 DEF ReadInv
  <2>1. m # e /\ seq'[m] <= counter
    BY <1>2, <1>4 DEF WholeInv, Whole, ClockInv
  <2>2. f # e
    BY <1>2, <2>1
  <2>3. f \in ledger /\ seq[f] <= seq[m] /\ f \in Project!Events
    BY <1>1, <1>2, <2>1, <2>2 DEF Project!TypeOK
  <2>4. QED
    BY <2>3 DEF ReadInv
<1>8. Project!CursorSkipsNothing'
  <2> SUFFICES ASSUME NEW f \in ledger', seq'[f] <= cursor PROVE f \in dreamed
    BY <1>1 DEF Project!CursorSkipsNothing
  <2>1. f # e
    BY <1>2 DEF ClockInv
  <2>2. QED
    BY <1>1, <1>2, <2>1 DEF Project!CursorSkipsNothing, Project!TypeOK
<1>9. TickInv' /\ StagedInv' /\ Project!LinksAreInLedger' /\ Project!ShownRestsOnLedger'
  BY <1>1 DEF TickInv, StagedInv, Project!LinksAreInLedger, Project!ShownRestsOnLedger, Was
<1>10. QED
  BY <1>3, <1>4, <1>6, <1>7, <1>8, <1>9

LEMMA ReadStep ==
  ASSUME ErasureInv, NEW r \in Runners, Project!Read(r)
  PROVE  ErasureInv'
<1> USE DEF ErasureInv
<1>1. /\ runs' = [runs EXCEPT ![r] = Project!Batch]
      /\ UNCHANGED <<ledger, seq, counter, turns, ignored, episodes, frames, candidates, cursor,
                     dreamed, tick, erasures, restarts>>
  BY DEF Project!Read, Project!ledgerVars, Project!episodeVars, Project!derived, Project!cursorVars, Project!bounds
<1>2. Project!Batch \subseteq ledger /\ Project!Batch \subseteq Project!Events
  BY DEF Project!Batch, Project!Undreamed, Project!TypeOK
<1>3. runs' \in [Runners -> SUBSET Project!Events] /\ runs'[r] = Project!Batch /\ \A s \in Runners \ {r} : runs'[s] = runs[s]
  BY <1>1, <1>2 DEF Project!TypeOK
<1>4. Project!TypeOK' /\ ClockInv' /\ Project!CursorSkipsNothing'
  BY <1>1, <1>3 DEF Project!TypeOK, ClockInv, Project!CursorSkipsNothing, EverRecorded
<1>5. TickInv' /\ StagedInv' /\ Project!LinksAreInLedger' /\ Project!ShownRestsOnLedger'
  BY <1>1 DEF TickInv, StagedInv, Project!LinksAreInLedger, Project!ShownRestsOnLedger, Was
<1>6. \A S : Whole(S)' <=> Whole(S)
  BY <1>1 DEF Whole, EverRecorded
<1>7. Whole(Project!Batch)
  BY <1>2 DEF Whole, ClockInv
<1>8. WholeInv'
  BY <1>1, <1>3, <1>6, <1>7 DEF WholeInv
<1>9. ReadInv'
  <2> SUFFICES ASSUME NEW s \in Runners, NEW m \in Project!Events, NEW e \in ledger,
                      m \in runs'[s], seq[e] <= seq[m]
               PROVE  e \in dreamed \cup runs'[s]
    BY <1>1 DEF ReadInv
  <2>1. CASE s # r
    BY <1>3, <2>1 DEF ReadInv
  <2>2. CASE s = r /\ e \in Project!Undreamed
    BY <1>3, <2>2, BatchIsDense
  <2>3. CASE e \notin Project!Undreamed
    <3>1. seq[e] \in Nat /\ cursor \in Nat /\ ~(seq[e] > cursor)
      BY <2>3 DEF Project!TypeOK, Project!Undreamed
    <3>2. QED
      BY <3>1 DEF Project!CursorSkipsNothing
  <2>4. QED
    BY <2>1, <2>2, <2>3
<1>10. QED
  BY <1>4, <1>5, <1>8, <1>9

LEMMA AnswerStep ==
  ASSUME ErasureInv, NEW r \in Runners, Project!Answer(r)
  PROVE  ErasureInv'
<1> USE DEF ErasureInv
<1> DEFINE new == [ep |-> Project!Direct, events |-> runs[r], status |-> "candidate"]
<1>1. /\ runs[r] # {} /\ candidates' = candidates \cup {new}
      /\ cursor' = Project!Max0(Project!Seqs(runs[r])) /\ dreamed' = dreamed \cup runs[r]
      /\ runs' = [runs EXCEPT ![r] = {}]
      /\ UNCHANGED <<ledger, seq, counter, turns, ignored, episodes, frames, tick, erasures, restarts>>
  BY DEF Project!Answer, Project!ledgerVars, Project!episodeVars, Project!bounds
<1>2. runs[r] \subseteq Project!Events
  BY DEF Project!TypeOK
<1>3. cursor' \in Nat /\ cursor' <= counter /\ \E m \in runs[r] : cursor' = seq[m]
  BY <1>1, <1>2, LatestOf
<1>4. runs' \in [Runners -> SUBSET Project!Events] /\ runs'[r] = {} /\ \A s \in Runners \ {r} : runs'[s] = runs[s]
  BY <1>1 DEF Project!TypeOK
<1>5. candidates' \subseteq [ep : Project!Episodes \cup {Project!Direct}, events : SUBSET Project!Events, status : Project!CandidateStatus]
  BY <1>1, <1>2 DEF Project!TypeOK, Project!CandidateStatus
<1>6. Project!TypeOK' /\ ClockInv'
  BY <1>1, <1>2, <1>3, <1>4, <1>5 DEF Project!TypeOK, ClockInv, EverRecorded
<1>7. \A S : Whole(S)' <=> Whole(S)
  BY <1>1 DEF Whole, EverRecorded
<1>8. Whole({}) /\ new.events = runs[r] /\ new.ep = Project!Direct /\ new.status = "candidate"
  BY DEF Whole
<1>9. WholeInv'
  BY <1>1, <1>4, <1>7, <1>8 DEF WholeInv
<1>10. ReadInv'
  BY <1>1, <1>4 DEF ReadInv
<1>11. Project!CursorSkipsNothing'
  BY <1>1, <1>2, <1>3 DEF Project!CursorSkipsNothing, ReadInv
<1>12. StagedInv'
  BY <1>1, <1>8 DEF StagedInv, Was
<1>13. Project!ShownRestsOnLedger'
  BY <1>1, <1>8 DEF Project!ShownRestsOnLedger
<1>14. TickInv' /\ Project!LinksAreInLedger'
  BY <1>1 DEF TickInv, Project!LinksAreInLedger, Was
<1>15. QED
  BY <1>6, <1>9, <1>10, <1>11, <1>12, <1>13, <1>14

\* A step that leaves the ledger, its cursor and the runs over it.
LEMMA LedgerKept ==
  ASSUME ErasureInv, UNCHANGED <<ledger, seq, counter, cursor, dreamed, runs>>
  PROVE  /\ ClockInv' /\ ReadInv' /\ Project!CursorSkipsNothing'
         /\ \A S : Whole(S)' <=> Whole(S)
  BY DEF ErasureInv, ClockInv, ReadInv, Project!CursorSkipsNothing, Whole, EverRecorded

-----------------------------------------------------------------------------
(* Rows that change their status.                                            *)

Rows(E, S) == [ep : E, events : SUBSET Project!Events, status : S]

\* What becomes of the rows: every one is still there, some with the status to.
Restated(rows, new, to) ==
  \A row \in new : \E old \in rows :
    /\ row.ep = old.ep /\ row.events = old.events
    /\ row.status = old.status \/ (old.status = "staged" /\ row.status = to)

\* ... the rows of the tick's episode alone.
RestatedHere(rows, new, to) ==
  \A row \in new : \E old \in rows :
    /\ row.ep = old.ep /\ row.events = old.events
    /\ row.status = old.status \/ (old.ep = tick.ep /\ old.status = "staged" /\ row.status = to)

LEMMA OneRestated ==
  ASSUME NEW E, NEW S, NEW row \in Rows(E, S), NEW to \in S
  PROVE  /\ [row EXCEPT !.status = to] \in Rows(E, S)
         /\ [row EXCEPT !.status = to].ep = row.ep /\ [row EXCEPT !.status = to].events = row.events
         /\ [row EXCEPT !.status = to].status = to
  BY DEF Rows

LEMMA MovedRestates ==
  ASSUME NEW E, NEW S, NEW rows \in SUBSET Rows(E, S), NEW to \in S
  PROVE  /\ Project!Moved(rows, to) \subseteq Rows(E, S)
         /\ RestatedHere(rows, Project!Moved(rows, to), to) /\ Restated(rows, Project!Moved(rows, to), to)
<1>1. ASSUME NEW row \in Project!Moved(rows, to)
      PROVE  /\ row \in Rows(E, S)
             /\ \E old \in rows :
                  /\ row.ep = old.ep /\ row.events = old.events
                  /\ row.status = old.status \/ (old.ep = tick.ep /\ old.status = "staged" /\ row.status = to)
  <2>1. PICK old \in rows :
          row = IF old.ep = tick.ep /\ old.status = "staged" THEN [old EXCEPT !.status = to] ELSE old
    BY <1>1 DEF Project!Moved
  <2>2. QED
    BY <2>1, OneRestated
<1>2. QED
  BY <1>1 DEF Restated, RestatedHere

LEMMA WithdrawnRestates ==
  ASSUME NEW E, NEW S, NEW rows \in SUBSET Rows(E, S), NEW to \in S
  PROVE  Project!Withdrawn(rows, to) \subseteq Rows(E, S) /\ Restated(rows, Project!Withdrawn(rows, to), to)
<1>1. ASSUME NEW row \in Project!Withdrawn(rows, to)
      PROVE  /\ row \in Rows(E, S)
             /\ \E old \in rows :
                  /\ row.ep = old.ep /\ row.events = old.events
                  /\ row.status = old.status \/ (old.status = "staged" /\ row.status = to)
  <2>1. PICK old \in rows :
          row = IF old.status = "staged" /\ old.ep # Project!Direct THEN [old EXCEPT !.status = to] ELSE old
    BY <1>1 DEF Project!Withdrawn
  <2>2. QED
    BY <2>1, OneRestated
<1>2. QED
  BY <1>1 DEF Restated

\* Withdrawing shows nothing.
LEMMA Withdrawing ==
  ASSUME ErasureInv, Restated(frames, frames', "failed"), Restated(candidates, candidates', "superseded"),
         UNCHANGED <<ledger, seq>>, \A ep \in Project!Episodes : episodes'[ep].status = episodes[ep].status
  PROVE  /\ StagedInv' /\ Project!ShownRestsOnLedger'
         /\ \A c \in candidates' : Whole(c.events)
<1> USE DEF ErasureInv
<1>1. \A row \in frames \cup candidates : row.ep # Project!Direct => row.ep \in Project!Episodes
  BY DEF Project!TypeOK
<1>2. ASSUME NEW row \in frames' \cup candidates', row.ep # Project!Direct
      PROVE  /\ Was(row.ep)'
             /\ row.status = "staged" /\ episodes'[row.ep].status = "sealed" => row.events \subseteq ledger
  <2>1. PICK old \in frames \cup candidates :
          /\ row.ep = old.ep /\ row.events = old.events
          /\ row.status = old.status \/ row.status \in {"failed", "superseded"}
    BY <1>2 DEF Restated
  <2>2. QED
    BY <1>1, <1>2, <2>1 DEF StagedInv, Was
<1>3. StagedInv'
  BY <1>2 DEF StagedInv
<1>4. Project!ShownRestsOnLedger'
  BY DEF Project!ShownRestsOnLedger, Restated
<1>5. \A c \in candidates' : Whole(c.events)
  BY DEF WholeInv, Restated
<1>6. QED
  BY <1>3, <1>4, <1>5

FrameRows == Rows(Project!Episodes, Project!FrameStatus)
CandidateRows == Rows(Project!Episodes \cup {Project!Direct}, Project!CandidateStatus)

LEMMA ErasureRows == Project!TypeOK => frames \subseteq FrameRows /\ candidates \subseteq CandidateRows
  BY DEF Project!TypeOK, FrameRows, CandidateRows, Rows

EpisodeType == [status : Project!EpisodeStatus, links : SUBSET Project!Events, job : Project!JobState]
TickType == [at : Project!Stage, jobs : SUBSET Project!Episodes, ep : Project!Episodes \cup {Project!Direct}, events : SUBSET Project!Events]

\* The types that a tick disturbs.
LEMMA TypesOf ==
  ASSUME Project!TypeOK, UNCHANGED <<ledger, seq, counter, turns, ignored, cursor, dreamed, runs, erasures, restarts>>,
         episodes' \in [Project!Episodes -> EpisodeType],
         \A ep \in Project!Episodes : episodes'[ep].status = episodes[ep].status /\ episodes'[ep].links = episodes[ep].links
           /\ (episodes[ep].job = "none" => episodes'[ep].job = "none"),
         frames' \subseteq FrameRows, candidates' \subseteq CandidateRows, tick' \in TickType
  PROVE  Project!TypeOK' /\ (Project!LinksAreInLedger => Project!LinksAreInLedger')
<1>1. \A ep \in Project!Episodes : episodes'[ep].status \in {"unused", "erased"} =>
        episodes'[ep].links = {} /\ episodes'[ep].job = "none"
  <2>1. \A ep \in Project!Episodes : episodes[ep].status \in {"unused", "erased"} =>
          episodes[ep].links = {} /\ episodes[ep].job = "none"
    BY DEF Project!TypeOK
  <2>2. QED
    BY <2>1
<1>2. /\ ledger' \subseteq Project!Events /\ turns' \subseteq Project!Events /\ ignored' \subseteq Project!Events
      /\ dreamed' \subseteq Project!Events
      /\ seq' \in [Project!Events -> Nat] /\ counter' \in Nat /\ cursor' \in Nat
      /\ runs' \in [Runners -> SUBSET Project!Events]
      /\ erasures' \in 0..MaxErasures /\ restarts' \in 0..MaxRestarts
  BY DEF Project!TypeOK
<1>3. Project!TypeOK'
  BY <1>1, <1>2 DEF Project!TypeOK, EpisodeType, FrameRows, CandidateRows, Rows, TickType
<1>4. QED
  BY <1>3 DEF Project!LinksAreInLedger

-----------------------------------------------------------------------------
(* Turns.                                                                    *)

LEMMA TurnStep ==
  ASSUME ErasureInv, NEW e \in Project!Events, Project!Refuse(e) \/ Project!Ignore(e)
  PROVE  ErasureInv'
<1> USE DEF ErasureInv
<1>1. /\ UNCHANGED <<ledger, seq, counter, cursor, dreamed, runs, episodes, frames, candidates, tick,
                     erasures, restarts>>
      /\ turns' \subseteq Project!Events /\ ignored' \subseteq Project!Events
  BY DEF Project!Refuse, Project!Ignore, Project!ledgerVars, Project!derived, Project!cursorVars, Project!bounds, Project!TypeOK
<1>2. Project!TypeOK'
  BY <1>1 DEF Project!TypeOK
<1>3. /\ ClockInv' /\ ReadInv' /\ Project!CursorSkipsNothing' /\ \A S : Whole(S)' <=> Whole(S)
  BY <1>1, LedgerKept
<1>4. WholeInv' /\ TickInv' /\ StagedInv' /\ Project!LinksAreInLedger' /\ Project!ShownRestsOnLedger'
  BY <1>1, <1>3 DEF WholeInv, TickInv, StagedInv, Project!LinksAreInLedger, Project!ShownRestsOnLedger, Was
<1>5. QED
  BY <1>2, <1>3, <1>4

LEMMA AssignStep ==
  ASSUME ErasureInv, NEW e \in Project!Events, NEW ep \in Project!Episodes, NEW closes \in BOOLEAN, Project!Assign(e, ep, closes)
  PROVE  ErasureInv'
<1> USE DEF ErasureInv
<1> DEFINE new == [status |-> IF closes THEN "sealed" ELSE "open", links |-> episodes[ep].links \cup {e},
                   job |-> IF closes THEN "pending" ELSE "none"]
<1>1. /\ e \in ledger /\ episodes[ep].status \in {"open", "unused"}
      /\ turns' = turns \ {e} /\ episodes' = [episodes EXCEPT ![ep] = new]
      /\ UNCHANGED <<ledger, seq, counter, cursor, dreamed, runs, ignored, frames, candidates, tick,
                     erasures, restarts>>
  BY DEF Project!Assign, Project!Linkable, Project!Targets, Project!ledgerVars, Project!derived, Project!cursorVars, Project!bounds
<1>2. new \in EpisodeType /\ new.status \in {"sealed", "open"} /\ new.links = episodes[ep].links \cup {e}
  BY DEF Project!TypeOK, EpisodeType, Project!EpisodeStatus, Project!JobState
<1> HIDE DEF new
<1>3. /\ episodes' \in [Project!Episodes -> EpisodeType] /\ episodes'[ep] = new
      /\ \A x \in Project!Episodes \ {ep} : episodes'[x] = episodes[x]
  BY <1>1, <1>2 DEF Project!TypeOK, EpisodeType
<1>4. Project!TypeOK'
  <2>1. \A x \in Project!Episodes : episodes'[x].status \in {"unused", "erased"} =>
          episodes'[x].links = {} /\ episodes'[x].job = "none"
    BY <1>2, <1>3 DEF Project!TypeOK
  <2>2. QED
    BY <1>1, <1>3, <2>1 DEF Project!TypeOK, EpisodeType
<1>5. /\ ClockInv' /\ ReadInv' /\ Project!CursorSkipsNothing' /\ \A S : Whole(S)' <=> Whole(S)
  BY <1>1, LedgerKept
<1>6. \A x : Was(x) => x # ep
  BY <1>1 DEF Was
<1>7. tick.jobs \subseteq Project!Episodes /\ tick.ep \in Project!Episodes \cup {Project!Direct}
      /\ \A row \in frames \cup candidates : row.ep # Project!Direct => row.ep \in Project!Episodes
  BY DEF Project!TypeOK
<1>8. TickInv'
  BY <1>1, <1>3, <1>6, <1>7 DEF TickInv, Was
<1>9. StagedInv'
  BY <1>1, <1>3, <1>6, <1>7 DEF StagedInv, Was
<1>10. Project!LinksAreInLedger'
  BY <1>1, <1>2, <1>3 DEF Project!LinksAreInLedger
<1>11. WholeInv' /\ Project!ShownRestsOnLedger'
  BY <1>1, <1>5 DEF WholeInv, Project!ShownRestsOnLedger
<1>12. QED
  BY <1>4, <1>5, <1>8, <1>9, <1>10, <1>11

-----------------------------------------------------------------------------
(* The tick.                                                                 *)

LEMMA ClaimStep ==
  ASSUME ErasureInv, NEW expired \in BOOLEAN, Project!Claim(expired)
  PROVE  ErasureInv'
<1> USE DEF ErasureInv
<1>1. PICK claimed \in SUBSET {ep \in Project!Episodes : episodes[ep].status = "sealed" /\ episodes[ep].job # "none"} :
        /\ episodes' = [ep \in Project!Episodes |->
             IF ep \in claimed THEN [episodes[ep] EXCEPT !.job = "processing"] ELSE episodes[ep]]
        /\ tick' = [Project!NoTick EXCEPT !.at = "next", !.jobs = claimed]
  BY DEF Project!Claim
<1>2. UNCHANGED <<ledger, seq, counter, turns, ignored, cursor, dreamed, runs, erasures, restarts>>
  BY DEF Project!Claim, Project!ledgerVars, Project!cursorVars, Project!bounds
<1>3. /\ tick' \in TickType /\ tick'.at = "next" /\ tick'.jobs = claimed /\ tick'.ep = Project!Direct /\ tick'.events = {}
  BY <1>1 DEF Project!NoTick, TickType, Project!Stage
<1>4. \A row \in EpisodeType : /\ [row EXCEPT !.job = "processing"] \in EpisodeType
                               /\ [row EXCEPT !.job = "processing"].status = row.status
                               /\ [row EXCEPT !.job = "processing"].links = row.links
  BY DEF EpisodeType, Project!JobState
<1>5. /\ episodes' \in [Project!Episodes -> EpisodeType]
      /\ \A ep \in Project!Episodes : episodes'[ep].status = episodes[ep].status /\ episodes'[ep].links = episodes[ep].links
      /\ \A ep \in Project!Episodes : ep \notin claimed => episodes'[ep] = episodes[ep]
  <2>1. \A ep \in Project!Episodes : episodes[ep] \in EpisodeType
    BY DEF Project!TypeOK, EpisodeType
  <2>2. QED
    BY <1>1, <1>4, <2>1
<1>6. /\ frames' \subseteq FrameRows /\ candidates' \subseteq CandidateRows
      /\ Restated(frames, frames', "failed") /\ Restated(candidates, candidates', "superseded")
  <2>1. frames \subseteq FrameRows /\ candidates \subseteq CandidateRows
    BY ErasureRows
  <2>2. CASE ~expired
    BY <2>1, <2>2 DEF Project!Claim, Restated
  <2>3. CASE expired
    BY <2>1, <2>3, WithdrawnRestates DEF Project!Claim, FrameRows, CandidateRows, Project!FrameStatus, Project!CandidateStatus
  <2>4. QED
    BY <2>2, <2>3
<1>7. /\ StagedInv' /\ Project!ShownRestsOnLedger' /\ \A c \in candidates' : Whole(c.events)
  BY <1>2, <1>5, <1>6, Withdrawing
<1>8. /\ ClockInv' /\ ReadInv' /\ Project!CursorSkipsNothing' /\ \A S : Whole(S)' <=> Whole(S)
  BY <1>2, LedgerKept
<1>9. WholeInv'
  BY <1>2, <1>3, <1>7, <1>8 DEF WholeInv, Whole
<1>10. TickInv'
  BY <1>3, <1>5 DEF TickInv, Was
<1>11. Project!TypeOK' /\ Project!LinksAreInLedger'
  BY <1>2, <1>3, <1>5, <1>6, TypesOf
<1>12. QED
  BY <1>7, <1>8, <1>9, <1>10, <1>11

\* A step of the tick that stages nothing and moves nothing.
LEMMA TickMoves ==
  ASSUME ErasureInv, UNCHANGED <<Project!ledgerVars, Project!episodeVars, Project!derived, Project!cursorVars, runs, Project!bounds>>,
         tick' \in TickType, TickInv', Whole(tick'.events)
  PROVE  ErasureInv'
<1> USE DEF ErasureInv
<1>1. UNCHANGED <<ledger, seq, counter, turns, ignored, episodes, frames, candidates, cursor, dreamed,
                  runs, erasures, restarts>>
  BY DEF Project!ledgerVars, Project!episodeVars, Project!derived, Project!cursorVars, Project!bounds
<1>2. Project!TypeOK'
  BY <1>1 DEF Project!TypeOK, TickType
<1>3. /\ ClockInv' /\ ReadInv' /\ Project!CursorSkipsNothing' /\ \A S : Whole(S)' <=> Whole(S)
  BY <1>1, LedgerKept
<1>4. WholeInv' /\ StagedInv' /\ Project!LinksAreInLedger' /\ Project!ShownRestsOnLedger'
  BY <1>1, <1>3 DEF WholeInv, StagedInv, Project!LinksAreInLedger, Project!ShownRestsOnLedger, Was
<1>5. QED
  BY <1>2, <1>3, <1>4

LEMMA CurateStep ==
  ASSUME ErasureInv, NEW ep \in Project!Episodes, Project!Curate(ep)
  PROVE  ErasureInv'
<1> USE DEF ErasureInv
<1> DEFINE events == episodes[ep].links \cap ledger
           at == IF events = {} THEN "complete" ELSE "frame"
<1>1. /\ ep \in tick.jobs
      /\ tick' = [tick EXCEPT !.jobs = tick.jobs \ {ep}, !.ep = ep, !.events = events, !.at = at]
      /\ UNCHANGED <<Project!ledgerVars, Project!episodeVars, Project!derived, Project!cursorVars, runs, Project!bounds>>
  BY DEF Project!Curate
<1>2. events \subseteq ledger /\ events \subseteq Project!Events /\ at \in Project!Stage /\ tick \in TickType /\ ep # Project!Direct
  BY DEF Project!TypeOK, TickType, Project!Stage, Project!Episodes, Project!Direct
<1> HIDE DEF events, at
<1>3. /\ tick' \in TickType /\ tick'.jobs \subseteq tick.jobs /\ tick'.ep = ep /\ tick'.events = events
  BY <1>1, <1>2 DEF TickType
<1>4. UNCHANGED <<ledger, episodes>>
  BY <1>1 DEF Project!ledgerVars, Project!episodeVars
<1>5. TickInv'
  BY <1>1, <1>2, <1>3, <1>4 DEF TickInv, Was
<1>6. Whole(events)
  BY <1>2 DEF Whole, ClockInv
<1>7. QED
  BY <1>1, <1>3, <1>5, <1>6, TickMoves

LEMMA FinishStep ==
  ASSUME ErasureInv, Project!Finish
  PROVE  ErasureInv'
<1>1. /\ tick' = Project!NoTick /\ UNCHANGED <<Project!ledgerVars, Project!episodeVars, Project!derived, Project!cursorVars, runs, Project!bounds>>
  BY DEF Project!Finish
<1>2. tick' \in TickType /\ Whole(tick'.events) /\ TickInv'
  BY <1>1 DEF Project!NoTick, TickType, Project!Stage, Whole, TickInv, Project!Direct
<1>3. QED
  BY <1>1, <1>2, TickMoves

LEMMA StageFields ==
  ASSUME Project!TypeOK, NEW at \in Project!Stage, tick' = [tick EXCEPT !.at = at]
  PROVE  /\ tick' \in TickType /\ tick'.at = at
         /\ tick'.jobs = tick.jobs /\ tick'.ep = tick.ep /\ tick'.events = tick.events
  BY DEF Project!TypeOK, TickType

\* The answers of the models are staged, for the episode of the tick.
LEMMA StagingStep ==
  ASSUME ErasureInv, Project!Proposed \/ \E answered \in BOOLEAN : Project!Framed(answered)
  PROVE  ErasureInv'
<1> USE DEF ErasureInv
<1> DEFINE new == [ep |-> tick.ep, events |-> tick.events, status |-> "staged"]
<1>1. /\ tick.at \in {"frame", "candidates"}
      /\ frames' \subseteq frames \cup {new} /\ candidates' \subseteq candidates \cup {new}
      /\ \/ tick' = [tick EXCEPT !.at = "candidates"] \/ tick' = [tick EXCEPT !.at = "complete"]
      /\ UNCHANGED <<ledger, seq, counter, turns, ignored, episodes, cursor, dreamed, runs, erasures, restarts>>
  BY DEF Project!Proposed, Project!Framed, Project!ledgerVars, Project!episodeVars, Project!cursorVars, Project!bounds
<1>2. /\ tick' \in TickType /\ tick'.at \in {"candidates", "complete"} /\ tick'.jobs = tick.jobs
      /\ tick'.ep = tick.ep /\ tick'.events = tick.events
  BY <1>1, StageFields DEF Project!Stage
<1>3. tick.ep \in Project!Episodes /\ tick.events \subseteq Project!Events /\ tick.ep # Project!Direct
  BY <1>1 DEF Project!TypeOK, TickInv
<1>4. /\ new \in FrameRows /\ new \in CandidateRows
      /\ new.ep = tick.ep /\ new.events = tick.events /\ new.status = "staged"
  BY <1>3 DEF FrameRows, CandidateRows, Rows, Project!FrameStatus, Project!CandidateStatus
<1> HIDE DEF new
<1>5. frames' \subseteq FrameRows /\ candidates' \subseteq CandidateRows
  BY <1>1, <1>4, ErasureRows
<1>6. Project!TypeOK' /\ Project!LinksAreInLedger'
  BY <1>1, <1>2, <1>5, TypesOf DEF Project!TypeOK, EpisodeType
<1>7. /\ ClockInv' /\ ReadInv' /\ Project!CursorSkipsNothing' /\ \A S : Whole(S)' <=> Whole(S)
  BY <1>1, LedgerKept
<1>8. WholeInv'
  BY <1>1, <1>2, <1>4, <1>7 DEF WholeInv
<1>9. TickInv'
  BY <1>1, <1>2, <1>3 DEF TickInv, Was
<1>10. StagedInv'
  BY <1>1, <1>3, <1>4 DEF StagedInv, TickInv, Was
<1>11. Project!ShownRestsOnLedger'
  BY <1>1, <1>4 DEF Project!ShownRestsOnLedger
<1>12. QED
  BY <1>6, <1>7, <1>8, <1>9, <1>10, <1>11

\* The job of the tick's episode changes, and nothing else of the episode.
LEMMA JobFields ==
  ASSUME Project!TypeOK, tick.ep \in Project!Episodes, NEW j \in Project!JobState,
         episodes[tick.ep].job = "none" => j = "none",
         episodes' = [episodes EXCEPT ![tick.ep].job = j]
  PROVE  /\ episodes' \in [Project!Episodes -> EpisodeType]
         /\ \A ep \in Project!Episodes : /\ episodes'[ep].status = episodes[ep].status
                                         /\ episodes'[ep].links = episodes[ep].links
                                         /\ episodes[ep].job = "none" => episodes'[ep].job = "none"
<1>1. \A row \in EpisodeType : /\ [row EXCEPT !.job = j] \in EpisodeType
                               /\ [row EXCEPT !.job = j].status = row.status
                               /\ [row EXCEPT !.job = j].links = row.links
                               /\ [row EXCEPT !.job = j].job = j
  BY DEF EpisodeType
<1>2. \A ep \in Project!Episodes : episodes[ep] \in EpisodeType
  BY DEF Project!TypeOK, EpisodeType
<1> DEFINE new == [episodes[tick.ep] EXCEPT !.job = j]
<1>3. episodes' = [episodes EXCEPT ![tick.ep] = new] /\ episodes \in [Project!Episodes -> EpisodeType]
  BY DEF Project!TypeOK, EpisodeType
<1>4. new \in EpisodeType /\ new.status = episodes[tick.ep].status /\ new.links = episodes[tick.ep].links
      /\ new.job = j
  BY <1>1, <1>2
<1> HIDE DEF new
<1>5. /\ episodes' \in [Project!Episodes -> EpisodeType] /\ episodes'[tick.ep] = new
      /\ \A ep \in Project!Episodes \ {tick.ep} : episodes'[ep] = episodes[ep]
  BY <1>3, <1>4
<1>6. QED
  BY <1>4, <1>5

\* What an episode's tick publishes rests on the ledger: the episode has not been erased.
LEMMA CompleteStep ==
  ASSUME ErasureInv, NEW shown \in {"active", "needs_confirmation"}, Project!Complete(shown)
  PROVE  ErasureInv'
<1> USE DEF ErasureInv
<1>1. /\ tick.at = "complete" /\ episodes[tick.ep].status = "sealed" /\ episodes[tick.ep].job = "processing"
      /\ frames' = Project!Moved(frames, shown) /\ candidates' = Project!Moved(candidates, "candidate")
      /\ episodes' = [episodes EXCEPT ![tick.ep].job = "processed"]
      /\ tick' = [tick EXCEPT !.at = "next"]
      /\ UNCHANGED <<ledger, seq, counter, turns, ignored, cursor, dreamed, runs, erasures, restarts>>
  BY DEF Project!Complete, Project!Commits, Project!Held, Project!ledgerVars, Project!cursorVars, Project!bounds
<1>2. /\ tick' \in TickType /\ tick'.at = "next" /\ tick'.jobs = tick.jobs
      /\ tick'.ep = tick.ep /\ tick'.events = tick.events
  BY <1>1, StageFields DEF Project!Stage
<1>3. tick.ep \in Project!Episodes /\ tick.ep # Project!Direct
  BY <1>1 DEF Project!TypeOK, TickInv
<1>4. /\ episodes' \in [Project!Episodes -> EpisodeType]
      /\ \A ep \in Project!Episodes : /\ episodes'[ep].status = episodes[ep].status
                                      /\ episodes'[ep].links = episodes[ep].links
                                      /\ episodes[ep].job = "none" => episodes'[ep].job = "none"
  BY <1>1, <1>3, JobFields DEF Project!JobState
<1>5. /\ frames' \subseteq FrameRows /\ candidates' \subseteq CandidateRows
      /\ RestatedHere(frames, frames', shown) /\ RestatedHere(candidates, candidates', "candidate")
  <2>1. /\ frames \in SUBSET FrameRows /\ shown \in Project!FrameStatus
        /\ candidates \in SUBSET CandidateRows /\ "candidate" \in Project!CandidateStatus
    BY ErasureRows DEF Project!FrameStatus, Project!CandidateStatus
  <2>2. frames' \subseteq FrameRows /\ RestatedHere(frames, frames', shown)
    BY <1>1, <2>1, MovedRestates DEF FrameRows
  <2>3. candidates' \subseteq CandidateRows /\ RestatedHere(candidates, candidates', "candidate")
    BY <1>1, <2>1, MovedRestates DEF CandidateRows
  <2>4. QED
    BY <2>2, <2>3
<1>6. \A row \in frames \cup candidates : row.ep # Project!Direct => row.ep \in Project!Episodes
  BY DEF Project!TypeOK
<1>7. Project!TypeOK' /\ Project!LinksAreInLedger'
  BY <1>1, <1>2, <1>4, <1>5, TypesOf
<1>8. /\ ClockInv' /\ ReadInv' /\ Project!CursorSkipsNothing' /\ \A S : Whole(S)' <=> Whole(S)
  BY <1>1, LedgerKept
<1>9. WholeInv'
  BY <1>1, <1>2, <1>5, <1>8 DEF WholeInv, RestatedHere
<1>10. TickInv'
  <2>1. tick.jobs \subseteq Project!Episodes /\ \A ep \in Project!Episodes : Was(ep)' <=> Was(ep)
    BY <1>4 DEF Project!TypeOK, Was
  <2>2. QED
    BY <1>1, <1>2, <1>3, <1>4, <2>1 DEF TickInv
<1>11. StagedInv'
  <2> SUFFICES ASSUME NEW row \in frames' \cup candidates', row.ep # Project!Direct
               PROVE  /\ Was(row.ep)'
                      /\ row.status = "staged" /\ episodes'[row.ep].status = "sealed" => row.events \subseteq ledger
    BY <1>1 DEF StagedInv
  <2>1. PICK old \in frames \cup candidates :
          /\ row.ep = old.ep /\ row.events = old.events
          /\ row.status = old.status \/ row.status # "staged"
    BY <1>5 DEF RestatedHere
  <2>2. QED
    BY <1>4, <1>6, <2>1 DEF StagedInv, Was
<1>12. \A old \in frames \cup candidates : old.ep = tick.ep /\ old.status = "staged" => old.events \subseteq ledger
  BY <1>1, <1>3 DEF StagedInv
<1>13. Project!ShownRestsOnLedger'
  BY <1>1, <1>5, <1>12 DEF Project!ShownRestsOnLedger, RestatedHere
<1>14. QED
  BY <1>7, <1>8, <1>9, <1>10, <1>11, <1>13

\* A tick that gives up withdraws what it has staged.
LEMMA GiveUpStep ==
  ASSUME ErasureInv, Project!Abort \/ Project!Throw
  PROVE  ErasureInv'
<1> USE DEF ErasureInv
<1> DEFINE j == IF episodes[tick.ep].job = "processing" THEN "failed" ELSE episodes[tick.ep].job
<1>1. /\ tick.at \in {"frame", "candidates", "complete"}
      /\ frames' = Project!Moved(frames, "failed")
      /\ candidates' = Project!Moved(candidates, "superseded") \/ candidates' = candidates
      /\ episodes' = [episodes EXCEPT ![tick.ep].job = j]
      /\ tick' = [tick EXCEPT !.at = "next"]
      /\ UNCHANGED <<ledger, seq, counter, turns, ignored, cursor, dreamed, runs, erasures, restarts>>
  BY DEF Project!Abort, Project!Throw, Project!ledgerVars, Project!cursorVars, Project!bounds
<1>2. /\ tick' \in TickType /\ tick'.at = "next" /\ tick'.jobs = tick.jobs
      /\ tick'.ep = tick.ep /\ tick'.events = tick.events
  BY <1>1, StageFields DEF Project!Stage
<1>3. tick.ep \in Project!Episodes /\ tick.ep # Project!Direct
  BY <1>1 DEF Project!TypeOK, TickInv
<1>4. j \in Project!JobState /\ (episodes[tick.ep].job = "none" => j = "none")
  BY <1>3 DEF Project!TypeOK, Project!JobState
<1> HIDE DEF j
<1>5. /\ episodes' \in [Project!Episodes -> EpisodeType]
      /\ \A ep \in Project!Episodes : /\ episodes'[ep].status = episodes[ep].status
                                      /\ episodes'[ep].links = episodes[ep].links
                                      /\ episodes[ep].job = "none" => episodes'[ep].job = "none"
  BY <1>1, <1>3, <1>4, JobFields
<1>6. /\ frames' \subseteq FrameRows /\ candidates' \subseteq CandidateRows
      /\ Restated(frames, frames', "failed") /\ Restated(candidates, candidates', "superseded")
  <2>1. /\ frames \in SUBSET FrameRows /\ "failed" \in Project!FrameStatus
        /\ candidates \in SUBSET CandidateRows /\ "superseded" \in Project!CandidateStatus
    BY ErasureRows DEF Project!FrameStatus, Project!CandidateStatus
  <2>2. frames' \subseteq FrameRows /\ Restated(frames, frames', "failed")
    BY <1>1, <2>1, MovedRestates DEF FrameRows
  <2>3. CASE candidates' = candidates
    BY <2>1, <2>2, <2>3 DEF Restated
  <2>4. CASE candidates' = Project!Moved(candidates, "superseded")
    BY <2>1, <2>2, <2>4, MovedRestates DEF CandidateRows
  <2>5. QED
    BY <1>1, <2>3, <2>4
<1>7. /\ StagedInv' /\ Project!ShownRestsOnLedger' /\ \A c \in candidates' : Whole(c.events)
  BY <1>1, <1>5, <1>6, Withdrawing
<1>8. Project!TypeOK' /\ Project!LinksAreInLedger'
  BY <1>1, <1>2, <1>5, <1>6, TypesOf
<1>9. /\ ClockInv' /\ ReadInv' /\ Project!CursorSkipsNothing' /\ \A S : Whole(S)' <=> Whole(S)
  BY <1>1, LedgerKept
<1>10. WholeInv'
  BY <1>1, <1>2, <1>7, <1>9 DEF WholeInv
<1>11. TickInv'
  <2>1. tick.jobs \subseteq Project!Episodes /\ \A ep \in Project!Episodes : Was(ep)' <=> Was(ep)
    BY <1>5 DEF Project!TypeOK, Was
  <2>2. QED
    BY <1>1, <1>2, <1>3, <1>5, <2>1 DEF TickInv
<1>12. QED
  BY <1>7, <1>8, <1>9, <1>10, <1>11

-----------------------------------------------------------------------------
(* Governance, erasure, restart.                                             *)

\* Some event of a candidate's evidence is there, so all of it is.
LEMMA PromoteStep ==
  ASSUME ErasureInv, NEW c \in candidates, NEW to \in Project!CandidateStatus, Project!Promote(c, to)
  PROVE  ErasureInv'
<1> USE DEF ErasureInv
<1> DEFINE new == [c EXCEPT !.status = to]
<1>1. /\ candidates' = (candidates \ {c}) \cup {new}
      /\ to = "needs_confirmation" \/ (to = "promoted" /\ c.events \cap ledger # {})
      /\ UNCHANGED <<ledger, seq, counter, turns, ignored, episodes, frames, cursor, dreamed, tick, runs,
                     erasures, restarts>>
  BY DEF Project!Promote, Project!Resolved, Project!ledgerVars, Project!episodeVars, Project!cursorVars, Project!bounds
<1>2. new \in CandidateRows /\ new.ep = c.ep /\ new.events = c.events /\ new.status = to
  <2>1. c \in CandidateRows
    BY ErasureRows
  <2>2. QED
    BY <2>1, OneRestated DEF CandidateRows
<1> HIDE DEF new
<1>3. Project!TypeOK'
  <2>1. candidates' \subseteq CandidateRows
    BY <1>1, <1>2, ErasureRows
  <2>2. QED
    BY <1>1, <2>1 DEF Project!TypeOK, CandidateRows, Rows
<1>4. /\ ClockInv' /\ ReadInv' /\ Project!CursorSkipsNothing' /\ \A S : Whole(S)' <=> Whole(S)
  BY <1>1, LedgerKept
<1>5. WholeInv'
  BY <1>1, <1>2, <1>4 DEF WholeInv
<1>6. StagedInv'
  BY <1>1, <1>2 DEF StagedInv, Was
<1>7. Project!ShownRestsOnLedger'
  BY <1>1, <1>2 DEF Project!ShownRestsOnLedger, WholeInv, Whole
<1>8. TickInv' /\ Project!LinksAreInLedger'
  BY <1>1 DEF TickInv, Project!LinksAreInLedger, Was
<1>9. QED
  BY <1>3, <1>4, <1>5, <1>6, <1>7, <1>8

LEMMA ApproveStep ==
  ASSUME ErasureInv, NEW f \in frames, Project!Approve(f)
  PROVE  ErasureInv'
<1> USE DEF ErasureInv
<1> DEFINE new == [f EXCEPT !.status = "active"]
<1>1. /\ frames' = (frames \ {f}) \cup {new} /\ f.events \subseteq ledger
      /\ UNCHANGED <<ledger, seq, counter, turns, ignored, episodes, candidates, cursor, dreamed, tick, runs,
                     erasures, restarts>>
  BY DEF Project!Approve, Project!ledgerVars, Project!episodeVars, Project!cursorVars, Project!bounds
<1>2. new \in FrameRows /\ new.ep = f.ep /\ new.events = f.events /\ new.status = "active"
  BY ErasureRows, OneRestated DEF FrameRows, Project!FrameStatus
<1> HIDE DEF new
<1>3. Project!TypeOK'
  <2>1. frames' \subseteq FrameRows
    BY <1>1, <1>2, ErasureRows
  <2>2. QED
    BY <1>1, <2>1 DEF Project!TypeOK, FrameRows, Rows
<1>4. /\ ClockInv' /\ ReadInv' /\ Project!CursorSkipsNothing' /\ \A S : Whole(S)' <=> Whole(S)
  BY <1>1, LedgerKept
<1>5. StagedInv' /\ Project!ShownRestsOnLedger'
  BY <1>1, <1>2 DEF StagedInv, Project!ShownRestsOnLedger, Was
<1>6. WholeInv' /\ TickInv' /\ Project!LinksAreInLedger'
  BY <1>1, <1>4 DEF WholeInv, TickInv, Project!LinksAreInLedger, Was
<1>7. QED
  BY <1>3, <1>4, <1>5, <1>6

LEMMA ForgetStep ==
  ASSUME ErasureInv, Project!Forget
  PROVE  ErasureInv'
<1> USE DEF ErasureInv
<1>1. /\ ledger' = {} /\ ignored' = {} /\ frames' = {} /\ candidates' = {} /\ cursor' = 0
      /\ UNCHANGED <<seq, counter, turns, dreamed, tick, runs, restarts>>
      /\ erasures < MaxErasures /\ erasures' = erasures + 1
      /\ episodes' = [ep \in Project!Episodes |->
           IF episodes[ep].status = "unused" THEN Project!NoRow ELSE [Project!NoRow EXCEPT !.status = "erased"]]
  BY DEF Project!Forget
<1>2. /\ episodes' \in [Project!Episodes -> EpisodeType]
      /\ \A ep \in Project!Episodes : /\ episodes'[ep].links = {} /\ episodes'[ep].job = "none"
                                      /\ episodes'[ep].status \in {"unused", "erased"}
                                      /\ episodes[ep].status # "unused" => episodes'[ep].status = "erased"
  BY <1>1 DEF Project!NoRow, EpisodeType, Project!EpisodeStatus, Project!JobState
<1>3. Project!TypeOK'
  BY <1>1, <1>2, Erasing DEF Project!TypeOK, EpisodeType, Project!Bounds
<1>4. ClockInv' /\ ReadInv' /\ Project!CursorSkipsNothing'
  BY <1>1 DEF ClockInv, ReadInv, Project!CursorSkipsNothing, EverRecorded, Project!TypeOK
<1>5. \A S : Whole(S) => Whole(S)'
  BY <1>1 DEF Whole, EverRecorded
<1>6. WholeInv'
  BY <1>1, <1>5 DEF WholeInv
<1>7. TickInv'
  <2>1. tick.jobs \subseteq Project!Episodes /\ (tick.ep # Project!Direct => tick.ep \in Project!Episodes)
    BY DEF Project!TypeOK
  <2>2. \A ep \in Project!Episodes : Was(ep) => episodes'[ep].status = "erased"
    BY <1>2 DEF Was
  <2>3. QED
    BY <1>1, <2>1, <2>2 DEF TickInv, Was
<1>8. StagedInv' /\ Project!LinksAreInLedger' /\ Project!ShownRestsOnLedger'
  BY <1>1, <1>2 DEF StagedInv, Project!LinksAreInLedger, Project!ShownRestsOnLedger
<1>9. QED
  BY <1>3, <1>4, <1>6, <1>7, <1>8

LEMMA RestartStep ==
  ASSUME ErasureInv, Project!Restart
  PROVE  ErasureInv'
<1> USE DEF ErasureInv
<1>1. /\ counter' = counter /\ turns' = {} /\ tick' = Project!NoTick /\ runs' = [r \in Runners |-> {}]
      /\ restarts < MaxRestarts /\ restarts' = restarts + 1
      /\ UNCHANGED <<ledger, seq, ignored, episodes, frames, candidates, cursor, dreamed, erasures>>
  BY ReseedKeeps DEF Project!Restart, Project!derived, Project!cursorVars
<1>2. /\ tick' \in TickType /\ tick'.at = "idle" /\ tick'.jobs = {} /\ tick'.ep = Project!Direct /\ tick'.events = {}
  BY <1>1 DEF Project!NoTick, TickType, Project!Stage
<1>3. Project!TypeOK'
  BY <1>1, <1>2, Erasing DEF Project!TypeOK, TickType, Project!Bounds
<1>4. ClockInv' /\ ReadInv' /\ Project!CursorSkipsNothing' /\ \A S : Whole(S)' <=> Whole(S)
  BY <1>1 DEF ClockInv, ReadInv, Project!CursorSkipsNothing, Whole, EverRecorded
<1>5. WholeInv' /\ TickInv'
  BY <1>1, <1>2, <1>4 DEF WholeInv, Whole, TickInv
<1>6. StagedInv' /\ Project!LinksAreInLedger' /\ Project!ShownRestsOnLedger'
  BY <1>1 DEF StagedInv, Project!LinksAreInLedger, Project!ShownRestsOnLedger, Was
<1>7. QED
  BY <1>3, <1>4, <1>5, <1>6

LEMMA ErasureInit == Project!Init => ErasureInv
<1> SUFFICES ASSUME Project!Init PROVE ErasureInv
  OBVIOUS
<1>1. Project!TypeOK
  BY Erasing DEF Project!Init, Project!TypeOK, Project!NoRow, Project!NoTick, Project!EpisodeStatus, Project!JobState, Project!Stage, Project!Bounds
<1>2. ClockInv /\ ReadInv /\ WholeInv /\ TickInv /\ StagedInv
  BY DEF Project!Init, ClockInv, ReadInv, WholeInv, Whole, TickInv, StagedInv, Project!NoTick, EverRecorded
<1>3. Project!LinksAreInLedger /\ Project!ShownRestsOnLedger /\ Project!CursorSkipsNothing
  BY DEF Project!Init, Project!LinksAreInLedger, Project!ShownRestsOnLedger, Project!CursorSkipsNothing, Project!NoRow
<1>4. QED
  BY <1>1, <1>2, <1>3 DEF ErasureInv

LEMMA ErasureNext == ErasureInv /\ [Project!Next]_(Project!vars) => ErasureInv'
<1> SUFFICES ASSUME ErasureInv, [Project!Next]_(Project!vars) PROVE ErasureInv'
  OBVIOUS
<1>1. CASE UNCHANGED Project!vars
  <2>1. UNCHANGED <<ledger, seq, counter, turns, ignored, episodes, frames, candidates, cursor, dreamed,
                    tick, runs, erasures, restarts>>
    BY <1>1 DEF Project!vars, Project!ledgerVars, Project!episodeVars, Project!derived, Project!cursorVars, Project!bounds
  <2>2. Project!TypeOK'
    BY <2>1 DEF ErasureInv, Project!TypeOK
  <2>3. QED
    BY <2>1, <2>2 DEF ErasureInv, ClockInv, ReadInv, WholeInv, Whole, TickInv, StagedInv, Was, EverRecorded,
       Project!LinksAreInLedger, Project!ShownRestsOnLedger, Project!CursorSkipsNothing
<1>2. ASSUME NEW e \in Project!Events, Project!Record(e) \/ Project!Refuse(e) \/ Project!Ignore(e) PROVE ErasureInv'
  BY <1>2, RecordStep, TurnStep
<1>3. ASSUME NEW e \in Project!Events, NEW ep \in Project!Episodes, NEW closes \in BOOLEAN, Project!Assign(e, ep, closes)
      PROVE  ErasureInv'
  BY <1>3, AssignStep
<1>4. ASSUME NEW expired \in BOOLEAN, Project!Claim(expired) PROVE ErasureInv'
  BY <1>4, ClaimStep
<1>5. ASSUME NEW ep \in Project!Episodes, Project!Curate(ep) PROVE ErasureInv'
  BY <1>5, CurateStep
<1>6. CASE Project!Finish \/ Project!Abort \/ Project!Throw
  BY <1>6, FinishStep, GiveUpStep
<1>7. CASE Project!Proposed \/ \E answered \in BOOLEAN : Project!Framed(answered)
  BY <1>7, StagingStep
<1>8. ASSUME NEW shown \in {"active", "needs_confirmation"}, Project!Complete(shown) PROVE ErasureInv'
  BY <1>8, CompleteStep
<1>9. ASSUME NEW r \in Runners, Project!Read(r) \/ Project!Answer(r) PROVE ErasureInv'
  BY <1>9, ReadStep, AnswerStep
<1>10. ASSUME NEW c \in candidates, NEW to \in Project!CandidateStatus, Project!Promote(c, to) PROVE ErasureInv'
  BY <1>10, PromoteStep
<1>11. ASSUME NEW f \in frames, Project!Approve(f) PROVE ErasureInv'
  BY <1>11, ApproveStep
<1>12. CASE Project!Forget \/ Project!Restart
  BY <1>12, ForgetStep, RestartStep
<1>13. QED
  BY <1>1, <1>2, <1>3, <1>4, <1>5, <1>6, <1>7, <1>8, <1>9, <1>10, <1>11, <1>12 DEF Project!Next

LEMMA ErasureAlways == Project!Spec => []ErasureInv
  BY ErasureInit, ErasureNext, PTL DEF Project!Spec

\* Every variable of an erasure keeps its type, and an episode that was erased keeps
\* neither links nor a job.
THEOREM ErasureTyped == Project!Spec => []Project!TypeOK
<1>1. ErasureInv => Project!TypeOK
  BY DEF ErasureInv
<1>2. QED
  BY <1>1, ErasureAlways, PTL

\* Whatever an erasure overtakes, nothing linked, shown or promoted rests on an event
\* the ledger has lost, and the curator's cursor covers no event that no run has seen.
THEOREM ErasureOutlasts == Project!Spec => [](Project!LinksAreInLedger /\ Project!ShownRestsOnLedger /\ Project!CursorSkipsNothing)
<1>1. ErasureInv => Project!LinksAreInLedger /\ Project!ShownRestsOnLedger /\ Project!CursorSkipsNothing
  BY DEF ErasureInv
<1>2. QED
  BY <1>1, ErasureAlways, PTL

-----------------------------------------------------------------------------
(* What runs side by side.                                                   *)

\* The components share no state: a behaviour of all is one of each, the steps of the
\* others apart.
THEOREM Composition == GovernanceSpec => Spec /\ Beliefs!Spec /\ Project!Spec
<1>1. Installed => Init /\ Beliefs!Init /\ Project!Init
  BY DEF Installed
<1>2. [SideBySide]_all => [Next]_vars /\ [Beliefs!Next]_(Beliefs!vars) /\ [Project!Next]_(Project!vars)
  BY DEF SideBySide, MergeStep, BeliefsStep, DreamsStep, BesideStep, CursorStep, all, vars,
     beliefVars, erasureVars, Beliefs!vars, Project!vars, Project!ledgerVars, Project!episodeVars,
     Project!derived, Project!cursorVars, Project!bounds
<1>3. QED
  BY <1>1, <1>2, PTL DEF GovernanceSpec, Spec, Beliefs!Spec, Project!Spec

\* Every variable keeps its type, and what is recorded of merges, beliefs and erased
\* episodes its shape.
THEOREM GovernanceTypes == GovernanceSpec => []TypesOK
<1>1. TypeOK /\ Beliefs!TypeOK /\ Project!TypeOK => TypesOK
  BY DEF TypesOK
<1>2. QED
  BY <1>1, Composition, MergeTypes, BeliefsTyped, ErasureTyped, PTL

\* What recall reads as a belief is grounded, for any number of episodes, values and
\* rows: promoted memory rests on a standing candidate, a superseded row gave way to a
\* later word, and following the pointers ends (BeliefStore.upsert).
THEOREM GroundedBeliefs == GovernanceSpec => []BeliefsAreGrounded
<1>1. Beliefs!RestsOnPromoted /\ Beliefs!LaterWordStands /\ Beliefs!ChainEnds => BeliefsAreGrounded
  BY DEF BeliefsAreGrounded
<1>2. QED
  BY <1>1, Composition, BeliefsRest, PTL

\* Erasing a project ends what was under way, whichever turns, Dream ticks and curator
\* runs it overtakes (forgetUser, completeDreamJob, markDreamed).
THEOREM ErasedForGood == GovernanceSpec => []ErasureHolds
<1>1. Project!LinksAreInLedger /\ Project!ShownRestsOnLedger /\ Project!CursorSkipsNothing => ErasureHolds
  BY DEF ErasureHolds
<1>2. QED
  BY <1>1, Composition, ErasureOutlasts, PTL

\* No step brings a merge back that was undone, or a candidate that was decided on.
THEOREM StandingDecisions == GovernanceSpec => DecisionsStand
  BY Composition, RevertedForGood, CandidatesStand, PTL DEF DecisionsStand
=============================================================================
