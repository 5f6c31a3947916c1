-------------------------- MODULE DerivationProofs --------------------------
(***************************************************************************)
(* What is derived follows what was recorded, for any number of keys,      *)
(* events, candidates, episodes, frames, topics, processes and turns.      *)
(*                                                                         *)
(* What is due rests on a user's word: of one candidate at a time, the     *)
(* affirmation it rests on came after its evidence, was put on record, and *)
(* is at that moment nobody else's.                                        *)
(* A turn's name is an identity: each sequence is drawn by one call alone, *)
(* a message is written under the sequence of its call, and a name that    *)
(* has a message has all its messages in one sequence.                     *)
(* An edge is what its supports add up to: between the statements of a     *)
(* transaction all edges are, but those whose supports were written.       *)
(* A binding is fused and linked: the evidence of the edge to the topic    *)
(* only grows; and one process alone links each event, before the next     *)
(* begins, to the newest that is bound to the topic.                       *)
(***************************************************************************)
EXTENDS MCDerivation, TLAPS, SequenceTheorems, FiniteSetTheorems, WellFoundedInduction

RowType(n) == [key : Keys, version : 1..MaxRows, evidence : SUBSET (1..n) \ {{}},
               status : Statuses, confirmation : 0..n, due : 0..Never, until : 1..Never]

Types == /\ log \in Seq(Kinds) /\ Len(log) <= MaxEvents /\ clock \in 0..MaxClock
         /\ rows \in Seq(RowType(Len(log))) /\ Len(rows) <= MaxRows
         /\ transitions \subseteq (DOMAIN rows) \X (DOMAIN log)

\* Every key has a latest version, and no row's version exceeds its place.
Versions ==
  /\ \A i \in DOMAIN rows : rows[i].version <= i
  /\ \A k \in Keys : Of(k) # {} => \E i \in Of(k) : \A j \in Of(k) : rows[j].version <= rows[i].version

Consent ==
  \A i \in DOMAIN rows :
    /\ rows[i].confirmation # None =>
         /\ log[rows[i].confirmation] = "affirms"
         /\ \A e \in rows[i].evidence : e < rows[i].confirmation
         /\ <<i, rows[i].confirmation>> \in transitions
         /\ \A j \in DOMAIN rows \ {i} : rows[j].confirmation # rows[i].confirmation
    /\ rows[i].status \in {"confirmed", "deferred", "completed"} => rows[i].confirmation # None

Inv == Types /\ Versions /\ Consent

-----------------------------------------------------------------------------
LEMMA RowsFit ==
  ASSUME Types
  PROVE  /\ rows \in [1..Len(rows) -> RowType(Len(log))] /\ Len(rows) \in Nat /\ Len(log) \in Nat
         /\ DOMAIN rows = 1..Len(rows) /\ DOMAIN log = 1..Len(log)
  BY DEF Types

LEMMA Wider ==
  ASSUME NEW n \in Nat, NEW r \in RowType(n)
  PROVE  r \in RowType(n + 1)
  BY DEF RowType

LEMMA ProspectiveInit == Init => Inv
<1> SUFFICES ASSUME Init PROVE Inv
  OBVIOUS
<1>1. log = <<>> /\ rows = <<>> /\ transitions = {} /\ clock = 0
  BY DEF Init
<1>2. Len(log) = 0 /\ Len(rows) = 0 /\ DOMAIN rows = {}
  BY <1>1
<1>3. log \in Seq(Kinds) /\ rows \in Seq(RowType(Len(log)))
  BY <1>1
<1>4. Types
  BY <1>1, <1>2, <1>3, ProspectiveAssumption DEF Types
<1>5. QED
  BY <1>2, <1>4 DEF Inv, Versions, Consent, Of

\* The log only grows.
LEMMA SayStep ==
  ASSUME Inv, NEW kind \in Kinds, Say(kind)
  PROVE  Inv'
<1>1. Types /\ Len(log) < MaxEvents /\ log' = Append(log, kind) /\ UNCHANGED <<rows, transitions, clock>>
  BY DEF Inv, Say
<1>2. log \in Seq(Kinds) /\ Len(log) \in Nat /\ MaxEvents \in Nat
  BY <1>1, ProspectiveAssumption DEF Types
<1>3. /\ log' \in Seq(Kinds) /\ Len(log') = Len(log) + 1
      /\ \A i \in 1..Len(log) : log'[i] = log[i]
  BY <1>1, <1>2
<1>4. rows \in Seq(RowType(Len(log) + 1))
  <2>1. \A i \in 1..Len(rows) : rows[i] \in RowType(Len(log) + 1)
    BY <1>1, RowsFit, Wider
  <2>2. rows = [i \in 1..Len(rows) |-> rows[i]] /\ Len(rows) \in Nat
    BY <1>1 DEF Types
  <2>3. QED
    BY <2>1, <2>2
<1>5. Types'
  <2>1. DOMAIN log \subseteq DOMAIN log'
    BY <1>2, <1>3
  <2>2. QED
    BY <1>1, <1>2, <1>3, <1>4, <2>1 DEF Types
<1>6. Versions'
  BY <1>1 DEF Inv, Versions, Of
<1>7. \A i \in DOMAIN rows : rows[i].confirmation # None => log'[rows[i].confirmation] = log[rows[i].confirmation]
  <2> TAKE i \in DOMAIN rows
  <2>1. rows[i] \in RowType(Len(log))
    BY <1>1, RowsFit
  <2>2. rows[i].confirmation \in 0..Len(log)
    BY <2>1 DEF RowType
  <2>3. QED
    BY <1>2, <1>3, <2>2 DEF None
<1>8. Consent'
  BY <1>1, <1>7 DEF Inv, Consent
<1>9. QED
  BY <1>5, <1>6, <1>8 DEF Inv

LEMMA TickStep ==
  ASSUME Inv, Tick
  PROVE  Inv'
<1>1. clock' = clock + 1 /\ clock < MaxClock /\ UNCHANGED <<log, rows, transitions>>
  BY DEF Tick
<1>2. Types'
  BY <1>1, ProspectiveAssumption DEF Inv, Types
<1>3. QED
  BY <1>1, <1>2 DEF Inv, Versions, Consent, Of

\* A new version follows the latest one.
LEMMA ProposeStep ==
  ASSUME Inv, NEW k \in Keys, NEW evidence \in SUBSET (DOMAIN log) \ {{}},
         NEW due \in {clock, clock + 1, Never}, Propose(k, evidence, due)
  PROVE  Inv'
<1> DEFINE n == Len(rows)
           new == [key |-> k, version |-> NextVersion(k), evidence |-> evidence,
                   status |-> "pending", confirmation |-> None, due |-> due, until |-> Never]
<1>1. /\ Types /\ Versions /\ Consent /\ n < MaxRows /\ rows' = Append(rows, new)
      /\ UNCHANGED <<log, transitions, clock>>
  BY DEF Inv, Propose
<1>2. /\ rows \in Seq(RowType(Len(log))) /\ n \in Nat /\ Len(log) \in Nat /\ MaxRows \in Nat
      /\ DOMAIN rows = 1..n /\ DOMAIN log = 1..Len(log)
      /\ \A i \in 1..n : rows[i] \in RowType(Len(log)) /\ rows[i].version \in 1..MaxRows
  BY <1>1, RowsFit, ProspectiveAssumption DEF RowType, Types
<1>3. /\ NextVersion(k) \in 1..n + 1
      /\ \A j \in Of(k) : rows[j].version <= NextVersion(k)
  <2>1. CASE Of(k) = {}
    BY <1>2, <2>1 DEF NextVersion
  <2>2. CASE Of(k) # {}
    <3>1. \E i \in Of(k) : \A j \in Of(k) : rows[j].version <= rows[i].version
      BY <1>1, <2>2 DEF Versions
    <3>2. Latest(k) \in Of(k) /\ \A j \in Of(k) : rows[j].version <= rows[Latest(k)].version
      BY <3>1 DEF Latest
    <3>3. Latest(k) \in 1..n /\ Of(k) \subseteq 1..n
      BY <1>2, <3>2 DEF Of
    <3>4. NextVersion(k) = rows[Latest(k)].version + 1
      BY <2>2 DEF NextVersion
    <3>5. rows[Latest(k)].version \in 1..n
      BY <1>1, <1>2, <3>3 DEF Versions
    <3>6. \A j \in Of(k) : rows[j].version \in Nat
      BY <1>2, <3>3
    <3>7. QED
      BY <1>2, <3>2, <3>4, <3>5, <3>6
  <2>3. QED
    BY <2>1, <2>2
<1>4. NextVersion(k) \in 1..MaxRows
  BY <1>1, <1>2, <1>3
<1>5. due \in 0..Never /\ Never \in 1..Never
  BY <1>1, ProspectiveAssumption DEF Types, Never
<1>6. new \in RowType(Len(log))
  <2>1. evidence \in SUBSET (1..Len(log)) \ {{}} /\ None \in 0..Len(log) /\ "pending" \in Statuses
    BY <1>2 DEF None, Statuses
  <2>2. QED
    BY <1>4, <1>5, <2>1 DEF RowType
<1>7. new.key = k /\ new.version = NextVersion(k) /\ new.confirmation = None /\ new.status = "pending"
  OBVIOUS
<1> HIDE DEF new
<1>8. /\ rows' \in Seq(RowType(Len(log))) /\ Len(rows') = n + 1 /\ DOMAIN rows' = 1..n + 1
      /\ rows'[n + 1] = new /\ \A i \in 1..n : rows'[i] = rows[i]
  BY <1>1, <1>2, <1>6
<1>9. Types'
  <2>1. DOMAIN rows \subseteq DOMAIN rows'
    BY <1>2, <1>8
  <2>2. QED
    BY <1>1, <1>2, <1>8, <2>1 DEF Types
<1>10. Versions'
  <2>1. \A i \in DOMAIN rows' : rows'[i].version <= i
    BY <1>1, <1>2, <1>3, <1>7, <1>8 DEF Versions
  <2>2. ASSUME NEW l \in Keys \ {k} PROVE Of(l)' = Of(l)
    BY <1>2, <1>7, <1>8, <2>2 DEF Of
  <2>3. Of(k)' = Of(k) \cup {n + 1} /\ Of(k) \subseteq 1..n
    BY <1>2, <1>7, <1>8 DEF Of
  <2>4. \A j \in Of(k)' : rows'[j].version <= rows'[n + 1].version
    BY <1>3, <1>7, <1>8, <2>3
  <2>5. ASSUME NEW l \in Keys, Of(l)' # {}
        PROVE  \E i \in Of(l)' : \A j \in Of(l)' : rows'[j].version <= rows'[i].version
    <3>1. CASE l = k
      BY <2>3, <2>4, <3>1
    <3>2. CASE l # k
      <4>1. Of(l)' = Of(l) /\ Of(l) \subseteq 1..n
        BY <1>2, <2>2, <3>2 DEF Of
      <4>2. PICK i \in Of(l) : \A j \in Of(l) : rows[j].version <= rows[i].version
        BY <1>1, <2>5, <4>1 DEF Versions
      <4>3. \A j \in Of(l) : rows'[j] = rows[j]
        BY <1>8, <4>1
      <4>4. \A j \in Of(l)' : rows'[j].version <= rows'[i].version
        BY <4>1, <4>2, <4>3
      <4>5. QED
        BY <4>1, <4>4
    <3>3. QED
      BY <3>1, <3>2
  <2>6. QED
    BY <2>1, <2>5 DEF Versions
<1>11. Consent'
  <2>1. ASSUME NEW i \in 1..n
        PROVE  /\ rows'[i].confirmation # None =>
                    /\ log[rows'[i].confirmation] = "affirms"
                    /\ \A e \in rows'[i].evidence : e < rows'[i].confirmation
                    /\ <<i, rows'[i].confirmation>> \in transitions
                    /\ \A j \in DOMAIN rows' \ {i} : rows'[j].confirmation # rows'[i].confirmation
               /\ rows'[i].status \in {"confirmed", "deferred", "completed"} => rows'[i].confirmation # None
    <3>1. rows'[i] = rows[i] /\ i \in DOMAIN rows
      BY <1>2, <1>8
    <3>2. ASSUME NEW j \in DOMAIN rows' \ {i}, rows[i].confirmation # None
          PROVE  rows'[j].confirmation # rows[i].confirmation
      <4>1. CASE j = n + 1
        BY <1>7, <1>8, <3>2, <4>1
      <4>2. CASE j \in DOMAIN rows
        BY <1>1, <1>2, <1>8, <3>1, <3>2, <4>2 DEF Consent
      <4>3. j \in 1..n + 1 /\ DOMAIN rows = 1..n /\ n \in Nat
        BY <1>2, <1>8
      <4>4. j = n + 1 \/ j \in DOMAIN rows
        BY <4>3
      <4>5. QED
        BY <4>1, <4>2, <4>4
    <3>3. /\ rows[i].confirmation # None =>
               /\ log[rows[i].confirmation] = "affirms"
               /\ \A e \in rows[i].evidence : e < rows[i].confirmation
               /\ <<i, rows[i].confirmation>> \in transitions
          /\ rows[i].status \in {"confirmed", "deferred", "completed"} => rows[i].confirmation # None
      BY <1>1, <3>1 DEF Consent
    <3>4. QED
      BY <3>1, <3>2, <3>3
  <2>2. rows'[n + 1].confirmation = None /\ rows'[n + 1].status = "pending"
    BY <1>7, <1>8
  <2>3. QED
    BY <1>1, <1>2, <1>8, <2>1, <2>2 DEF Consent
<1>12. QED
  BY <1>9, <1>10, <1>11 DEF Inv

-----------------------------------------------------------------------------
(* A row that is rewritten keeps its key, its version and its evidence.      *)

LEMMA Rewritten ==
  ASSUME Inv, NEW i \in DOMAIN rows, NEW new \in RowType(Len(log)),
         new.key = rows[i].key, new.version = rows[i].version, new.evidence = rows[i].evidence,
         rows' = [rows EXCEPT ![i] = new], UNCHANGED <<log, clock>>,
         transitions' \subseteq (DOMAIN rows) \X (DOMAIN log), transitions \subseteq transitions',
         new.status \in {"confirmed", "deferred", "completed"} => new.confirmation # None,
         \/ new.confirmation = rows[i].confirmation
         \/ /\ new.confirmation # None /\ Affirms(i, new.confirmation)
            /\ <<i, new.confirmation>> \in transitions'
  PROVE  Inv'
<1>1. Types /\ Versions /\ Consent
  BY DEF Inv
<1>2. /\ rows \in [1..Len(rows) -> RowType(Len(log))] /\ Len(rows) \in Nat
      /\ DOMAIN rows = 1..Len(rows)
  BY <1>1, RowsFit
<1>3. /\ rows' \in [1..Len(rows) -> RowType(Len(log))]
      /\ rows'[i] = new /\ \A j \in DOMAIN rows \ {i} : rows'[j] = rows[j]
  BY <1>2
<1>4. rows' \in Seq(RowType(Len(log))) /\ Len(rows') = Len(rows) /\ DOMAIN rows' = DOMAIN rows
  BY <1>2, <1>3
<1>5. Types'
  BY <1>1, <1>4 DEF Types
<1>6. \A j \in DOMAIN rows : rows'[j].key = rows[j].key /\ rows'[j].version = rows[j].version
                             /\ rows'[j].evidence = rows[j].evidence
  BY <1>3
<1>7. Versions'
  <2>1. \A k : Of(k)' = Of(k) /\ Of(k) \subseteq DOMAIN rows
    BY <1>4, <1>6 DEF Of
  <2>2. QED
    BY <1>1, <1>4, <1>6, <2>1 DEF Versions
<1>8. ASSUME NEW j \in DOMAIN rows, rows'[j].confirmation # None
      PROVE  /\ log[rows'[j].confirmation] = "affirms"
             /\ \A e \in rows'[j].evidence : e < rows'[j].confirmation
             /\ <<j, rows'[j].confirmation>> \in transitions'
             /\ \A o \in DOMAIN rows \ {j} : rows'[o].confirmation # rows'[j].confirmation
  <2>1. CASE new.confirmation = rows[i].confirmation
    <3>1. \A o \in DOMAIN rows : rows'[o].confirmation = rows[o].confirmation
      BY <1>3, <2>1
    <3>2. QED
      BY <1>1, <1>6, <1>8, <3>1 DEF Consent
  <2>2. CASE /\ new.confirmation # None /\ Affirms(i, new.confirmation)
             /\ <<i, new.confirmation>> \in transitions'
    <3>1. /\ log[new.confirmation] = "affirms" /\ \A s \in rows[i].evidence : s < new.confirmation
          /\ \A o \in DOMAIN rows \ {i} : rows[o].confirmation # new.confirmation
      BY <2>2 DEF Affirms
    <3>2. CASE j = i
      BY <1>3, <2>2, <3>1, <3>2
    <3>3. CASE j # i
      BY <1>1, <1>3, <1>8, <3>1, <3>3 DEF Consent
    <3>4. QED
      BY <3>2, <3>3
  <2>3. QED
    BY <2>1, <2>2
<1>9. \A j \in DOMAIN rows : rows'[j].status \in {"confirmed", "deferred", "completed"}
                               => rows'[j].confirmation # None
  BY <1>1, <1>3 DEF Consent
<1>10. Consent'
  BY <1>4, <1>8, <1>9 DEF Consent
<1>11. QED
  BY <1>5, <1>7, <1>10 DEF Inv

LEMMA ConfirmStep ==
  ASSUME Inv, NEW i \in DOMAIN rows, NEW e \in DOMAIN log, Confirm(i, e)
  PROVE  Inv'
<1> DEFINE new == [rows[i] EXCEPT !.status = "confirmed", !.confirmation = e, !.until = Never]
<1>1. /\ rows \in [1..Len(rows) -> RowType(Len(log))] /\ DOMAIN rows = 1..Len(rows)
      /\ DOMAIN log = 1..Len(log) /\ Len(log) \in Nat
  BY RowsFit DEF Inv
<1>2. rows[i] \in RowType(Len(log)) /\ "confirmed" \in Statuses /\ Never \in 1..Never /\ e \in 0..Len(log)
  BY <1>1, ProspectiveAssumption DEF Statuses, Never
<1>3. /\ new \in RowType(Len(log)) /\ new.key = rows[i].key /\ new.version = rows[i].version
      /\ new.evidence = rows[i].evidence /\ new.status = "confirmed" /\ new.confirmation = e
  BY <1>2 DEF RowType
<1>4. rows' = [rows EXCEPT ![i] = new]
  BY <1>1, <1>2 DEF Confirm, RowType
<1>5. /\ Affirms(i, e) /\ transitions' = transitions \cup {<<i, e>>} /\ UNCHANGED <<log, clock>>
  BY DEF Confirm
<1> HIDE DEF new
<1>6. /\ transitions' \subseteq (DOMAIN rows) \X (DOMAIN log) /\ transitions \subseteq transitions'
      /\ <<i, e>> \in transitions'
  BY <1>5 DEF Inv, Types
<1>7. e # None
  BY <1>1 DEF None
<1>8. QED
  BY <1>3, <1>4, <1>5, <1>6, <1>7, Rewritten

\* Deferring, completing, rejecting and expiring leave the confirmation alone.
LEMMA ResolveStep ==
  ASSUME Inv, NEW i \in DOMAIN rows, NEW action \in {"deferred"} \cup Terminal,
         NEW until \in 1..Never, Resolve(i, action, until)
  PROVE  Inv'
<1> DEFINE new == [rows[i] EXCEPT !.status = action, !.until = until]
<1>1. /\ rows \in [1..Len(rows) -> RowType(Len(log))] /\ DOMAIN rows = 1..Len(rows)
  BY RowsFit DEF Inv
<1>2. rows[i] \in RowType(Len(log)) /\ action \in Statuses
  BY <1>1 DEF Statuses
<1>3. /\ new \in RowType(Len(log)) /\ new.key = rows[i].key /\ new.version = rows[i].version
      /\ new.evidence = rows[i].evidence /\ new.status = action
      /\ new.confirmation = rows[i].confirmation
  BY <1>2 DEF RowType
<1>4. rows' = [rows EXCEPT ![i] = new]
  BY <1>1, <1>2 DEF Resolve, RowType
<1>5. rows[i].status \in From(action) /\ UNCHANGED <<log, transitions, clock>>
  BY DEF Resolve
<1> HIDE DEF new
<1>6. action \in {"confirmed", "deferred", "completed"} => rows[i].confirmation # None
  <2>1. CASE action \in {"deferred", "completed"}
    <3>1. rows[i].status = "confirmed"
      BY <1>5, <2>1 DEF From
    <3>2. QED
      BY <3>1 DEF Inv, Consent
  <2>2. CASE action \notin {"deferred", "completed"}
    BY <2>2 DEF Terminal
  <2>3. QED
    BY <2>1, <2>2
<1>7. transitions' \subseteq (DOMAIN rows) \X (DOMAIN log)
  BY <1>5 DEF Inv, Types
<1>8. QED
  BY <1>3, <1>4, <1>5, <1>6, <1>7, Rewritten

LEMMA ProspectiveNext == Inv /\ [Next]_vars => Inv'
<1> SUFFICES ASSUME Inv, [Next]_vars PROVE Inv'
  OBVIOUS
<1>1. ASSUME NEW i \in DOMAIN rows, Defer(i) PROVE Inv'
  <2>1. PICK t \in clock + 1..MaxClock : Resolve(i, "deferred", t)
    BY <1>1 DEF Defer
  <2>2. t \in 1..Never
    BY ProspectiveAssumption DEF Inv, Types, Never
  <2>3. QED
    BY <2>1, <2>2, ResolveStep
<1>2. ASSUME NEW i \in DOMAIN rows, End(i) PROVE Inv'
  <2>1. PICK action \in Terminal : Resolve(i, action, rows[i].until)
    BY <1>2 DEF End
  <2>2. rows[i].until \in 1..Never
    BY RowsFit DEF Inv, RowType
  <2>3. QED
    BY <2>1, <2>2, ResolveStep
<1>3. CASE UNCHANGED vars
  <2>1. UNCHANGED <<log, rows, transitions, clock>>
    BY <1>3 DEF vars
  <2>2. Types' /\ Consent'
    BY <2>1 DEF Inv, Types, Consent
  <2>3. Versions'
    BY <2>1 DEF Inv, Versions, Of
  <2>4. QED
    BY <2>2, <2>3 DEF Inv
<1>4. QED
  BY <1>1, <1>2, <1>3, SayStep, TickStep, ProposeStep, ConfirmStep DEF Next

LEMMA InvAlways == Spec => []Inv
  BY ProspectiveInit, ProspectiveNext, PTL DEF Spec

-----------------------------------------------------------------------------
\* Events, rows, transitions and the clock keep their types.
THEOREM ProspectiveTypes == Spec => []TypeOK
<1>1. Inv => TypeOK
  BY DEF Inv, Types, TypeOK, RowType
<1>2. QED
  BY <1>1, InvAlways, PTL

\* A confirmation in force is on record, and only what was confirmed is deferred or
\* completed.
THEOREM Recorded == Spec => []ConfirmedOnRecord
<1>1. Inv => ConfirmedOnRecord
  BY DEF Inv, Consent, ConfirmedOnRecord
<1>2. QED
  BY <1>1, InvAlways, PTL

\* What is due rests on an affirmation of its own that came after its evidence.
THEOREM DueConsented == Spec => []DueIsConsented
<1>1. Inv => DueIsConsented
  BY DEF Inv, Consent, DueIsConsented, IsDue
<1>2. QED
  BY <1>1, InvAlways, PTL

\* What has ended stays as it ended.
THEOREM EndedForGood == Spec => EndedStays
<1> DEFINE Stays == \A i \in DOMAIN rows : rows[i].status \in Terminal => rows'[i] = rows[i]
<1>1. Inv /\ [Next]_vars => [Stays]_vars
  <2> SUFFICES ASSUME Inv, Next PROVE Stays
    BY DEF vars
  <2>1. rows \in Seq(RowType(Len(log))) /\ DOMAIN rows = 1..Len(rows)
    BY DEF Inv, Types
  <2>2. ASSUME NEW i \in DOMAIN rows, NEW r, rows' = [rows EXCEPT ![i] = r], rows[i].status \notin Terminal
        PROVE  Stays
    BY <2>1, <2>2
  <2>3. ASSUME NEW i \in DOMAIN rows, NEW e \in DOMAIN log, Confirm(i, e) PROVE Stays
    <3>1. rows[i].status \notin Terminal
      BY <2>3 DEF Confirm, Terminal
    <3>2. \A j \in DOMAIN rows \ {i} : rows'[j] = rows[j]
      BY <2>1, <2>3 DEF Confirm
    <3>3. QED
      BY <3>1, <3>2
  <2>4. ASSUME NEW i \in DOMAIN rows, NEW action \in Statuses, NEW until, Resolve(i, action, until) PROVE Stays
    <3>1. rows[i].status \notin Terminal
      BY <2>4 DEF Resolve, From, Terminal
    <3>2. \A j \in DOMAIN rows \ {i} : rows'[j] = rows[j]
      BY <2>1, <2>4 DEF Resolve
    <3>3. QED
      BY <3>1, <3>2
  <2>5. ASSUME NEW k \in Keys, NEW evidence \in SUBSET (DOMAIN log) \ {{}},
               NEW due \in {clock, clock + 1, Never}, Propose(k, evidence, due)
        PROVE  Stays
    BY <2>1, <2>5 DEF Propose
  <2>6. (\E kind \in Kinds : Say(kind)) \/ Tick => Stays
    BY DEF Say, Tick
  <2>7. ASSUME NEW i \in DOMAIN rows, Defer(i) \/ End(i) PROVE Stays
    BY <2>4, <2>7 DEF Defer, End, Statuses
  <2>8. QED
    BY <2>3, <2>5, <2>6, <2>7 DEF Next
<1>2. QED
  BY <1>1, InvAlways, PTL DEF Spec, EndedStays

-----------------------------------------------------------------------------
(* The turns of an agent.                                                    *)

\* As TypeOK, with numbers that are not bounded.
Message == [name : Turn!Names, ordinal : {1, 2}, text : Texts, seq : Nat, pos : Nat, next : BOOLEAN]
Busy == [pc : {"claim", "draw", "user", "reclaim", "reply", "link", "assemble", "compile"},
         turn : Turn!Turn, seq : Nat]

TurnTypes == /\ ledger \subseteq Message /\ drawn \in Nat
             /\ writer \in [Writers -> Busy \cup {Turn!Idle}]
             /\ asked \subseteq Turn!Turn

\* The thread has no gap, and no two messages one place.
ThreadInv == /\ IsFiniteSet(ledger)
             /\ {e.pos : e \in ledger} = 1..Cardinality(ledger)
             /\ \A e, f \in ledger : e.pos = f.pos => e = f

\* A sequence is one turn's, a name is one sequence's, a reply follows what it replies to.
SeqInv == \A e, f \in ledger : e.seq = f.seq =>
            /\ e.name = f.name
            /\ e # f => e.ordinal # f.ordinal
            /\ e.ordinal < f.ordinal => e.pos < f.pos
NameInv == \A e, f \in ledger : e.name # Turn!Unnamed /\ e.name = f.name => e.seq = f.seq
ReplyInv == \A f \in ledger : f.ordinal = 2 => \E e \in ledger : e.ordinal = 1 /\ e.seq = f.seq
AskedInv == \A e, f \in ledger :
              e.name # Turn!Unnamed /\ e.name = f.name /\ e.ordinal = 1 /\ f.ordinal = 2 =>
                [name |-> e.name, user |-> e.text, reply |-> f.text] \in asked

\* Every message of turn t is in the ledger, under sequence s.
Has(t, s, o) == \E e \in ledger : e.name = t.name /\ e.ordinal = o /\ e.text = Turn!Said(t, o) /\ e.seq = s
Full(t, s) == \A o \in Turn!Messages(t) : Has(t, s, o)

\* What a call has written, under a number that it alone has drawn.
Drawn(p) == writer[p].pc \in {"user", "reclaim", "reply", "link", "assemble", "compile"}
WriterInv ==
  /\ \A e \in ledger : e.seq <= drawn
  /\ \A p \in Writers : writer[p].pc # "idle" => writer[p].turn \in asked
  /\ \A p \in Writers : Drawn(p) => writer[p].seq <= drawn
  /\ \A p, q \in Writers : Drawn(p) /\ Drawn(q) /\ p # q => writer[p].seq # writer[q].seq
  /\ \A p \in Writers : writer[p].pc = "user" => \A e \in ledger : e.seq # writer[p].seq
  /\ \A p \in Writers : writer[p].pc = "reply" =>
       /\ Has(writer[p].turn, writer[p].seq, 1) /\ writer[p].turn.reply # Turn!None
       /\ \A e \in ledger : e.seq = writer[p].seq => e.ordinal = 1
  /\ \A p \in Writers : writer[p].pc \in {"link", "assemble", "compile"} => Full(writer[p].turn, writer[p].seq)

ToldInv == \A t \in Turn!Turn, a \in {"recorded", "duplicate"} :
             <<t, a>> \in answers => \E s \in Nat : Full(t, s)

LedgerInv == ThreadInv /\ SeqInv /\ NameInv /\ ReplyInv /\ AskedInv
TurnInv == TurnTypes /\ LedgerInv /\ WriterInv /\ ToldInv

-----------------------------------------------------------------------------
LEMMA TurnInit == Turn!Init => TurnInv
<1> SUFFICES ASSUME Turn!Init PROVE TurnInv
  OBVIOUS
<1>1. TurnTypes
  BY DEF Turn!Init, TurnTypes
<1>2. ThreadInv
  BY FS_EmptySet DEF Turn!Init, ThreadInv
<1>3. SeqInv /\ NameInv /\ ReplyInv /\ AskedInv /\ ToldInv
  BY DEF Turn!Init, SeqInv, NameInv, ReplyInv, AskedInv, ToldInv
<1>4. WriterInv
  BY DEF Turn!Init, WriterInv, Drawn, Turn!Idle
<1>5. QED
  BY <1>1, <1>2, <1>3, <1>4 DEF TurnInv, LedgerInv

\* Where a call stands, and what it is of.
LEMMA WriterIs ==
  ASSUME TurnTypes, NEW p \in Writers
  PROVE  /\ writer[p].pc # "idle" => writer[p] \in Busy /\ writer[p].turn \in Turn!Turn /\ writer[p].seq \in Nat
         /\ writer[p] # Turn!Idle => writer[p].pc # "idle"
  BY DEF TurnTypes, Busy, Turn!Idle

\* A call goes on to pc, or ends.
LEMMA Going ==
  ASSUME TurnTypes, NEW p \in Writers, writer[p].pc # "idle",
         NEW pc \in {"claim", "draw", "user", "reclaim", "reply", "link", "assemble", "compile"},
         Turn!Goto(p, pc)
  PROVE  /\ writer' \in [Writers -> Busy \cup {Turn!Idle}]
         /\ writer'[p].pc = pc /\ writer'[p].turn = writer[p].turn /\ writer'[p].seq = writer[p].seq
         /\ \A q \in Writers \ {p} : writer'[q] = writer[q]
         /\ UNCHANGED <<asked, answers>>
<1> DEFINE new == [writer[p] EXCEPT !.pc = pc]
<1>1. writer' = [writer EXCEPT ![p] = new] /\ UNCHANGED <<asked, answers>>
  BY DEF Turn!Goto
<1>2. new \in Busy /\ new.pc = pc /\ new.turn = writer[p].turn /\ new.seq = writer[p].seq
  BY WriterIs DEF Busy
<1> HIDE DEF new
<1>3. QED
  BY <1>1, <1>2 DEF TurnTypes

LEMMA Ending ==
  ASSUME TurnTypes, NEW p \in Writers, writer' = [writer EXCEPT ![p] = Turn!Idle]
  PROVE  /\ writer' \in [Writers -> Busy \cup {Turn!Idle}] /\ writer'[p].pc = "idle"
         /\ \A q \in Writers \ {p} : writer'[q] = writer[q]
  BY DEF TurnTypes, Turn!Idle

\* What stands when the ledger stays, and no submission is forgotten.
LEMMA LedgerStays ==
  ASSUME LedgerInv, UNCHANGED ledger, asked \subseteq asked'
  PROVE  /\ LedgerInv'
         /\ \A t, s, o : Has(t, s, o)' <=> Has(t, s, o)
         /\ \A t, s : Full(t, s)' <=> Full(t, s)
<1>1. LedgerInv'
  BY DEF LedgerInv, ThreadInv, SeqInv, NameInv, ReplyInv, AskedInv
<1>2. \A t, s, o : Has(t, s, o)' <=> Has(t, s, o)
  BY DEF Has
<1>3. QED
  BY <1>1, <1>2 DEF Full

\* An answer that says of a turn that it is recorded.
LEMMA Telling ==
  ASSUME ToldInv, UNCHANGED ledger, NEW t, NEW a, answers' = answers \cup {<<t, a>>},
         a \in {"recorded", "duplicate"} => \E s \in Nat : Full(t, s)
  PROVE  ToldInv'
<1>1. \A u, s : Full(u, s)' <=> Full(u, s)
  BY DEF Full, Has
<1>2. QED
  BY <1>1 DEF ToldInv

\* A call that ends takes nothing with it.
LEMMA EndKeeps ==
  ASSUME TurnInv, NEW p \in Writers, writer' = [writer EXCEPT ![p] = Turn!Idle],
         UNCHANGED <<ledger, drawn, asked>>
  PROVE  TurnTypes' /\ LedgerInv' /\ WriterInv'
<1>1. /\ writer' \in [Writers -> Busy \cup {Turn!Idle}] /\ writer'[p].pc = "idle"
      /\ \A q \in Writers \ {p} : writer'[q] = writer[q]
  BY Ending DEF TurnInv
<1>2. TurnTypes'
  BY <1>1 DEF TurnInv, TurnTypes
<1>3. LedgerInv'
  BY DEF TurnInv, LedgerInv, ThreadInv, SeqInv, NameInv, ReplyInv, AskedInv
<1>4. \A t, s, o : Has(t, s, o)' <=> Has(t, s, o)
  BY DEF Has
<1>5. WriterInv'
  BY <1>1, <1>4 DEF TurnInv, WriterInv, Drawn, Full
<1>6. QED
  BY <1>2, <1>3, <1>5

\* A call that ends without a word that the turn is recorded.
LEMMA QuietEnd ==
  ASSUME TurnInv, NEW p \in Writers, NEW a \in {"conflict", "error"}, Turn!Answer(p, a), UNCHANGED <<ledger, drawn>>
  PROVE  TurnInv'
<1>1. writer' = [writer EXCEPT ![p] = Turn!Idle] /\ answers' = answers \cup {<<writer[p].turn, a>>} /\ UNCHANGED asked
  BY DEF Turn!Answer
<1>2. TurnTypes' /\ LedgerInv' /\ WriterInv'
  BY <1>1, EndKeeps
<1>3. ToldInv'
  BY <1>1, Telling DEF TurnInv
<1>4. QED
  BY <1>2, <1>3 DEF TurnInv

\* A claim finds the turn recorded as it was submitted.
LEMMA ClaimFinds ==
  ASSUME TurnInv, NEW t \in Turn!Turn, Turn!ClaimAgentTurn(t) = "duplicate"
  PROVE  \E s \in Nat : Full(t, s)
<1>1. \A o \in Turn!Messages(t) : \E e \in ledger : e.name = t.name /\ e.ordinal = o /\ e.text = Turn!Said(t, o)
  BY DEF Turn!ClaimAgentTurn, Turn!Same, Turn!Stored
<1>2. PICK e \in ledger : e.name = t.name /\ t.name # Turn!Unnamed
  BY DEF Turn!ClaimAgentTurn, Turn!Stored
<1>3. \A f \in ledger : f.name = t.name => f.seq = e.seq
  BY <1>2 DEF TurnInv, LedgerInv, NameInv
<1>4. e.seq \in Nat
  BY DEF TurnInv, TurnTypes, Message
<1>5. Full(t, e.seq)
  BY <1>1, <1>3 DEF Full, Has
<1>6. QED
  BY <1>4, <1>5

LEMMA RememberStep ==
  ASSUME TurnInv, NEW p \in Writers, NEW turn \in Turn!Turn, Turn!RememberTurn(p, turn)
  PROVE  TurnInv'
<1> DEFINE new == [pc |-> IF turn.name = Turn!Unnamed THEN "draw" ELSE "claim", turn |-> turn, seq |-> 0]
<1>1. /\ writer' = [writer EXCEPT ![p] = new] /\ asked' = asked \cup {turn}
      /\ UNCHANGED <<ledger, drawn, answers>>
  BY DEF Turn!RememberTurn, Turn!recorded
<1>2. new \in Busy /\ new.pc \in {"draw", "claim"} /\ new.turn = turn
  BY DEF Busy
<1> HIDE DEF new
<1>3. /\ writer' \in [Writers -> Busy \cup {Turn!Idle}] /\ writer'[p] = new
      /\ \A q \in Writers \ {p} : writer'[q] = writer[q]
  BY <1>1, <1>2 DEF TurnInv, TurnTypes
<1>4. TurnTypes'
  BY <1>1, <1>3 DEF TurnInv, TurnTypes
<1>5. /\ LedgerInv'
      /\ \A t, s, o : Has(t, s, o)' <=> Has(t, s, o)
      /\ \A t, s : Full(t, s)' <=> Full(t, s)
  BY <1>1, LedgerStays DEF TurnInv
<1>6. WriterInv'
  BY <1>1, <1>2, <1>3, <1>5 DEF TurnInv, WriterInv, Drawn
<1>7. ToldInv'
  BY <1>1, <1>5 DEF TurnInv, ToldInv
<1>8. QED
  BY <1>4, <1>5, <1>6, <1>7 DEF TurnInv

\* A step of one call that leaves the ledger and the counter, and that asserts nothing new.
LEMMA MoveOn ==
  ASSUME TurnInv, NEW p \in Writers, NEW pc \in {"draw", "reclaim", "compile"}, Turn!Goto(p, pc),
         writer[p].pc # "idle", UNCHANGED <<ledger, drawn>>,
         pc = "reclaim" => writer[p].pc = "user",
         pc = "compile" => writer[p].pc = "assemble"
  PROVE  TurnInv'
<1>1. /\ writer' \in [Writers -> Busy \cup {Turn!Idle}]
      /\ writer'[p].pc = pc /\ writer'[p].turn = writer[p].turn /\ writer'[p].seq = writer[p].seq
      /\ \A q \in Writers \ {p} : writer'[q] = writer[q]
      /\ UNCHANGED <<asked, answers>>
  BY Going DEF TurnInv
<1>2. TurnTypes'
  BY <1>1 DEF TurnInv, TurnTypes
<1>3. /\ LedgerInv'
      /\ \A t, s, o : Has(t, s, o)' <=> Has(t, s, o)
      /\ \A t, s : Full(t, s)' <=> Full(t, s)
  BY <1>1, LedgerStays DEF TurnInv
<1>4. WriterInv'
  BY <1>1, <1>3 DEF TurnInv, WriterInv, Drawn
<1>5. ToldInv'
  BY <1>1, <1>3 DEF TurnInv, ToldInv
<1>6. QED
  BY <1>2, <1>3, <1>4, <1>5 DEF TurnInv

LEMMA DrawStep ==
  ASSUME TurnInv, NEW p \in Writers, Turn!Draw(p)
  PROVE  TurnInv'
<1> DEFINE new == [writer[p] EXCEPT !.pc = "user", !.seq = drawn + 1]
<1>1. /\ writer[p].pc = "draw" /\ drawn' = drawn + 1 /\ writer' = [writer EXCEPT ![p] = new]
      /\ UNCHANGED <<ledger, asked, answers>>
  BY DEF Turn!Draw, Turn!At, Turn!NextTurnSeq
<1>2. drawn \in Nat /\ writer[p] \in Busy
  BY <1>1, WriterIs DEF TurnInv, TurnTypes
<1>3. new \in Busy /\ new.pc = "user" /\ new.turn = writer[p].turn /\ new.seq = drawn + 1
  <2>1. drawn + 1 \in Nat
    BY <1>2
  <2>2. QED
    BY <1>2, <2>1 DEF Busy
<1> HIDE DEF new
<1>4. /\ writer' \in [Writers -> Busy \cup {Turn!Idle}] /\ writer'[p] = new
      /\ \A q \in Writers \ {p} : writer'[q] = writer[q]
  BY <1>1, <1>3 DEF TurnInv, TurnTypes
<1>5. TurnTypes'
  BY <1>1, <1>2, <1>4 DEF TurnInv, TurnTypes
<1>6. /\ LedgerInv'
      /\ \A t, s, o : Has(t, s, o)' <=> Has(t, s, o)
      /\ \A t, s : Full(t, s)' <=> Full(t, s)
  BY <1>1, LedgerStays DEF TurnInv
<1>7. \A e \in ledger : e.seq \in Nat
  BY DEF TurnInv, TurnTypes, Message
<1>8. \A q \in Writers : Drawn(q) => writer[q].seq \in Nat
  BY WriterIs DEF TurnInv, Drawn
<1>9. WriterInv'
  <2>1. \A e \in ledger' : e.seq <= drawn' /\ e.seq # drawn + 1
    BY <1>1, <1>2, <1>7 DEF TurnInv, WriterInv
  <2>2. \A q \in Writers \ {p} : Drawn(q) => writer[q].seq <= drawn /\ writer[q].seq # drawn + 1
    BY <1>2, <1>8 DEF TurnInv, WriterInv
  <2>3. \A q \in Writers \ {p} : Drawn(q)' <=> Drawn(q)
    BY <1>4 DEF Drawn
  <2>4. \A q \in Writers : Drawn(q)' => writer'[q].seq <= drawn'
    BY <1>1, <1>2, <1>3, <1>4, <1>8, <2>2, <2>3
  <2>5. \A q, x \in Writers : Drawn(q)' /\ Drawn(x)' /\ q # x => writer'[q].seq # writer'[x].seq
    BY <1>3, <1>4, <2>2, <2>3 DEF TurnInv, WriterInv
  <2>6. QED
    BY <1>1, <1>3, <1>4, <1>6, <2>1, <2>4, <2>5 DEF TurnInv, WriterInv
<1>10. ToldInv'
  BY <1>1, <1>6 DEF TurnInv, ToldInv
<1>11. QED
  BY <1>5, <1>6, <1>9, <1>10 DEF TurnInv

-----------------------------------------------------------------------------
(* The messages.                                                             *)

LEMMA SameCount == \A S : Turn!Cardinality(S) = Cardinality(S)
  BY Zenon DEF Turn!Cardinality, Cardinality

LEMMA Appending ==
  ASSUME TurnInv, NEW p \in Writers, NEW o \in {1, 2}, writer[p].pc # "idle",
         Turn!Said(writer[p].turn, o) \in Texts, Turn!Append(p, o)
  PROVE  /\ ThreadInv'
         /\ \E new \in Message :
              /\ ledger' = ledger \cup {new}
              /\ new.name = writer[p].turn.name /\ new.ordinal = o /\ new.text = Turn!Said(writer[p].turn, o)
              /\ new.seq = writer[p].seq /\ \A e \in ledger : e.pos < new.pos
<1> DEFINE n == Cardinality(ledger)
           new == [name |-> writer[p].turn.name, ordinal |-> o, text |-> Turn!Said(writer[p].turn, o),
                   seq |-> writer[p].seq, pos |-> n + 1, next |-> FALSE]
<1>1. ledger' = ledger \cup {new}
  BY SameCount DEF Turn!Append
<1>2. n \in Nat /\ IsFiniteSet(ledger) /\ {e.pos : e \in ledger} = 1..n
  BY FS_CardinalityType DEF TurnInv, LedgerInv, ThreadInv
<1>3. writer[p].turn \in Turn!Turn /\ writer[p].seq \in Nat
  BY WriterIs DEF TurnInv
<1>4. writer[p].turn.name \in Turn!Names
  BY <1>3 DEF Turn!Turn
<1>5. /\ new \in Message /\ new.name = writer[p].turn.name /\ new.ordinal = o
      /\ new.text = Turn!Said(writer[p].turn, o) /\ new.seq = writer[p].seq /\ new.pos = n + 1
  BY <1>2, <1>3, <1>4 DEF Message
<1> HIDE DEF new
<1>6. \A e \in ledger : e.pos \in 1..n
  BY <1>2
<1>7. \A e \in ledger : e.pos < new.pos
  BY <1>2, <1>5, <1>6
<1>8. new \notin ledger
  BY <1>2, <1>5, <1>6
<1>9. IsFiniteSet(ledger') /\ Cardinality(ledger') = n + 1
  BY <1>1, <1>2, <1>8, FS_AddElement
<1>10. {e.pos : e \in ledger'} = 1..(n + 1)
  <2>1. {e.pos : e \in ledger'} = {e.pos : e \in ledger} \cup {new.pos}
    BY <1>1
  <2> HIDE DEF n
  <2>2. (1..n) \cup {n + 1} = 1..(n + 1)
    BY <1>2
  <2>3. QED
    BY <1>2, <1>5, <2>1, <2>2
<1>11. \A e, f \in ledger' : e.pos = f.pos => e = f
  BY <1>1, <1>2, <1>5, <1>6 DEF TurnInv, LedgerInv, ThreadInv
<1>12. ThreadInv'
  BY <1>9, <1>10, <1>11 DEF ThreadInv
<1>13. QED
  BY <1>1, <1>5, <1>7, <1>12

\* What was recorded of a turn stays recorded when a message is added.
LEMMA HasGrows ==
  ASSUME NEW new, ledger' = ledger \cup {new}
  PROVE  /\ \A t, s, o : Has(t, s, o) => Has(t, s, o)'
         /\ \A t, s : Full(t, s) => Full(t, s)'
  BY DEF Has, Full

LEMMA UserStep ==
  ASSUME TurnInv, NEW p \in Writers, Turn!WriteUser(p)
  PROVE  TurnInv'
<1> DEFINE w == writer[p]
           to == IF w.turn.reply = Turn!None THEN "assemble" ELSE "reply"
<1>1. w.pc = "user" /\ ~Turn!Taken(p, 1) /\ Turn!Append(p, 1) /\ Turn!Goto(p, to) /\ UNCHANGED drawn
  BY DEF Turn!WriteUser, Turn!At
<1>2. w \in Busy /\ w.turn \in Turn!Turn /\ w.seq \in Nat /\ Turn!Said(w.turn, 1) \in Texts
  BY <1>1, WriterIs DEF TurnInv, Turn!Said, Turn!Turn
<1>3. PICK new \in Message :
        /\ ThreadInv' /\ ledger' = ledger \cup {new}
        /\ new.name = w.turn.name /\ new.ordinal = 1 /\ new.text = Turn!Said(w.turn, 1) /\ new.seq = w.seq
        /\ \A e \in ledger : e.pos < new.pos
  BY <1>1, <1>2, Appending
<1>4. /\ writer' \in [Writers -> Busy \cup {Turn!Idle}]
      /\ writer'[p].pc = to /\ writer'[p].turn = w.turn /\ writer'[p].seq = w.seq
      /\ \A q \in Writers \ {p} : writer'[q] = writer[q]
      /\ UNCHANGED <<asked, answers>>
  BY <1>1, Going DEF TurnInv
<1>5. \A e \in ledger : e \in Message /\ e.ordinal \in {1, 2} /\ e.pos \in Nat /\ e.seq # new.seq
  BY <1>1, <1>3 DEF TurnInv, TurnTypes, Message, WriterInv
<1>6. TurnTypes'
  BY <1>1, <1>3, <1>4 DEF TurnInv, TurnTypes
<1>7. new.pos \in Nat
  BY DEF Message
<1>8. ASSUME NEW e \in ledger, new.name # Turn!Unnamed, e.name = new.name PROVE FALSE
  <2>1. e.ordinal = 2
    BY <1>1, <1>3, <1>5, <1>8 DEF Turn!Taken, Turn!Stored
  <2>2. PICK f \in ledger : f.ordinal = 1 /\ f.seq = e.seq
    BY <2>1 DEF TurnInv, LedgerInv, ReplyInv
  <2>3. f.name = e.name
    BY <2>2 DEF TurnInv, LedgerInv, SeqInv
  <2>4. QED
    BY <1>1, <1>3, <1>8, <2>2, <2>3 DEF Turn!Taken, Turn!Stored
<1>9. SeqInv' /\ NameInv' /\ ReplyInv' /\ AskedInv'
  <2>1. SeqInv'
    BY <1>3, <1>5, <1>7 DEF TurnInv, LedgerInv, SeqInv
  <2>2. NameInv'
    BY <1>3, <1>8 DEF TurnInv, LedgerInv, NameInv
  <2>3. ReplyInv'
    BY <1>3 DEF TurnInv, LedgerInv, ReplyInv
  <2>4. AskedInv'
    BY <1>3, <1>4, <1>8 DEF TurnInv, LedgerInv, AskedInv
  <2>5. QED
    BY <2>1, <2>2, <2>3, <2>4
<1>10. /\ \A t, s, o : Has(t, s, o) => Has(t, s, o)'
       /\ \A t, s : Full(t, s) => Full(t, s)'
  BY <1>3, HasGrows
<1>11. Has(writer[p].turn, writer[p].seq, 1)'
  BY <1>3, <1>4 DEF Has
<1>12. ToldInv'
  BY <1>4, <1>10 DEF TurnInv, ToldInv
<1>13. WriterInv'
  <2>1. \A q \in Writers : Drawn(q)' <=> Drawn(q)
    BY <1>1, <1>4 DEF Drawn
  <2>2. \A q \in Writers : writer'[q].seq = writer[q].seq /\ writer'[q].turn = writer[q].turn
    BY <1>4
  <2>3. \A e \in ledger' : e.seq <= drawn'
    BY <1>1, <1>3 DEF TurnInv, WriterInv, Drawn
  <2>4. \A q \in Writers : writer'[q].pc = "user" => \A e \in ledger' : e.seq # writer'[q].seq
    BY <1>1, <1>3, <1>4 DEF TurnInv, WriterInv, Drawn
  <2>5. ASSUME NEW q \in Writers, writer'[q].pc = "reply"
        PROVE  /\ Has(writer[q].turn, writer[q].seq, 1)' /\ writer'[q].turn.reply # Turn!None
               /\ \A e \in ledger' : e.seq = writer'[q].seq => e.ordinal = 1
    <3>1. CASE q = p
      BY <1>3, <1>4, <1>5, <1>11, <2>5, <3>1
    <3>2. CASE q # p
      <4>1. new.seq # writer[q].seq /\ writer[q].pc = "reply" /\ writer'[q] = writer[q]
        BY <1>1, <1>3, <1>4, <2>5, <3>2 DEF TurnInv, WriterInv, Drawn
      <4>2. QED
        BY <1>3, <1>10, <4>1 DEF TurnInv, WriterInv
    <3>3. QED
      BY <3>1, <3>2
  <2>6. ASSUME NEW q \in Writers, writer'[q].pc \in {"link", "assemble", "compile"}
        PROVE  Full(writer[q].turn, writer[q].seq)'
    <3>1. CASE q = p
      <4>1. w.turn.reply = Turn!None /\ Turn!Messages(w.turn) \subseteq {1}
        BY <1>4, <2>6, <3>1 DEF Turn!Messages, Turn!Said
      <4>2. QED
        BY <1>4, <1>11, <3>1, <4>1 DEF Full
    <3>2. CASE q # p
      BY <1>4, <1>10, <2>6, <3>2 DEF TurnInv, WriterInv
    <3>3. QED
      BY <3>1, <3>2
  <2>7. QED
    BY <1>1, <1>4, <2>1, <2>2, <2>3, <2>4, <2>5, <2>6 DEF TurnInv, WriterInv
<1>14. QED
  BY <1>3, <1>6, <1>9, <1>12, <1>13 DEF TurnInv, LedgerInv

LEMMA ReplyStep ==
  ASSUME TurnInv, NEW p \in Writers, Turn!WriteReply(p)
  PROVE  TurnInv'
<1> DEFINE w == writer[p]
<1>1. w.pc = "reply" /\ Turn!Append(p, 2) /\ Turn!Goto(p, "link") /\ UNCHANGED drawn
  BY DEF Turn!WriteReply, Turn!At
<1>2. /\ w \in Busy /\ w.turn \in Turn!Turn /\ w.seq \in Nat
      /\ w.turn.reply # Turn!None /\ \A e \in ledger : e.seq = w.seq => e.ordinal = 1
  BY <1>1, WriterIs DEF TurnInv, WriterInv
<1>3. Turn!Said(w.turn, 2) \in Texts /\ w.turn = [name |-> w.turn.name, user |-> w.turn.user, reply |-> Turn!Said(w.turn, 2)]
  BY <1>2 DEF Turn!Said, Turn!Turn
<1>4. PICK first \in ledger : /\ first.name = w.turn.name /\ first.ordinal = 1
                              /\ first.text = Turn!Said(w.turn, 1) /\ first.seq = w.seq
  BY <1>1 DEF TurnInv, WriterInv, Has
<1>5. PICK new \in Message :
        /\ ThreadInv' /\ ledger' = ledger \cup {new}
        /\ new.name = w.turn.name /\ new.ordinal = 2 /\ new.text = Turn!Said(w.turn, 2) /\ new.seq = w.seq
        /\ \A e \in ledger : e.pos < new.pos
  BY <1>1, <1>2, <1>3, Appending
<1>6. /\ writer' \in [Writers -> Busy \cup {Turn!Idle}]
      /\ writer'[p].pc = "link" /\ writer'[p].turn = w.turn /\ writer'[p].seq = w.seq
      /\ \A q \in Writers \ {p} : writer'[q] = writer[q]
      /\ UNCHANGED <<asked, answers>>
  BY <1>1, Going DEF TurnInv
<1>7. TurnTypes'
  BY <1>1, <1>5, <1>6 DEF TurnInv, TurnTypes
<1>8. \A e \in ledger : e \in Message /\ e.ordinal \in {1, 2} /\ e.pos \in Nat
  BY DEF TurnInv, TurnTypes, Message
<1>9. new.pos \in Nat
  BY DEF Message
<1>10. \A e \in ledger : e.seq = new.seq => e = first
  BY <1>2, <1>4, <1>5 DEF TurnInv, LedgerInv, SeqInv
<1>11. \A e \in ledger : new.name # Turn!Unnamed /\ e.name = new.name => e = first
  BY <1>4, <1>5, <1>10 DEF TurnInv, LedgerInv, NameInv
<1>12. SeqInv' /\ NameInv' /\ ReplyInv' /\ AskedInv'
  <2>1. SeqInv'
    BY <1>4, <1>5, <1>8, <1>9, <1>10 DEF TurnInv, LedgerInv, SeqInv
  <2>2. NameInv'
    BY <1>4, <1>5, <1>11 DEF TurnInv, LedgerInv, NameInv
  <2>3. ReplyInv'
    BY <1>4, <1>5 DEF TurnInv, LedgerInv, ReplyInv
  <2>4. ASSUME NEW e \in ledger', NEW f \in ledger',
               e.name # Turn!Unnamed, e.name = f.name, e.ordinal = 1, f.ordinal = 2
        PROVE  [name |-> e.name, user |-> e.text, reply |-> f.text] \in asked'
    <3>1. CASE f = new
      <4>1. e = first
        BY <1>5, <1>11, <2>4, <3>1
      <4>2. [name |-> e.name, user |-> e.text, reply |-> f.text] = w.turn
        BY <1>3, <1>4, <1>5, <3>1, <4>1 DEF Turn!Said
      <4>3. w.turn \in asked
        BY <1>1 DEF TurnInv, WriterInv
      <4>4. QED
        BY <1>6, <4>2, <4>3
    <3>2. CASE f # new
      BY <1>5, <1>6, <2>4, <3>2 DEF TurnInv, LedgerInv, AskedInv
    <3>3. QED
      BY <3>1, <3>2
  <2>5. QED
    BY <2>1, <2>2, <2>3, <2>4 DEF AskedInv
<1>13. /\ \A t, s, o : Has(t, s, o) => Has(t, s, o)'
       /\ \A t, s : Full(t, s) => Full(t, s)'
  BY <1>5, HasGrows
<1>14. Full(writer[p].turn, writer[p].seq)'
  <2>1. Has(writer[p].turn, writer[p].seq, 1)'
    BY <1>4, <1>5, <1>6 DEF Has
  <2>2. Has(writer[p].turn, writer[p].seq, 2)'
    BY <1>5, <1>6 DEF Has
  <2>3. QED
    BY <2>1, <2>2 DEF Full, Turn!Messages
<1>15. ToldInv'
  BY <1>6, <1>13 DEF TurnInv, ToldInv
<1>16. WriterInv'
  <2>1. \A q \in Writers : Drawn(q)' <=> Drawn(q)
    BY <1>1, <1>6 DEF Drawn
  <2>2. \A q \in Writers : writer'[q].seq = writer[q].seq /\ writer'[q].turn = writer[q].turn
    BY <1>6
  <2>3. \A e \in ledger' : e.seq <= drawn'
    BY <1>1, <1>5 DEF TurnInv, WriterInv, Drawn
  <2>4. \A q \in Writers \ {p} : Drawn(q) => new.seq # writer[q].seq
    BY <1>1, <1>5 DEF TurnInv, WriterInv, Drawn
  <2>5. \A q \in Writers : writer'[q].pc = "user" => \A e \in ledger' : e.seq # writer'[q].seq
    BY <1>5, <1>6, <2>4 DEF TurnInv, WriterInv, Drawn
  <2>6. ASSUME NEW q \in Writers, writer'[q].pc = "reply"
        PROVE  /\ Has(writer[q].turn, writer[q].seq, 1)' /\ writer'[q].turn.reply # Turn!None
               /\ \A e \in ledger' : e.seq = writer'[q].seq => e.ordinal = 1
    <3>1. new.seq # writer[q].seq /\ writer[q].pc = "reply" /\ writer'[q] = writer[q]
      BY <1>6, <2>4, <2>6 DEF Drawn
    <3>2. QED
      BY <1>5, <1>13, <3>1 DEF TurnInv, WriterInv
  <2>7. ASSUME NEW q \in Writers, writer'[q].pc \in {"link", "assemble", "compile"}
        PROVE  Full(writer[q].turn, writer[q].seq)'
    BY <1>6, <1>13, <1>14, <2>7 DEF TurnInv, WriterInv
  <2>8. QED
    BY <1>1, <1>6, <2>1, <2>2, <2>3, <2>5, <2>6, <2>7 DEF TurnInv, WriterInv
<1>17. QED
  BY <1>5, <1>7, <1>12, <1>15, <1>16 DEF TurnInv, LedgerInv

\* The event that is linked keeps all that the properties speak of.
Kept(e, f) == /\ f.name = e.name /\ f.ordinal = e.ordinal /\ f.text = e.text
              /\ f.seq = e.seq /\ f.pos = e.pos

LEMMA LinkStep ==
  ASSUME TurnInv, NEW p \in Writers, Turn!UpdateNextEventId(p)
  PROVE  TurnInv'
<1> DEFINE Linked(e) == IF e \in Turn!Own(p) /\ e.ordinal = 1 THEN [e EXCEPT !.next = TRUE] ELSE e
           m == [e \in ledger |-> Linked(e)]
<1>1. /\ writer[p].pc = "link" /\ Turn!Goto(p, "assemble") /\ UNCHANGED drawn
      /\ ledger' = {Linked(e) : e \in ledger}
  BY DEF Turn!UpdateNextEventId, Turn!At
<1>2. /\ writer' \in [Writers -> Busy \cup {Turn!Idle}]
      /\ writer'[p].pc = "assemble" /\ writer'[p].turn = writer[p].turn /\ writer'[p].seq = writer[p].seq
      /\ \A q \in Writers \ {p} : writer'[q] = writer[q]
      /\ UNCHANGED <<asked, answers>>
  BY <1>1, Going DEF TurnInv
<1>3. \A e \in ledger : e \in Message
  BY DEF TurnInv, TurnTypes
<1>4. \A e \in ledger : Linked(e) \in Message /\ Kept(e, Linked(e))
  BY <1>3 DEF Message, Kept
<1> HIDE DEF Linked, m
<1>5. \A e, f \in ledger : Linked(e) = Linked(f) => e = f
  <2>1. \A e, f \in ledger : Linked(e) = Linked(f) => e.pos = f.pos
    BY <1>4 DEF Kept
  <2>2. QED
    BY <2>1 DEF TurnInv, LedgerInv, ThreadInv
<1>6. TurnTypes'
  BY <1>1, <1>2, <1>4 DEF TurnInv, TurnTypes
<1>7. IsFiniteSet(ledger) /\ Cardinality(ledger) \in Nat
  BY FS_CardinalityType DEF TurnInv, LedgerInv, ThreadInv
<1>8. IsFiniteSet(ledger') /\ Cardinality(ledger') = Cardinality(ledger)
  <2>1. m \in [ledger -> ledger'] /\ (\A e \in ledger : m[e] = Linked(e)) /\ \A f \in ledger' : \E e \in ledger : m[e] = f
    BY <1>1 DEF m
  <2>2. \A e, f \in ledger : m[e] = m[f] => e = f
    BY <1>5, <2>1
  <2>3. m \in Bijection(ledger, ledger')
    BY <2>1, <2>2 DEF Bijection, Injection, Surjection, IsInjective
  <2>4. QED
    BY <1>7, <2>3, FS_Bijection DEF ExistsBijection
<1>9. {e.pos : e \in ledger'} = {e.pos : e \in ledger}
  BY <1>1, <1>4 DEF Kept
<1>10. \A f \in ledger' : \E e \in ledger : f = Linked(e) /\ Kept(e, f)
  BY <1>1, <1>4
<1>11. \A e \in ledger : \E f \in ledger' : Kept(e, f)
  BY <1>1, <1>4
<1>12. \A t, s, o : Has(t, s, o) => Has(t, s, o)'
  BY <1>11 DEF Has, Kept
<1>13. \A t, s : Full(t, s) => Full(t, s)'
  BY <1>12 DEF Full
<1>14. LedgerInv'
  <2>1. ThreadInv'
    <3>1. \A e, f \in ledger' : e.pos = f.pos => e = f
      BY <1>10 DEF Kept, TurnInv, LedgerInv, ThreadInv
    <3>2. QED
      BY <1>8, <1>9, <3>1 DEF TurnInv, LedgerInv, ThreadInv
  <2>2. SeqInv'
    BY <1>10 DEF Kept, TurnInv, LedgerInv, SeqInv
  <2>3. NameInv'
    BY <1>10 DEF Kept, TurnInv, LedgerInv, NameInv
  <2>4. ReplyInv'
    BY <1>10, <1>11 DEF Kept, TurnInv, LedgerInv, ReplyInv
  <2>5. AskedInv'
    BY <1>2, <1>10 DEF Kept, TurnInv, LedgerInv, AskedInv
  <2>6. QED
    BY <2>1, <2>2, <2>3, <2>4, <2>5 DEF LedgerInv
<1>15. ToldInv'
  BY <1>2, <1>13 DEF TurnInv, ToldInv
<1>16. WriterInv'
  <2>1. \A q \in Writers : Drawn(q)' <=> Drawn(q)
    BY <1>1, <1>2 DEF Drawn
  <2>2. \A q \in Writers : writer'[q].seq = writer[q].seq /\ writer'[q].turn = writer[q].turn
    BY <1>2
  <2>3. \A e \in ledger' : e.seq <= drawn'
    BY <1>1, <1>10 DEF Kept, TurnInv, WriterInv
  <2>4. \A q \in Writers : writer'[q].pc = "user" => \A e \in ledger' : e.seq # writer'[q].seq
    BY <1>2, <1>10 DEF Kept, TurnInv, WriterInv
  <2>5. ASSUME NEW q \in Writers, writer'[q].pc = "reply"
        PROVE  /\ Has(writer[q].turn, writer[q].seq, 1)' /\ writer'[q].turn.reply # Turn!None
               /\ \A e \in ledger' : e.seq = writer'[q].seq => e.ordinal = 1
    <3>1. writer[q].pc = "reply" /\ writer'[q] = writer[q]
      BY <1>2, <2>5
    <3>2. QED
      BY <1>10, <1>12, <3>1 DEF Kept, TurnInv, WriterInv
  <2>6. ASSUME NEW q \in Writers, writer'[q].pc \in {"link", "assemble", "compile"}
        PROVE  Full(writer[q].turn, writer[q].seq)'
    BY <1>1, <1>2, <1>13, <2>6 DEF TurnInv, WriterInv
  <2>7. QED
    BY <1>1, <1>2, <2>1, <2>2, <2>3, <2>4, <2>5, <2>6 DEF TurnInv, WriterInv
<1>17. QED
  BY <1>6, <1>14, <1>15, <1>16 DEF TurnInv

LEMMA DieStep ==
  ASSUME TurnInv, NEW p \in Writers, Turn!Die(p)
  PROVE  TurnInv'
<1>1. writer' = [writer EXCEPT ![p] = Turn!Idle] /\ UNCHANGED <<ledger, drawn, asked, answers>>
  BY DEF Turn!Die, Turn!recorded
<1>2. TurnTypes' /\ LedgerInv' /\ WriterInv'
  BY <1>1, EndKeeps
<1>3. ToldInv'
  BY <1>1 DEF TurnInv, ToldInv, Full, Has
<1>4. QED
  BY <1>2, <1>3 DEF TurnInv

\* A call that ends and says, rightly, that its turn is recorded.
LEMMA TellingEnd ==
  ASSUME TurnInv, NEW p \in Writers, NEW a, Turn!Answer(p, a), UNCHANGED <<ledger, drawn>>,
         \E s \in Nat : Full(writer[p].turn, s)
  PROVE  TurnInv'
<1>1. writer' = [writer EXCEPT ![p] = Turn!Idle] /\ answers' = answers \cup {<<writer[p].turn, a>>} /\ UNCHANGED asked
  BY DEF Turn!Answer
<1>2. TurnTypes' /\ LedgerInv' /\ WriterInv'
  BY <1>1, EndKeeps
<1>3. ToldInv'
  BY <1>1, Telling DEF TurnInv
<1>4. QED
  BY <1>2, <1>3 DEF TurnInv

LEMMA ClaimStep ==
  ASSUME TurnInv, NEW p \in Writers, Turn!Claim(p) \/ Turn!Reclaim(p)
  PROVE  TurnInv'
<1> DEFINE claim == Turn!ClaimAgentTurn(writer[p].turn)
<1>1. writer[p].pc \in {"claim", "reclaim"} /\ UNCHANGED <<ledger, drawn>>
  BY DEF Turn!Claim, Turn!Reclaim, Turn!At, Turn!recorded
<1>2. claim \in {"new", "duplicate", "conflict"}
  BY DEF Turn!ClaimAgentTurn
<1>3. claim = "duplicate" => \E s \in Nat : Full(writer[p].turn, s)
  BY <1>1, WriterIs, ClaimFinds DEF TurnInv
<1> HIDE DEF claim
<1>4. \/ Turn!Goto(p, "draw") \/ \E a \in {"conflict", "error"} : Turn!Answer(p, a)
      \/ claim = "duplicate" /\ Turn!Answer(p, "duplicate")
  BY <1>2 DEF Turn!Claim, Turn!Reclaim, claim
<1>5. CASE Turn!Goto(p, "draw")
  BY <1>1, <1>5, MoveOn
<1>6. CASE \E a \in {"conflict", "error"} : Turn!Answer(p, a)
  BY <1>1, <1>6, QuietEnd
<1>7. CASE claim = "duplicate" /\ Turn!Answer(p, "duplicate")
  BY <1>1, <1>3, <1>7, TellingEnd
<1>8. QED
  BY <1>4, <1>5, <1>6, <1>7

LEMMA EndSteps ==
  ASSUME TurnInv, NEW p \in Writers, Turn!UserFails(p) \/ Turn!Fails(p) \/ Turn!AssembleEpisodeTurn(p) \/ Turn!Compile(p)
  PROVE  TurnInv'
<1>1. CASE Turn!UserFails(p)
  <2>1. writer[p].pc = "user" /\ UNCHANGED <<ledger, drawn>> /\ (Turn!Answer(p, "error") \/ Turn!Goto(p, "reclaim"))
    BY <1>1 DEF Turn!UserFails, Turn!At, Turn!recorded
  <2>2. QED
    BY <2>1, QuietEnd, MoveOn
<1>2. CASE Turn!Fails(p)
  <2>1. Turn!Answer(p, "error") /\ UNCHANGED <<ledger, drawn>>
    BY <1>2 DEF Turn!Fails, Turn!recorded
  <2>2. QED
    BY <2>1, QuietEnd
<1>3. CASE Turn!AssembleEpisodeTurn(p)
  <2>1. writer[p].pc = "assemble" /\ Turn!Goto(p, "compile") /\ UNCHANGED <<ledger, drawn>>
    BY <1>3 DEF Turn!AssembleEpisodeTurn, Turn!At
  <2>2. QED
    BY <2>1, MoveOn
<1>4. CASE Turn!Compile(p)
  <2>1. writer[p].pc = "compile" /\ Turn!Answer(p, "recorded") /\ UNCHANGED <<ledger, drawn>>
    BY <1>4 DEF Turn!Compile, Turn!At, Turn!recorded
  <2>2. writer[p].seq \in Nat /\ Full(writer[p].turn, writer[p].seq)
    BY <2>1, WriterIs DEF TurnInv, WriterInv
  <2>3. QED
    BY <2>1, <2>2, TellingEnd
<1>5. QED
  BY <1>1, <1>2, <1>3, <1>4

\* A repair, and a step of nothing here, leave all that the invariant is about.
LEMMA RepairStep ==
  ASSUME TurnInv, Turn!RepairEpisodes \/ UNCHANGED Turn!vars
  PROVE  TurnInv'
<1>1. UNCHANGED <<ledger, drawn, writer, asked, answers>>
  BY DEF Turn!RepairEpisodes, Turn!vars
<1>2. QED
  BY <1>1 DEF TurnInv, TurnTypes, LedgerInv, ThreadInv, SeqInv, NameInv, ReplyInv, AskedInv,
             WriterInv, Drawn, ToldInv, Full, Has

LEMMA TurnNext == TurnInv /\ [Turn!Next]_(Turn!vars) => TurnInv'
<1> SUFFICES ASSUME TurnInv, [Turn!Next]_(Turn!vars) PROVE TurnInv'
  OBVIOUS
<1>1. ASSUME NEW p \in Writers, Turn!Write(p) PROVE TurnInv'
  <2>1. CASE \E turn \in Turn!Turn : Turn!RememberTurn(p, turn)
    BY <2>1, RememberStep
  <2>2. CASE Turn!Claim(p) \/ Turn!Reclaim(p)
    BY <2>2, ClaimStep
  <2>3. CASE Turn!Draw(p)
    BY <2>3, DrawStep
  <2>4. CASE Turn!WriteUser(p)
    BY <2>4, UserStep
  <2>5. CASE Turn!WriteReply(p)
    BY <2>5, ReplyStep
  <2>6. CASE Turn!UpdateNextEventId(p)
    BY <2>6, LinkStep
  <2>7. CASE Turn!Die(p)
    BY <2>7, DieStep
  <2>8. CASE Turn!UserFails(p) \/ Turn!Fails(p) \/ Turn!AssembleEpisodeTurn(p) \/ Turn!Compile(p)
    BY <2>8, EndSteps
  <2>9. QED
    BY <1>1, <2>1, <2>2, <2>3, <2>4, <2>5, <2>6, <2>7, <2>8 DEF Turn!Write
<1>2. QED
  BY <1>1, RepairStep DEF Turn!Next

-----------------------------------------------------------------------------
\* What the invariant says of turns.
LEMMA OneNameOneTurn == TurnInv => Turn!OneTurn
<1> SUFFICES ASSUME TurnInv, NEW name \in Turns PROVE
      /\ \A o \in {1, 2} : Cardinality(Turn!Stored(name, o)) <= 1
      /\ \A e \in Turn!Stored(name, 1), f \in Turn!Stored(name, 2) :
           [name |-> name, user |-> e.text, reply |-> f.text] \in asked
  BY SameCount DEF Turn!OneTurn
<1>1. ASSUME NEW o \in {1, 2} PROVE Cardinality(Turn!Stored(name, o)) <= 1
  <2>1. \A e, f \in Turn!Stored(name, o) : e = f
    <3>1. \A e, f \in Turn!Stored(name, o) : e \in ledger /\ f \in ledger /\ e.seq = f.seq /\ e.ordinal = f.ordinal
      BY DEF Turn!Stored, TurnInv, LedgerInv, NameInv
    <3>2. QED
      BY <3>1 DEF TurnInv, LedgerInv, SeqInv
  <2>2. Turn!Stored(name, o) = {} \/ \E e : Turn!Stored(name, o) = {e}
    BY <2>1
  <2>3. Cardinality({}) = 0 /\ \A e : Cardinality({e}) = 1
    BY FS_EmptySet, FS_Singleton
  <2>4. Cardinality(Turn!Stored(name, o)) \in {0, 1}
    BY <2>2, <2>3
  <2>5. QED
    BY <2>4
<1>2. ASSUME NEW e \in Turn!Stored(name, 1), NEW f \in Turn!Stored(name, 2)
      PROVE  [name |-> name, user |-> e.text, reply |-> f.text] \in asked
  <2>1. e \in ledger /\ f \in ledger /\ e.name = name /\ f.name = name /\ name # Turn!Unnamed /\ e.ordinal = 1 /\ f.ordinal = 2
    BY DEF Turn!Stored
  <2>2. [name |-> e.name, user |-> e.text, reply |-> f.text] \in asked
    BY <2>1 DEF TurnInv, LedgerInv, AskedInv
  <2>3. QED
    BY <2>1, <2>2
<1>3. QED
  BY <1>1, <1>2

LEMMA Found == TurnInv => Turn!AnsweredIsRecorded
<1> SUFFICES ASSUME TurnInv, NEW t \in asked, {<<t, "recorded">>, <<t, "duplicate">>} \cap answers # {}
             PROVE  \E E \in SUBSET ledger :
                      /\ \A e \in E : e.name = t.name /\ e.text = Turn!Said(t, e.ordinal)
                      /\ {e.ordinal : e \in E} = Turn!Messages(t)
                      /\ \A e, f \in E : e.seq = f.seq /\ (e.ordinal < f.ordinal => e.pos < f.pos)
  BY DEF Turn!AnsweredIsRecorded
<1>1. t \in Turn!Turn
  BY DEF TurnInv, TurnTypes
<1>2. PICK a \in {"recorded", "duplicate"} : <<t, a>> \in answers
  OBVIOUS
<1>3. PICK s \in Nat : Full(t, s)
  BY <1>1, <1>2 DEF TurnInv, ToldInv
<1> DEFINE E == {e \in ledger : e.name = t.name /\ e.ordinal \in Turn!Messages(t) /\ e.text = Turn!Said(t, e.ordinal) /\ e.seq = s}
<1>4. \A e \in E : e.name = t.name /\ e.text = Turn!Said(t, e.ordinal)
  OBVIOUS
<1>5. {e.ordinal : e \in E} = Turn!Messages(t)
  <2>1. \A e \in E : e.ordinal \in Turn!Messages(t)
    OBVIOUS
  <2>2. \A o \in Turn!Messages(t) : \E e \in E : e.ordinal = o
    BY <1>3 DEF Full, Has
  <2> HIDE DEF E
  <2>3. QED
    BY <2>1, <2>2
<1>6. \A e, f \in E : e.seq = f.seq /\ (e.ordinal < f.ordinal => e.pos < f.pos)
  BY DEF TurnInv, LedgerInv, SeqInv
<1>7. E \in SUBSET ledger
  OBVIOUS
<1> HIDE DEF E
<1>8. QED
  BY <1>4, <1>5, <1>6, <1>7

LEMMA OneSequence == TurnInv => Turn!SeqIsOneTurn
  BY DEF TurnInv, LedgerInv, SeqInv, Turn!SeqIsOneTurn

\* A turn's name is an identity, its answers are true, and a sequence joins no two turns,
\* whoever writes, dies or repairs in between.
THEOREM TurnsAreOne == Turn!Spec => [](Turn!OneTurn /\ Turn!AnsweredIsRecorded /\ Turn!SeqIsOneTurn)
<1>1. Turn!Init => TurnInv
  BY TurnInit
<1>2. TurnInv /\ [Turn!Next]_(Turn!vars) => TurnInv'
  BY TurnNext
<1>3. TurnInv => Turn!OneTurn /\ Turn!AnsweredIsRecorded /\ Turn!SeqIsOneTurn
  BY OneNameOneTurn, Found, OneSequence
<1>4. QED
  BY <1>1, <1>2, <1>3, PTL DEF Turn!Spec

-----------------------------------------------------------------------------
(* What the writers and the repairs count.                                   *)

\* The calls that are yet to draw a sequence.
Undrawn == {p \in Writers : writer[p].pc \in {"claim", "draw"}}

\* Every sequence drawn was a call's, and no two messages of a turn are of one side: so
\* much bounds the counter and the ledger.  A repair begins at the start or at an event.
CountInv ==
  /\ calls \in 0..MaxCalls /\ deaths \in 0..MaxDeaths /\ faults \in 0..MaxFaults
  /\ IsFiniteSet(Undrawn) /\ drawn + Cardinality(Undrawn) <= calls
  /\ \A p \in Writers : IF Drawn(p) THEN writer[p].seq # 0 ELSE writer[p].pc # "idle" => writer[p].seq = 0
  /\ \A e \in ledger : e.seq # 0
  /\ assembled \subseteq {e.pos : e \in ledger} /\ since \in {0} \cup {e.pos : e \in ledger}
  /\ answers \subseteq Turn!Turn \X {"recorded", "duplicate", "conflict", "error"}

LEMMA CountInit == Turn!Init => CountInv
<1> SUFFICES ASSUME Turn!Init PROVE CountInv
  OBVIOUS
<1>1. Undrawn = {}
  BY DEF Turn!Init, Undrawn, Turn!Idle
<1>2. IsFiniteSet(Undrawn) /\ Cardinality(Undrawn) = 0
  BY <1>1, FS_EmptySet
<1>3. QED
  BY <1>2, Turning DEF Turn!Init, CountInv, Drawn, Turn!Idle, Turn!TurnAssumption

\* A call that goes on, and draws no sequence, or ends.
LEMMA CountsKept ==
  ASSUME TurnInv, CountInv, NEW p \in Writers, UNCHANGED <<drawn, calls, since>>,
         deaths' \in 0..MaxDeaths, faults' \in 0..MaxFaults,
         \A q \in Writers \ {p} : writer'[q] = writer[q],
         \/ writer'[p].pc = "idle"
         \/ /\ writer'[p].seq = writer[p].seq
            /\ \/ writer[p].pc = "claim" /\ writer'[p].pc = "draw"
               \/ Drawn(p) /\ Drawn(p)',
         {e.pos : e \in ledger} \subseteq {e.pos : e \in ledger'}, \A e \in ledger' : e.seq # 0,
         assembled' \subseteq assembled \cup {e.pos : e \in ledger},
         answers' \subseteq answers \cup {writer[p].turn} \X {"recorded", "duplicate", "conflict", "error"},
         answers' # answers => writer[p].pc # "idle"
  PROVE  CountInv'
<1>1. Undrawn' \subseteq Undrawn
  BY DEF Undrawn, Drawn
<1>2. IsFiniteSet(Undrawn) /\ drawn + Cardinality(Undrawn) <= calls /\ drawn \in Nat /\ calls \in Nat
  BY Turning DEF CountInv, TurnInv, TurnTypes, Turn!TurnAssumption
<1>3. IsFiniteSet(Undrawn') /\ Cardinality(Undrawn') <= Cardinality(Undrawn)
  BY <1>1, <1>2, FS_Subset
<1>4. Cardinality(Undrawn) \in Nat /\ Cardinality(Undrawn') \in Nat
  BY <1>2, <1>3, FS_CardinalityType
<1>5. drawn' + Cardinality(Undrawn') <= calls'
  BY <1>2, <1>3, <1>4
<1>6. \A q \in Writers : IF Drawn(q)' THEN writer'[q].seq # 0 ELSE writer'[q].pc # "idle" => writer'[q].seq = 0
  BY DEF CountInv, Drawn
<1>7. answers' \subseteq Turn!Turn \X {"recorded", "duplicate", "conflict", "error"}
  BY WriterIs DEF CountInv, TurnInv
<1>8. QED
  BY <1>3, <1>5, <1>6, <1>7 DEF CountInv

LEMMA CountWrite ==
  ASSUME TurnInv, CountInv, NEW p \in Writers, Turn!Write(p) PROVE CountInv'
<1> USE DEF Turn!bounds, Turn!recorded, Turn!At
<1>1. drawn \in Nat /\ calls \in Nat /\ IsFiniteSet(Undrawn) /\ Cardinality(Undrawn) \in Nat
  BY FS_CardinalityType, Turning DEF CountInv, TurnInv, TurnTypes, Turn!TurnAssumption
<1>2. \A q \in Writers : writer[q].pc # "idle" => writer[q].turn \in Turn!Turn
  BY WriterIs DEF TurnInv
<1>3. \A a : Turn!Answer(p, a) =>
        /\ writer'[p].pc = "idle" /\ \A q \in Writers \ {p} : writer'[q] = writer[q]
        /\ answers' = answers \cup {<<writer[p].turn, a>>}
  BY DEF Turn!Answer, TurnInv, TurnTypes, Turn!Idle
<1>4. \A pc \in {"draw", "user", "reclaim", "reply", "link", "assemble", "compile"} :
        writer[p].pc # "idle" /\ Turn!Goto(p, pc) =>
          /\ writer'[p].pc = pc /\ writer'[p].seq = writer[p].seq /\ answers' = answers
          /\ \A q \in Writers \ {p} : writer'[q] = writer[q]
  BY Going DEF TurnInv
<1>5. Turn!Fault => faults' \in 0..MaxFaults /\ UNCHANGED <<calls, deaths>>
  BY Turning DEF Turn!Fault, CountInv, Turn!TurnAssumption
<1>6. deaths \in 0..MaxDeaths /\ faults \in 0..MaxFaults /\ \A e \in ledger : e.seq # 0
  BY DEF CountInv
<1>7. ASSUME NEW turn \in Turn!Turn, Turn!RememberTurn(p, turn) PROVE CountInv'
  <2>1. /\ calls < MaxCalls /\ calls' = calls + 1 /\ UNCHANGED <<ledger, drawn, assembled, since, answers, deaths, faults>>
        /\ writer[p].pc = "idle"
        /\ writer'[p].pc \in {"claim", "draw"} /\ writer'[p].seq = 0
        /\ \A q \in Writers \ {p} : writer'[q] = writer[q]
    BY <1>7 DEF Turn!RememberTurn, TurnInv, TurnTypes, Turn!Idle
  <2>2. Undrawn' = Undrawn \cup {p} /\ p \notin Undrawn
    BY <2>1 DEF Undrawn
  <2>3. IsFiniteSet(Undrawn') /\ Cardinality(Undrawn') = Cardinality(Undrawn) + 1
    BY <1>1, <2>2, FS_AddElement
  <2>4. drawn' + Cardinality(Undrawn') <= calls' /\ calls' \in 0..MaxCalls
    <3>1. drawn + Cardinality(Undrawn) <= calls /\ MaxCalls \in Nat
      BY Turning DEF CountInv, Turn!TurnAssumption
    <3>2. QED
      BY <1>1, <2>1, <2>3, <3>1
  <2>5. \A q \in Writers : IF Drawn(q)' THEN writer'[q].seq # 0 ELSE writer'[q].pc # "idle" => writer'[q].seq = 0
    BY <2>1 DEF CountInv, Drawn
  <2>6. QED
    BY <2>1, <2>3, <2>4, <2>5 DEF CountInv
<1>8. CASE Turn!Claim(p)
  <2>1. PICK claim : /\ claim = Turn!ClaimAgentTurn(writer[p].turn)
                     /\ IF claim = "new" THEN Turn!Goto(p, "draw") ELSE Turn!Answer(p, claim)
    BY <1>8 DEF Turn!Claim
  <2>2. claim \in {"new", "duplicate", "conflict"}
    BY <2>1 DEF Turn!ClaimAgentTurn
  <2>3. writer[p].pc = "claim" /\ UNCHANGED <<ledger, drawn, assembled, since, calls, deaths, faults>>
    BY <1>8 DEF Turn!Claim
  <2>4. CASE claim = "new"
    BY <1>4, <1>6, <2>1, <2>3, <2>4, CountsKept
  <2>5. CASE claim # "new"
    BY <1>3, <1>6, <2>1, <2>2, <2>3, <2>5, CountsKept
  <2>6. QED
    BY <2>4, <2>5
<1>9. CASE Turn!Draw(p)
  <2> DEFINE new == [writer[p] EXCEPT !.pc = "user", !.seq = drawn + 1]
  <2>1. /\ writer[p].pc = "draw" /\ drawn' = drawn + 1 /\ writer' = [writer EXCEPT ![p] = new]
        /\ UNCHANGED <<ledger, assembled, since, answers, calls, deaths, faults>>
    BY <1>9 DEF Turn!Draw, Turn!NextTurnSeq
  <2>2. writer[p] \in Busy
    BY <2>1, WriterIs DEF TurnInv
  <2>3. new.pc = "user" /\ new.seq = drawn + 1
    BY <2>2 DEF Busy
  <2> HIDE DEF new
  <2>4. writer'[p] = new /\ \A q \in Writers \ {p} : writer'[q] = writer[q]
    BY <2>1 DEF TurnInv, TurnTypes
  <2>5. Undrawn' = Undrawn \ {p} /\ p \in Undrawn
    BY <2>1, <2>3, <2>4 DEF Undrawn
  <2>6. IsFiniteSet(Undrawn') /\ Cardinality(Undrawn') = Cardinality(Undrawn) - 1
    BY <1>1, <2>5, FS_RemoveElement
  <2>7. drawn' + Cardinality(Undrawn') <= calls'
    BY <1>1, <2>1, <2>6 DEF CountInv
  <2>8. \A q \in Writers : IF Drawn(q)' THEN writer'[q].seq # 0 ELSE writer'[q].pc # "idle" => writer'[q].seq = 0
    BY <1>1, <2>3, <2>4 DEF CountInv, Drawn
  <2>9. QED
    BY <2>1, <2>6, <2>7, <2>8 DEF CountInv
<1>10. ASSUME NEW o \in {1, 2}, NEW pc \in {"reply", "link", "assemble"}, writer[p].pc \in {"user", "reply"},
              Turn!Append(p, o), Turn!Goto(p, pc), UNCHANGED <<drawn, assembled, since, calls, deaths, faults>>
       PROVE  CountInv'
  <2>1. Drawn(p) /\ writer[p].seq # 0 /\ writer[p].pc # "idle"
    BY <1>10 DEF Drawn, CountInv
  <2> DEFINE said == [name |-> writer[p].turn.name, ordinal |-> o, text |-> Turn!Said(writer[p].turn, o),
                      seq |-> writer[p].seq, pos |-> Turn!Cardinality(ledger) + 1, next |-> FALSE]
  <2>2. ledger' = ledger \cup {said} /\ said.seq = writer[p].seq
    BY <1>10 DEF Turn!Append
  <2> HIDE DEF said
  <2>3. \A f \in ledger' : f.seq # 0
    BY <1>6, <2>1, <2>2
  <2>4. {f.pos : f \in ledger} \subseteq {f.pos : f \in ledger'}
    BY <2>2
  <2>5. Drawn(p)' /\ writer'[p].seq = writer[p].seq /\ answers' = answers /\ \A q \in Writers \ {p} : writer'[q] = writer[q]
    BY <1>4, <1>10, <2>1 DEF Drawn
  <2>6. QED
    BY <1>6, <1>10, <2>1, <2>3, <2>4, <2>5, CountsKept
<1>11. CASE Turn!WriteUser(p)
  <2>1. PICK pc \in {"assemble", "reply"} : Turn!Goto(p, pc)
    BY <1>11 DEF Turn!WriteUser
  <2>2. QED
    BY <1>10, <1>11, <2>1 DEF Turn!WriteUser
<1>12. CASE Turn!WriteReply(p)
  BY <1>10, <1>12 DEF Turn!WriteReply
<1>13. CASE Turn!UserFails(p)
  <2>1. /\ writer[p].pc = "user" /\ UNCHANGED <<ledger, drawn, assembled, since, calls, deaths>>
        /\ faults' \in 0..MaxFaults /\ (Turn!Answer(p, "error") \/ Turn!Goto(p, "reclaim"))
    BY <1>5, <1>6, <1>13 DEF Turn!UserFails
  <2>2. CASE Turn!Answer(p, "error")
    BY <1>3, <1>6, <2>1, <2>2, CountsKept
  <2>3. CASE Turn!Goto(p, "reclaim")
    <3>1. Drawn(p) /\ Drawn(p)' /\ writer'[p].seq = writer[p].seq
      BY <1>4, <2>1, <2>3 DEF Drawn
    <3>2. QED
      BY <1>4, <1>6, <2>1, <2>3, <3>1, CountsKept
  <2>4. QED
    BY <2>1, <2>2, <2>3
<1>14. CASE Turn!Reclaim(p)
  <2>1. PICK a \in {"error", "duplicate", "conflict"} : Turn!Answer(p, a)
    BY <1>14 DEF Turn!Reclaim, Turn!ClaimAgentTurn
  <2>2. writer[p].pc = "reclaim" /\ UNCHANGED <<ledger, drawn, assembled, since, calls, deaths, faults>>
    BY <1>14 DEF Turn!Reclaim
  <2>3. QED
    BY <1>3, <1>6, <2>1, <2>2, CountsKept
<1>15. CASE Turn!UpdateNextEventId(p)
  <2> DEFINE Named(e) == IF e \in Turn!Own(p) /\ e.ordinal = 1 THEN [e EXCEPT !.next = TRUE] ELSE e
  <2>1. /\ writer[p].pc = "link" /\ Turn!Goto(p, "assemble") /\ ledger' = {Named(e) : e \in ledger}
        /\ UNCHANGED <<drawn, assembled, since, calls, deaths, faults>>
    BY <1>15 DEF Turn!UpdateNextEventId
  <2>2. \A e \in ledger : e \in Message
    BY DEF TurnInv, TurnTypes
  <2>3. \A e \in ledger : Named(e).seq = e.seq /\ Named(e).pos = e.pos
    BY <2>2 DEF Message
  <2> HIDE DEF Named
  <2>4. (\A f \in ledger' : f.seq # 0) /\ {e.pos : e \in ledger} \subseteq {e.pos : e \in ledger'}
    BY <1>6, <2>1, <2>3
  <2>5. Drawn(p) /\ Drawn(p)' /\ writer'[p].seq = writer[p].seq
    BY <1>4, <2>1 DEF Drawn
  <2>6. QED
    BY <1>4, <1>6, <2>1, <2>4, <2>5, CountsKept
<1>16. CASE Turn!Fails(p)
  <2>1. /\ writer[p].pc # "idle" /\ Turn!Answer(p, "error") /\ faults' \in 0..MaxFaults
        /\ UNCHANGED <<ledger, drawn, assembled, since, calls, deaths>>
    BY <1>5, <1>16 DEF Turn!Fails
  <2>2. QED
    BY <1>3, <1>6, <2>1, CountsKept
<1>17. CASE Turn!AssembleEpisodeTurn(p)
  <2>1. /\ writer[p].pc = "assemble" /\ Turn!Goto(p, "compile") /\ faults' \in 0..MaxFaults
        /\ UNCHANGED <<ledger, drawn, since, calls, deaths>>
        /\ assembled' \subseteq assembled \cup {e.pos : e \in Turn!Own(p)}
    BY <1>5, <1>6, <1>17 DEF Turn!AssembleEpisodeTurn
  <2>2. assembled' \subseteq assembled \cup {e.pos : e \in ledger}
    BY <2>1 DEF Turn!Own
  <2>3. Drawn(p) /\ Drawn(p)' /\ writer'[p].seq = writer[p].seq
    BY <1>4, <2>1 DEF Drawn
  <2>4. QED
    BY <1>4, <1>6, <2>1, <2>2, <2>3, CountsKept
<1>18. CASE Turn!Compile(p)
  BY <1>3, <1>6, <1>18, CountsKept DEF Turn!Compile
<1>19. CASE Turn!Die(p)
  <2>1. /\ deaths' \in 0..MaxDeaths /\ UNCHANGED <<ledger, drawn, assembled, since, answers, calls, faults>>
        /\ writer'[p].pc = "idle" /\ \A q \in Writers \ {p} : writer'[q] = writer[q]
    BY <1>6, <1>19, Turning DEF Turn!Die, Turn!TurnAssumption, TurnInv, TurnTypes, Turn!Idle
  <2>2. QED
    BY <1>6, <2>1, CountsKept
<1>20. QED
  BY <1>7, <1>8, <1>9, <1>11, <1>12, <1>13, <1>14, <1>15, <1>16, <1>17, <1>18, <1>19 DEF Turn!Write

\* Of some places in the thread, one is the last.
LEMMA LastPlace ==
  ASSUME NEW n \in Nat, NEW S \in SUBSET (1..n), S # {}
  PROVE  Turn!Max(S) \in S
<1> DEFINE R == OpToRel(<, Nat)
           T == {n - m : m \in S}
<1>1. \A m \in S : m \in Nat /\ m <= n /\ n - m \in Nat
  OBVIOUS
<1>2. T \in SUBSET Nat /\ T # {}
  BY <1>1
<1>3. IsWellFoundedOn(R, Nat)
  BY NatLessThanWellFounded
<1>4. \A x, y \in Nat : x < y => <<x, y>> \in R
  BY DEF OpToRel
<1> HIDE DEF R
<1>5. PICK b \in T : \A y \in T : <<y, b>> \notin R
  BY <1>2, <1>3, WFMin
<1>6. PICK last \in S : b = n - last
  BY <1>5
<1>7. \A m \in S : last >= m
  <2>1. \A m \in S : ~(n - m < n - last)
    BY <1>1, <1>2, <1>4, <1>5, <1>6
  <2>2. QED
    BY <1>1, <2>1
<1> HIDE DEF T
<1>8. QED
  BY <1>7 DEF Turn!Max

LEMMA CountRepair ==
  ASSUME TurnInv, CountInv, Turn!RepairEpisodes PROVE CountInv'
<1>1. PICK failed \in SUBSET (Turn!Page \ assembled) :
        /\ assembled' = assembled \cup (Turn!Page \ failed)
        /\ faults' = faults + Turn!Cardinality(failed) /\ faults' <= MaxFaults
        /\ since' = Turn!NextSince
        /\ UNCHANGED <<ledger, drawn, writer, asked, answers, calls, deaths>>
  BY DEF Turn!RepairEpisodes
<1>2. /\ {e.pos : e \in ledger} = 1..Cardinality(ledger) /\ Cardinality(ledger) \in Nat
      /\ \A S \in SUBSET (1..Cardinality(ledger)) : IsFiniteSet(S) /\ Cardinality(S) \in Nat
  <2>1. IsFiniteSet(ledger) /\ {e.pos : e \in ledger} = 1..Cardinality(ledger)
    BY DEF TurnInv, LedgerInv, ThreadInv
  <2>2. IsFiniteSet(1..Cardinality(ledger)) /\ Cardinality(ledger) \in Nat
    BY <2>1, FS_CardinalityType, FS_Interval
  <2>3. \A S \in SUBSET (1..Cardinality(ledger)) : IsFiniteSet(S)
    BY <2>2, FS_Subset
  <2>4. QED
    BY <2>1, <2>2, <2>3, FS_CardinalityType
<1>3. Turn!Page \subseteq 1..Cardinality(ledger)
  BY <1>2 DEF Turn!Page, Turn!Later
<1>4. assembled' \subseteq {e.pos : e \in ledger}
  BY <1>1, <1>2, <1>3 DEF CountInv
<1>5. faults' \in 0..MaxFaults
  <2>1. Turn!Cardinality(failed) \in Nat
    BY <1>2, <1>3, SameCount
  <2>2. QED
    BY <1>1, <2>1, Turning DEF CountInv, Turn!TurnAssumption
<1>6. since' \in {0} \cup {e.pos : e \in ledger}
  <2>1. CASE Turn!Cardinality(Turn!Page) = Limit
    <3>1. Turn!Page # {}
      BY <2>1, SameCount, FS_EmptySet, Turning DEF Turn!TurnAssumption
    <3>2. Turn!Max(Turn!Page) \in Turn!Page
      BY <1>2, <1>3, <3>1, LastPlace
    <3>3. QED
      BY <1>1, <1>2, <1>3, <2>1, <3>2 DEF Turn!NextSince
  <2>2. CASE Turn!Cardinality(Turn!Page) # Limit
    BY <1>1, <2>2 DEF Turn!NextSince
  <2>3. QED
    BY <2>1, <2>2
<1>7. QED
  BY <1>1, <1>4, <1>5, <1>6 DEF CountInv, Undrawn, Drawn

LEMMA CountNext == TurnInv /\ CountInv /\ [Turn!Next]_(Turn!vars) => CountInv'
<1>1. UNCHANGED Turn!vars /\ CountInv => CountInv'
  BY DEF Turn!vars, CountInv, Undrawn, Drawn
<1>2. QED
  BY <1>1, CountWrite, CountRepair DEF Turn!Next

LEMMA TurnTyped == TurnInv /\ CountInv => Turn!TypeOK
<1> SUFFICES ASSUME TurnInv, CountInv PROVE Turn!TypeOK
  OBVIOUS
<1>1. /\ drawn \in Nat /\ calls \in 0..MaxCalls /\ MaxCalls \in Nat /\ IsFiniteSet(Undrawn)
      /\ drawn + Cardinality(Undrawn) <= calls /\ Cardinality(Undrawn) \in Nat
  BY Turning, FS_CardinalityType DEF CountInv, TurnInv, TurnTypes, Turn!TurnAssumption
<1>2. drawn \in 0..MaxCalls
  BY <1>1
<1>3. \A e \in ledger : e \in Message /\ e.seq \in 1..drawn /\ e.ordinal \in 1..2
  <2>1. \A e \in ledger : e \in Message /\ e.seq \in Nat /\ e.ordinal \in {1, 2} /\ e.seq # 0 /\ e.seq <= drawn
    BY DEF TurnInv, TurnTypes, WriterInv, CountInv, Message
  <2>2. QED
    BY <1>1, <2>1
<1>4. IsFiniteSet(ledger) /\ {e.pos : e \in ledger} = 1..Cardinality(ledger) /\ Cardinality(ledger) \in Nat
  BY FS_CardinalityType DEF TurnInv, LedgerInv, ThreadInv
<1>5. Cardinality(ledger) <= 2 * MaxCalls
  <2> DEFINE m == [e \in ledger |-> <<e.seq, e.ordinal>>]
             S == (1..drawn) \X (1..2)
  <2>1. m \in [ledger -> S]
    BY <1>3
  <2>2. \A e, f \in ledger : m[e] = m[f] => e = f
    BY DEF TurnInv, LedgerInv, SeqInv
  <2>3. drawn \in Int /\ 1 \in Int /\ 2 \in Int
    BY <1>1
  <2>4. IsFiniteSet(1..drawn) /\ Cardinality(1..drawn) = drawn
    BY <1>1, <2>3, FS_Interval
  <2>5. IsFiniteSet(1..2) /\ Cardinality(1..2) = 2
    <3>1. PICK b \in Int : b = 2
      BY <2>3
    <3>2. IsFiniteSet(1..b) /\ Cardinality(1..b) = IF 1 > b THEN 0 ELSE b - 1 + 1
      BY <2>3, FS_Interval
    <3>3. Cardinality(1..b) = b
      BY <3>1, <3>2
    <3>4. QED
      BY <3>1, <3>2, <3>3, Zenon
  <2>6. IsFiniteSet(S) /\ Cardinality(S) = drawn * 2
    <3>1. PICK A : A = 1..drawn
      OBVIOUS
    <3>2. PICK B : B = 1..2
      OBVIOUS
    <3>3. IsFiniteSet(A \X B) /\ Cardinality(A \X B) = drawn * 2
      <4>1. IsFiniteSet(A) /\ Cardinality(A) = drawn /\ IsFiniteSet(B) /\ Cardinality(B) = 2
        BY <2>4, <2>5, <3>1, <3>2
      <4>2. IsFiniteSet(A \X B) /\ Cardinality(A \X B) = Cardinality(A) * Cardinality(B)
        BY <4>1, FS_Product
      <4>3. QED
        BY <4>1, <4>2
    <3>4. QED
      BY <3>1, <3>2, <3>3
  <2> HIDE DEF m, S
  <2>7. m \in Injection(ledger, S)
    BY <2>1, <2>2 DEF Injection, IsInjective
  <2>8. Cardinality(ledger) <= drawn * 2
    BY <2>6, <2>7, FS_Injection
  <2>9. \A c \in Nat, d \in 0..MaxCalls : c <= d * 2 => c <= 2 * MaxCalls
    BY <1>1
  <2>10. QED
    BY <1>2, <1>4, <2>8, <2>9
<1>6. ledger \subseteq Turn!Event
  <2>1. \A e \in ledger : e.pos \in 1..Cardinality(ledger)
    BY <1>4
  <2>2. \A n \in 1..Cardinality(ledger) : n \in 1..(2 * MaxCalls)
    BY <1>1, <1>4, <1>5
  <2>3. \A e \in ledger : e.seq \in 1..MaxCalls
    BY <1>1, <1>2, <1>3
  <2>4. QED
    BY <1>3, <2>1, <2>2, <2>3 DEF Message, Turn!Event
<1>7. writer \in [Writers -> Turn!Call \cup {Turn!Idle}]
  <2>1. ASSUME NEW p \in Writers, writer[p] \in Busy PROVE writer[p] \in Turn!Call
    <3>1. writer[p].pc # "idle" /\ writer[p].seq \in Nat
      BY <2>1 DEF Busy
    <3>2. writer[p].seq <= drawn
      BY <1>1, <3>1 DEF CountInv, TurnInv, WriterInv
    <3>3. writer[p].seq \in 0..MaxCalls
      BY <1>1, <1>2, <3>1, <3>2
    <3>4. QED
      BY <2>1, <3>3 DEF Busy, Turn!Call
  <2>2. QED
    BY <2>1 DEF TurnInv, TurnTypes
<1>8. since \in 0..(2 * MaxCalls)
  <2>1. \A n \in 1..Cardinality(ledger) : n \in 0..(2 * MaxCalls)
    BY <1>1, <1>4, <1>5
  <2>2. 0 \in 0..(2 * MaxCalls)
    BY <1>1
  <2>3. QED
    BY <1>4, <2>1, <2>2 DEF CountInv
<1>9. {e.pos : e \in ledger} = 1..Turn!Cardinality(ledger)
  BY <1>4, SameCount
<1>10. QED
  BY <1>2, <1>6, <1>7, <1>8, <1>9 DEF Turn!TypeOK, CountInv, TurnInv, TurnTypes

-----------------------------------------------------------------------------
(* The edges of the memory graph.                                            *)

SupportRow == [st : {"none", "active", "invalidated"}, ev : SUBSET Events]
EdgeRow == [author : {"none", "curator", "frame"}, ev : SUBSET Events]

\* The two tables, in the course of a transaction.
IsTables(s) == /\ s = [sup |-> s.sup, edge |-> s.edge, wrote |-> s.wrote]
               /\ s.sup \in [Edges!Edge -> [Edges!Author -> SupportRow]] /\ s.edge \in [Edges!Edge -> EdgeRow]

\* The edges but for ks are what their rows add up to.
ReducedBut(s, ks) == \A k \in Edges!Edge \ ks : s.edge[k] = Edges!Reduced(s.sup[k])

\* A frame in force rests on events of its episode; what asserts an edge was published.
FrameInv ==
  \A f \in Edges!Frames :
    /\ frames[f].st # "none" => frames[f].episode \in Edges!Episodes
    /\ frames[f].st = "active" => frames[f].ev \subseteq events[frames[f].episode]
    /\ \A k \in Edges!Edge : sup[k][f].st = "active" => frames[f].st # "none"

EdgeInv == Edges!TypeOK /\ Edges!EdgeIsReduced /\ Edges!FrameKeepsItsEvents /\ Edges!CleanIsProjected /\ FrameInv

-----------------------------------------------------------------------------
(* What is done to the tables.                                               *)

LEMMA CuratorApart == Edges!Curator \in Edges!Author /\ Edges!Curator \notin Edges!Frames /\ Edges!Frames \subseteq Edges!Author
  BY Edging DEF Edges!EdgeAssumption, Edges!Curator, Edges!Author, Edges!Frames

LEMMA ReducedTyped ==
  ASSUME NEW given \in [Edges!Author -> SupportRow] PROVE Edges!Reduced(given) \in EdgeRow
<1>1. \A x \in Edges!Author : given[x].ev \in SUBSET Events
  BY DEF SupportRow
<1>2. DOMAIN given = Edges!Author
  OBVIOUS
<1>3. UNION {given[x].ev : x \in Edges!Active(given)} \in SUBSET Events
  BY <1>1, <1>2 DEF Edges!Active
<1>4. QED
  BY <1>3 DEF Edges!Reduced, Edges!NoEdge, EdgeRow

LEMMA ReduceIs ==
  ASSUME NEW s, IsTables(s), NEW ks \in SUBSET Edges!Edge
  PROVE  /\ IsTables(Edges!Reduce(s, ks)) /\ Edges!Reduce(s, ks).sup = s.sup
         /\ \A k \in Edges!Edge : Edges!Reduce(s, ks).edge[k] = IF k \in ks THEN Edges!Reduced(s.sup[k]) ELSE s.edge[k]
         /\ Edges!Reduce(s, ks).wrote = s.wrote \cup {k \in ks : Edges!Reduce(s, ks).edge[k] \notin {s.edge[k], Edges!NoEdge}}
<1> DEFINE now == [k \in Edges!Edge |-> IF k \in ks THEN Edges!Reduced(s.sup[k]) ELSE s.edge[k]]
<1>1. now \in [Edges!Edge -> EdgeRow]
  <2>1. \A k \in Edges!Edge : Edges!Reduced(s.sup[k]) \in EdgeRow
    BY ReducedTyped DEF IsTables
  <2>2. QED
    BY <2>1 DEF IsTables
<1>2. PICK wrote : wrote = s.wrote \cup {k \in ks : now[k] \notin {s.edge[k], Edges!NoEdge}}
  OBVIOUS
<1>3. Edges!Reduce(s, ks) = [s EXCEPT !.edge = now, !.wrote = wrote]
  BY <1>2 DEF Edges!Reduce
<1> HIDE DEF now
<1>4. Edges!Reduce(s, ks) = [sup |-> s.sup, edge |-> now, wrote |-> wrote]
  BY <1>3 DEF IsTables
<1>5. \A k \in Edges!Edge : now[k] = IF k \in ks THEN Edges!Reduced(s.sup[k]) ELSE s.edge[k]
  BY DEF now
<1>6. QED
  BY <1>1, <1>2, <1>4, <1>5 DEF IsTables

LEMMA InvalidateIs ==
  ASSUME NEW s, IsTables(s), NEW xs, NEW ks
  PROVE  /\ IsTables(Edges!Invalidate(s, xs, ks))
         /\ Edges!Invalidate(s, xs, ks).edge = s.edge /\ Edges!Invalidate(s, xs, ks).wrote = s.wrote
         /\ \A k \in Edges!Edge, x \in Edges!Author :
              Edges!Invalidate(s, xs, ks).sup[k][x] =
                IF k \in ks /\ x \in xs /\ s.sup[k][x].st = "active"
                THEN [st |-> "invalidated", ev |-> s.sup[k][x].ev] ELSE s.sup[k][x]
<1> DEFINE Cut(row) == [row EXCEPT !.st = "invalidated"]
           now == [k \in Edges!Edge |-> [x \in Edges!Author |->
                     IF k \in ks /\ x \in xs /\ s.sup[k][x].st = "active" THEN Cut(s.sup[k][x]) ELSE s.sup[k][x]]]
<1>1. \A k \in Edges!Edge, x \in Edges!Author : s.sup[k][x] \in SupportRow
  BY DEF IsTables
<1>2. \A row \in SupportRow : Cut(row) = [st |-> "invalidated", ev |-> row.ev] /\ Cut(row) \in SupportRow
  BY DEF SupportRow
<1>3. Edges!Invalidate(s, xs, ks) = [s EXCEPT !.sup = now]
  BY DEF Edges!Invalidate
<1> HIDE DEF Cut
<1>4. now \in [Edges!Edge -> [Edges!Author -> SupportRow]]
  BY <1>1, <1>2
<1>5. \A k \in Edges!Edge, x \in Edges!Author : now[k][x] =
        IF k \in ks /\ x \in xs /\ s.sup[k][x].st = "active"
        THEN [st |-> "invalidated", ev |-> s.sup[k][x].ev] ELSE s.sup[k][x]
  BY <1>1, <1>2
<1> HIDE DEF now
<1>6. Edges!Invalidate(s, xs, ks) = [sup |-> now, edge |-> s.edge, wrote |-> s.wrote]
  BY <1>3 DEF IsTables
<1>7. QED
  BY <1>4, <1>5, <1>6 DEF IsTables

LEMMA MergeIs ==
  ASSUME NEW s, IsTables(s), NEW x \in Edges!Author, NEW given, DOMAIN given \subseteq Edges!Edge,
         \A k \in DOMAIN given : given[k] \subseteq Events
  PROVE  /\ IsTables(Edges!Merge(s, x, given))
         /\ \A k \in Edges!Edge, y \in Edges!Author :
              Edges!Merge(s, x, given).sup[k][y] =
                IF k \in DOMAIN given /\ y = x THEN [st |-> "active", ev |-> given[k]] ELSE s.sup[k][y]
         /\ \A k \in Edges!Edge : Edges!Merge(s, x, given).edge[k] =
              IF k \in DOMAIN given THEN Edges!Reduced(Edges!Merge(s, x, given).sup[k]) ELSE s.edge[k]
         /\ Edges!Merge(s, x, given).wrote = s.wrote \cup
              {k \in DOMAIN given : Edges!Merge(s, x, given).edge[k] \notin {s.edge[k], Edges!NoEdge}}
<1> DEFINE now == [k \in Edges!Edge |-> [y \in Edges!Author |->
                     IF k \in DOMAIN given /\ y = x THEN [st |-> "active", ev |-> given[k]] ELSE s.sup[k][y]]]
<1>1. \A k \in Edges!Edge, y \in Edges!Author : s.sup[k][y] \in SupportRow
  BY DEF IsTables
<1>2. \A k \in DOMAIN given : [st |-> "active", ev |-> given[k]] \in SupportRow
  BY DEF SupportRow
<1>3. now \in [Edges!Edge -> [Edges!Author -> SupportRow]]
  BY <1>1, <1>2
<1>4. PICK t : t = [s EXCEPT !.sup = now]
  OBVIOUS
<1>5. Edges!Merge(s, x, given) = Edges!Reduce(t, DOMAIN given)
  BY <1>4 DEF Edges!Merge
<1>6. \A k \in Edges!Edge, y \in Edges!Author : now[k][y] =
        IF k \in DOMAIN given /\ y = x THEN [st |-> "active", ev |-> given[k]] ELSE s.sup[k][y]
  OBVIOUS
<1> HIDE DEF now
<1>7. t = [sup |-> now, edge |-> s.edge, wrote |-> s.wrote]
  BY <1>4 DEF IsTables
<1>8. IsTables(t) /\ t.sup = now /\ t.edge = s.edge /\ t.wrote = s.wrote
  BY <1>3, <1>7 DEF IsTables
<1>9. QED
  BY <1>5, <1>6, <1>8, ReduceIs

\* What is not reduced after an invalidation is the edges that had an active row.
LEMMA InvalidateLeaves ==
  ASSUME NEW s, IsTables(s), NEW xs \in SUBSET Edges!Author, NEW ks \in SUBSET Edges!Edge, ReducedBut(s, {})
  PROVE  /\ Edges!Stale(s, xs, ks) \in SUBSET Edges!Edge
         /\ ReducedBut(Edges!Invalidate(s, xs, ks), Edges!Stale(s, xs, ks))
<1>1. Edges!Stale(s, xs, ks) \in SUBSET Edges!Edge
  BY DEF Edges!Stale
<1>2. PICK t : t = Edges!Invalidate(s, xs, ks)
  OBVIOUS
<1>3. /\ IsTables(t) /\ t.edge = s.edge
      /\ \A k \in Edges!Edge, x \in Edges!Author :
           ~(k \in ks /\ x \in xs /\ s.sup[k][x].st = "active") => t.sup[k][x] = s.sup[k][x]
  <2>1. /\ IsTables(Edges!Invalidate(s, xs, ks)) /\ Edges!Invalidate(s, xs, ks).edge = s.edge
        /\ \A k \in Edges!Edge, x \in Edges!Author :
             Edges!Invalidate(s, xs, ks).sup[k][x] =
               IF k \in ks /\ x \in xs /\ s.sup[k][x].st = "active"
               THEN [st |-> "invalidated", ev |-> s.sup[k][x].ev] ELSE s.sup[k][x]
    BY InvalidateIs
  <2>2. QED
    BY <1>2, <2>1
<1>4. ASSUME NEW k \in Edges!Edge, k \notin Edges!Stale(s, xs, ks) PROVE t.edge[k] = Edges!Reduced(t.sup[k])
  <2>1. s.sup[k] \in [Edges!Author -> SupportRow] /\ t.sup[k] \in [Edges!Author -> SupportRow]
    BY <1>3 DEF IsTables
  <2>2. \A x \in Edges!Author : ~(k \in ks /\ x \in xs /\ s.sup[k][x].st = "active")
    BY <1>4, <2>1 DEF Edges!Stale, Edges!Active
  <2>3. \A x \in Edges!Author : t.sup[k][x] = s.sup[k][x]
    BY <1>3, <2>2
  <2>4. t.sup[k] = s.sup[k]
    BY <2>1, <2>3
  <2>5. QED
    BY <1>3, <2>4 DEF ReducedBut
<1>5. QED
  BY <1>1, <1>2, <1>4 DEF ReducedBut

LEMMA ReduceLeaves ==
  ASSUME NEW s, IsTables(s), NEW ks \in SUBSET Edges!Edge, NEW js, ReducedBut(s, js)
  PROVE  ReducedBut(Edges!Reduce(s, ks), js \ ks)
  BY ReduceIs DEF ReducedBut

LEMMA MergeLeaves ==
  ASSUME NEW s, IsTables(s), NEW x \in Edges!Author, NEW given, DOMAIN given \subseteq Edges!Edge,
         \A k \in DOMAIN given : given[k] \subseteq Events, NEW js, ReducedBut(s, js)
  PROVE  ReducedBut(Edges!Merge(s, x, given), js)
<1>1. PICK t : t = Edges!Merge(s, x, given)
  OBVIOUS
<1>2. /\ IsTables(t)
      /\ \A k \in Edges!Edge : k \in DOMAIN given => t.edge[k] = Edges!Reduced(t.sup[k])
      /\ \A k \in Edges!Edge : k \notin DOMAIN given =>
           t.edge[k] = s.edge[k] /\ \A y \in Edges!Author : t.sup[k][y] = s.sup[k][y]
  <2>1. /\ IsTables(Edges!Merge(s, x, given))
        /\ \A k \in Edges!Edge, y \in Edges!Author :
             Edges!Merge(s, x, given).sup[k][y] =
               IF k \in DOMAIN given /\ y = x THEN [st |-> "active", ev |-> given[k]] ELSE s.sup[k][y]
        /\ \A k \in Edges!Edge : Edges!Merge(s, x, given).edge[k] =
             IF k \in DOMAIN given THEN Edges!Reduced(Edges!Merge(s, x, given).sup[k]) ELSE s.edge[k]
    BY MergeIs
  <2>2. QED
    BY <1>1, <2>1
<1>3. ASSUME NEW k \in Edges!Edge \ js, k \notin DOMAIN given PROVE t.edge[k] = Edges!Reduced(t.sup[k])
  <2>1. s.sup[k] \in [Edges!Author -> SupportRow] /\ t.sup[k] \in [Edges!Author -> SupportRow]
    BY <1>2 DEF IsTables
  <2>2. t.sup[k] = s.sup[k]
    BY <1>2, <1>3, <2>1
  <2>3. QED
    BY <1>2, <1>3, <2>2 DEF ReducedBut
<1>4. QED
  BY <1>1, <1>2, <1>3 DEF ReducedBut

-----------------------------------------------------------------------------
(* The curator and the projector.                                            *)

Curates == Edges!Entrances(Edges!Episodes) \cup Edges!Related

LEMMA CuratesTyped ==
  ASSUME events \in [Edges!Episodes -> SUBSET Events], NEW es \in SUBSET Edges!Episodes
  PROVE  /\ Edges!Entrances(es) \subseteq Edges!Edge /\ Edges!Related \subseteq Edges!Edge
         /\ \A ks \in SUBSET (Edges!Entrances(Edges!Episodes) \cup Edges!Related) :
              /\ DOMAIN Edges!Curated(ks) = ks
              /\ \A k \in ks : /\ Edges!Curated(ks)[k] = events[k[1]] \cup events[k[2]]
                               /\ Edges!Curated(ks)[k] \subseteq Events
<1>1. Edges!Episodes \subseteq Nat
  BY DEF Edges!Episodes
<1>2. Edges!Entrances(es) \subseteq {k \in Edges!Episodes \X Edges!Episodes : k[1] <= k[2]}
  BY <1>1 DEF Edges!Entrances, Edges!Entrance, Edges!Alive
<1>3. Edges!Related \subseteq {k \in Edges!Episodes \X Edges!Episodes : k[1] <= k[2]}
  <2>1. PICK bucket : bucket = {e \in Edges!Alive : events[e] \cap OnIssue # {}} /\ bucket \subseteq Edges!Episodes
    BY DEF Edges!Alive
  <2>2. Edges!Related \subseteq {k \in bucket \X bucket : k[1] < k[2]}
    BY <2>1 DEF Edges!Related
  <2>3. \A k \in bucket \X bucket : k \in Edges!Episodes \X Edges!Episodes /\ (k[1] < k[2] => k[1] <= k[2])
    <3>1. \A a, b \in bucket : a \in Edges!Episodes /\ b \in Edges!Episodes /\ (a < b => a <= b)
      BY <1>1, <2>1
    <3>2. QED
      BY <3>1
  <2>4. QED
    BY <2>2, <2>3
<1>4. Edges!Entrances(Edges!Episodes) \subseteq Edges!Episodes \X Edges!Episodes
  BY DEF Edges!Entrances, Edges!Entrance, Edges!Alive
<1>5. \A k \in Edges!Episodes \X Edges!Episodes : events[k[1]] \cup events[k[2]] \subseteq Events
  OBVIOUS
<1>6. QED
  BY <1>2, <1>3, <1>4, <1>5 DEF Edges!Edge, Edges!Curated

\* What a curation leaves of the curator's row on edge k.
CuratorRow(s, k) ==
  IF k \in Curates THEN [st |-> "active", ev |-> events[k[1]] \cup events[k[2]]]
  ELSE IF s.sup[k][Edges!Curator].st = "active" THEN [st |-> "invalidated", ev |-> s.sup[k][Edges!Curator].ev]
  ELSE s.sup[k][Edges!Curator]

LEMMA CurateIs ==
  ASSUME NEW s, IsTables(s), ReducedBut(s, {}), events \in [Edges!Episodes -> SUBSET Events]
  PROVE  /\ IsTables(Edges!Curate(s)) /\ ReducedBut(Edges!Curate(s), {})
         /\ \A k \in Edges!Edge : /\ Edges!Curate(s).sup[k][Edges!Curator] = CuratorRow(s, k)
                                  /\ \A x \in Edges!Frames : Edges!Curate(s).sup[k][x] = s.sup[k][x]
         /\ \A k \in Edges!Curate(s).wrote \ s.wrote : k \in Edges!Edge /\ Edges!Curate(s).edge[k] # s.edge[k]
<1> DEFINE cut == Edges!Invalidate(s, {Edges!Curator}, Edges!Edge)
           given == Edges!Curated(Curates)
           done == Edges!Merge(cut, Edges!Curator, given)
           stale == Edges!Stale(s, {Edges!Curator}, Edges!Edge)
<1>1. /\ IsTables(cut) /\ cut.edge = s.edge /\ cut.wrote = s.wrote
      /\ \A k \in Edges!Edge, x \in Edges!Author : cut.sup[k][x] =
           IF x = Edges!Curator /\ s.sup[k][x].st = "active"
           THEN [st |-> "invalidated", ev |-> s.sup[k][x].ev] ELSE s.sup[k][x]
  BY InvalidateIs
<1>2. stale \in SUBSET Edges!Edge /\ ReducedBut(cut, stale)
  BY CuratorApart, InvalidateLeaves
<1>3. /\ DOMAIN given = Curates /\ Curates \subseteq Edges!Edge
      /\ \A k \in Curates : given[k] = events[k[1]] \cup events[k[2]] /\ given[k] \subseteq Events
  BY CuratesTyped DEF Curates
<1>4. Edges!Curate(s) = Edges!Reduce(done, stale)
  BY DEF Edges!Curate, Curates
<1> HIDE DEF cut, given, stale
<1>5. /\ IsTables(done)
      /\ \A k \in Edges!Edge, y \in Edges!Author : done.sup[k][y] =
           IF k \in Curates /\ y = Edges!Curator THEN [st |-> "active", ev |-> given[k]] ELSE cut.sup[k][y]
      /\ \A k \in Edges!Edge : done.edge[k] = IF k \in Curates THEN Edges!Reduced(done.sup[k]) ELSE cut.edge[k]
      /\ done.wrote = cut.wrote \cup {k \in Curates : done.edge[k] \notin {cut.edge[k], Edges!NoEdge}}
  BY <1>1, <1>3, CuratorApart, MergeIs
<1>6. ReducedBut(done, stale)
  BY <1>1, <1>2, <1>3, CuratorApart, MergeLeaves
<1> HIDE DEF done
<1>7. PICK t : t = Edges!Curate(s)
  OBVIOUS
<1>8. /\ IsTables(t) /\ t.sup = done.sup
      /\ \A k \in Edges!Edge : t.edge[k] = IF k \in stale THEN Edges!Reduced(done.sup[k]) ELSE done.edge[k]
      /\ t.wrote = done.wrote \cup {k \in stale : t.edge[k] \notin {done.edge[k], Edges!NoEdge}}
  BY <1>2, <1>4, <1>5, <1>7, ReduceIs
<1>9. ReducedBut(t, {})
  BY <1>6, <1>8 DEF ReducedBut
<1>10. ASSUME NEW k \in Edges!Edge
       PROVE  t.sup[k][Edges!Curator] = CuratorRow(s, k) /\ \A x \in Edges!Frames : t.sup[k][x] = s.sup[k][x]
  <2>1. \A y \in Edges!Author : t.sup[k][y] =
          IF k \in Curates /\ y = Edges!Curator THEN [st |-> "active", ev |-> given[k]] ELSE cut.sup[k][y]
    BY <1>5, <1>8
  <2>2. \A x \in Edges!Frames : x # Edges!Curator /\ x \in Edges!Author
    BY CuratorApart
  <2>3. t.sup[k][Edges!Curator] = CuratorRow(s, k)
    BY <1>1, <1>3, <2>1, CuratorApart DEF CuratorRow
  <2>4. QED
    BY <1>1, <2>1, <2>2, <2>3
<1>11. ASSUME NEW k \in t.wrote \ s.wrote PROVE k \in Edges!Edge /\ t.edge[k] # s.edge[k]
  <2>1. CASE k \in Curates
    <3>1. done.edge[k] = Edges!Reduced(done.sup[k]) /\ t.edge[k] = done.edge[k]
      BY <1>3, <1>5, <1>8, <2>1
    <3>2. QED
      BY <1>1, <1>3, <1>5, <1>8, <1>11, <2>1, <3>1
  <2>2. CASE k \notin Curates
    <3>1. k \in Edges!Edge /\ k \in stale
      BY <1>1, <1>2, <1>5, <1>8, <1>11, <2>2
    <3>2. done.edge[k] = s.edge[k] /\ t.edge[k] # done.edge[k]
      BY <1>1, <1>2, <1>5, <1>8, <1>11, <2>2, <3>1
    <3>3. QED
      BY <3>1, <3>2
  <2>3. QED
    BY <2>1, <2>2
<1>12. QED
  BY <1>7, <1>8, <1>9, <1>10, <1>11

Frame == [st : {"none", "active", "superseded"}, episode : 0..N, ev : SUBSET Events, asserts : Edges!Edge]

\* What a projection of the frames leaves of the row of author x on edge k.
FrameRow(s, k, x) ==
  IF x \in Edges!Asserting(k, F) THEN [st |-> "active", ev |-> frames[x].ev]
  ELSE IF x \in Edges!Frames /\ s.sup[k][x].st = "active" THEN [st |-> "invalidated", ev |-> s.sup[k][x].ev]
  ELSE s.sup[k][x]

AssertedTwice(k) == \E f, g \in Edges!Asserting(k, F) : f # g

LEMMA AssertingIs ==
  ASSUME NEW k
  PROVE  /\ \A f \in Nat : Edges!Asserting(k, f) \subseteq Edges!Frames
         /\ Edges!Asserting(k, F) = {f \in Edges!ActiveFrames : frames[f].asserts = k}
         /\ \A f \in Edges!Asserting(k, F) : ~AssertedTwice(k) => /\ Edges!Asserting(k, f) = Edges!Asserting(k, F)
                                                        /\ Edges!Asserting(k, f - 1) = {}
<1>1. F \in Nat /\ Edges!Frames \subseteq Nat /\ \A f \in Edges!Frames : f <= F
  BY Edging DEF Edges!EdgeAssumption, Edges!Frames
<1>2. Edges!ActiveFrames \subseteq Edges!Frames
  BY DEF Edges!ActiveFrames
<1>3. Edges!Asserting(k, F) = {f \in Edges!ActiveFrames : frames[f].asserts = k}
  BY <1>1, <1>2 DEF Edges!Asserting
<1>4. ASSUME NEW f \in Edges!Asserting(k, F), ~AssertedTwice(k)
      PROVE  Edges!Asserting(k, f) = Edges!Asserting(k, F) /\ Edges!Asserting(k, f - 1) = {}
  <2>1. f \in Nat /\ f <= f /\ ~(f <= f - 1)
    <3>1. f \in Nat
      BY <1>1, <1>2, <1>3, <1>4
    <3>2. QED
      BY <3>1
  <2>2. \A g \in Edges!ActiveFrames : frames[g].asserts = k => g = f
    BY <1>3, <1>4 DEF AssertedTwice
  <2>3. Edges!Asserting(k, f) = {f} /\ Edges!Asserting(k, F) = {f}
    BY <1>3, <1>4, <2>1, <2>2 DEF Edges!Asserting
  <2>4. Edges!Asserting(k, f - 1) = {}
    BY <2>1, <2>2 DEF Edges!Asserting
  <2>5. QED
    BY <2>3, <2>4
<1>5. QED
  BY <1>2, <1>3, <1>4 DEF Edges!Asserting

LEMMA RowsTyped ==
  ASSUME NEW s, IsTables(s), frames \in [Edges!Frames -> Frame], NEW k \in Edges!Edge, NEW f \in Nat
  PROVE  Edges!RowsUpto(s, k, f) \in [Edges!Author -> SupportRow] /\ Edges!EdgeUpto(s, k, f) \in EdgeRow
<1>1. \A x \in Edges!Asserting(k, f) : [st |-> "active", ev |-> frames[x].ev] \in SupportRow
  BY AssertingIs DEF Frame, SupportRow
<1>2. \A x \in Edges!Author : s.sup[k][x] \in SupportRow
  BY DEF IsTables
<1>3. Edges!RowsUpto(s, k, f) \in [Edges!Author -> SupportRow]
  BY <1>1, <1>2 DEF Edges!RowsUpto
<1>4. QED
  BY <1>3, ReducedTyped DEF Edges!EdgeUpto, IsTables

LEMMA EachIs ==
  ASSUME NEW s, IsTables(s), frames \in [Edges!Frames -> Frame]
  PROVE  /\ IsTables(Edges!ProjectEach(s))
         /\ \A k \in Edges!Edge : /\ Edges!ProjectEach(s).sup[k] = Edges!RowsUpto(s, k, F)
                                  /\ Edges!ProjectEach(s).edge[k] = Edges!EdgeUpto(s, k, F)
         /\ \A k \in Edges!ProjectEach(s).wrote \ s.wrote :
              \E f \in Edges!Asserting(k, F) : Edges!EdgeUpto(s, k, f) # Edges!EdgeUpto(s, k, f - 1)
<1> DEFINE rowsNow == [k \in Edges!Edge |-> Edges!RowsUpto(s, k, F)]
           edgeNow == [k \in Edges!Edge |-> Edges!EdgeUpto(s, k, F)]
           wrote == s.wrote \cup {k \in Edges!Edge : \E f \in Edges!Asserting(k, F) :
                                   Edges!EdgeUpto(s, k, f) # Edges!EdgeUpto(s, k, f - 1)}
<1>1. Edges!ProjectEach(s) = [sup |-> rowsNow, edge |-> edgeNow, wrote |-> wrote]
  BY DEF Edges!ProjectEach
<1>2. F \in Nat
  BY Edging DEF Edges!EdgeAssumption
<1>3. rowsNow \in [Edges!Edge -> [Edges!Author -> SupportRow]] /\ edgeNow \in [Edges!Edge -> EdgeRow]
  BY <1>2, RowsTyped
<1>4. \A k \in wrote \ s.wrote : \E f \in Edges!Asserting(k, F) : Edges!EdgeUpto(s, k, f) # Edges!EdgeUpto(s, k, f - 1)
  OBVIOUS
<1>5. \A k \in Edges!Edge : rowsNow[k] = Edges!RowsUpto(s, k, F) /\ edgeNow[k] = Edges!EdgeUpto(s, k, F)
  OBVIOUS
<1> HIDE DEF rowsNow, edgeNow, wrote
<1>6. QED
  BY <1>1, <1>3, <1>4, <1>5 DEF IsTables

LEMMA ProjectIs ==
  ASSUME NEW s, IsTables(s), ReducedBut(s, {}), frames \in [Edges!Frames -> Frame]
  PROVE  /\ IsTables(Edges!ProjectFrames(s)) /\ ReducedBut(Edges!ProjectFrames(s), {})
         /\ \A k \in Edges!Edge, x \in Edges!Author : Edges!ProjectFrames(s).sup[k][x] = FrameRow(s, k, x)
         /\ \A k \in Edges!ProjectFrames(s).wrote \ s.wrote :
              k \in Edges!Edge /\ (Edges!ProjectFrames(s).sup[k] = s.sup[k] => AssertedTwice(k))
<1> DEFINE cut == Edges!Invalidate(s, Edges!Frames, Edges!Edge)
           each == Edges!ProjectEach(cut)
           stale == Edges!Stale(s, Edges!Frames, Edges!Edge)
<1>1. /\ IsTables(cut) /\ cut.edge = s.edge /\ cut.wrote = s.wrote
      /\ \A k \in Edges!Edge, x \in Edges!Author : cut.sup[k][x] =
           IF k \in Edges!Edge /\ x \in Edges!Frames /\ s.sup[k][x].st = "active"
           THEN [st |-> "invalidated", ev |-> s.sup[k][x].ev] ELSE s.sup[k][x]
  BY InvalidateIs
<1>2. stale \in SUBSET Edges!Edge /\ ReducedBut(cut, stale)
  BY CuratorApart, InvalidateLeaves
<1>3. Edges!ProjectFrames(s) = Edges!Reduce(each, stale)
  BY DEF Edges!ProjectFrames
<1>4. \A k \in stale : \E x \in Edges!Frames : s.sup[k][x].st = "active"
  BY DEF Edges!Stale, Edges!Active
<1> HIDE DEF cut, stale
<1>5. /\ IsTables(each)
      /\ \A k \in Edges!Edge : /\ each.sup[k] = Edges!RowsUpto(cut, k, F)
                               /\ each.edge[k] = Edges!EdgeUpto(cut, k, F)
      /\ \A k \in each.wrote \ cut.wrote :
           \E f \in Edges!Asserting(k, F) : Edges!EdgeUpto(cut, k, f) # Edges!EdgeUpto(cut, k, f - 1)
  BY <1>1, EachIs
<1>5a. each.wrote \ cut.wrote \subseteq Edges!Edge
  BY DEF Edges!ProjectEach
<1> HIDE DEF each
<1>6. PICK t : t = Edges!ProjectFrames(s)
  OBVIOUS
<1>7. /\ IsTables(t) /\ t.sup = each.sup
      /\ \A k \in Edges!Edge : t.edge[k] = IF k \in stale THEN Edges!Reduced(each.sup[k]) ELSE each.edge[k]
      /\ t.wrote = each.wrote \cup {k \in stale : t.edge[k] \notin {each.edge[k], Edges!NoEdge}}
  BY <1>2, <1>3, <1>5, <1>6, ReduceIs
<1>8. F \in Nat
  BY Edging DEF Edges!EdgeAssumption
<1>9. ASSUME NEW k \in Edges!Edge, NEW x \in Edges!Author PROVE t.sup[k][x] = FrameRow(s, k, x)
  <2>1. t.sup[k][x] = Edges!RowsUpto(cut, k, F)[x]
    BY <1>5, <1>7
  <2>2. QED
    BY <1>1, <2>1 DEF Edges!RowsUpto, FrameRow
<1>10. ASSUME NEW k \in Edges!Edge, Edges!Asserting(k, F) = {} PROVE Edges!RowsUpto(cut, k, F) = cut.sup[k]
  <2>1. cut.sup[k] \in [Edges!Author -> SupportRow]
    BY <1>1 DEF IsTables
  <2>2. QED
    BY <1>10, <2>1 DEF Edges!RowsUpto
<1>11. ASSUME NEW k \in Edges!Edge PROVE t.edge[k] = Edges!Reduced(t.sup[k])
  <2>1. CASE k \in stale
    BY <1>7, <2>1
  <2>2. CASE k \notin stale /\ Edges!Asserting(k, F) = {}
    <3>1. cut.edge[k] = Edges!Reduced(cut.sup[k])
      BY <1>2, <2>2 DEF ReducedBut
    <3>2. QED
      BY <1>5, <1>7, <1>10, <2>2, <3>1 DEF Edges!EdgeUpto
  <2>3. CASE k \notin stale /\ Edges!Asserting(k, F) # {}
    BY <1>5, <1>7, <2>3 DEF Edges!EdgeUpto
  <2>4. QED
    BY <2>1, <2>2, <2>3
<1>12. ASSUME NEW k \in t.wrote \ s.wrote PROVE k \in Edges!Edge
  BY <1>1, <1>2, <1>5a, <1>7, <1>12
<1>13. ASSUME NEW k \in t.wrote \ s.wrote, t.sup[k] = s.sup[k], ~AssertedTwice(k) PROVE FALSE
  <2>0. k \in Edges!Edge
    BY <1>12
  <2>1. CASE k \in each.wrote
    <3>1. PICK f \in Edges!Asserting(k, F) : Edges!EdgeUpto(cut, k, f) # Edges!EdgeUpto(cut, k, f - 1)
      BY <1>1, <1>5, <1>13, <2>1
    <3>2. Edges!Asserting(k, f) = Edges!Asserting(k, F) /\ Edges!Asserting(k, f - 1) = {}
      BY <1>13, AssertingIs
    <3>3. Edges!RowsUpto(cut, k, f) = Edges!RowsUpto(cut, k, F)
      BY <3>2 DEF Edges!RowsUpto
    <3>4. Edges!EdgeUpto(cut, k, f) = Edges!Reduced(s.sup[k])
      BY <1>5, <1>7, <1>13, <2>0, <3>1, <3>2, <3>3 DEF Edges!EdgeUpto
    <3>5. Edges!EdgeUpto(cut, k, f - 1) = s.edge[k]
      BY <1>1, <3>2 DEF Edges!EdgeUpto
    <3>6. s.edge[k] = Edges!Reduced(s.sup[k])
      BY <2>0 DEF ReducedBut
    <3>7. QED
      BY <3>1, <3>4, <3>5, <3>6
  <2>2. CASE k \notin each.wrote
    <3>1. k \in stale /\ t.edge[k] # each.edge[k]
      BY <1>1, <1>7, <1>13, <2>2
    <3>2. PICK x \in Edges!Frames : s.sup[k][x].st = "active"
      BY <1>4, <3>1
    <3>3. x \in Edges!Asserting(k, F)
      <4>1. x \in Edges!Author /\ FrameRow(s, k, x).st = "active"
        BY <1>9, <1>13, <2>0, <3>2, CuratorApart
      <4>2. x \notin Edges!Asserting(k, F) => FrameRow(s, k, x).st = "invalidated"
        BY <3>2 DEF FrameRow
      <4>3. QED
        BY <4>1, <4>2
    <3>4. each.edge[k] = Edges!Reduced(each.sup[k])
      BY <1>5, <2>0, <3>3 DEF Edges!EdgeUpto
    <3>5. QED
      BY <1>7, <2>0, <3>1, <3>4
  <2>3. QED
    BY <2>1, <2>2
<1>14. QED
  BY <1>6, <1>7, <1>9, <1>11, <1>12, <1>13 DEF ReducedBut

-----------------------------------------------------------------------------
(* The transactions.                                                         *)

LEMMA TablesAre ==
  ASSUME Edges!TypeOK, Edges!EdgeIsReduced PROVE IsTables(Edges!Tables) /\ ReducedBut(Edges!Tables, {})
  BY DEF Edges!TypeOK, Edges!EdgeIsReduced, Edges!Tables, IsTables, ReducedBut, SupportRow, EdgeRow

LEMMA WithdrawIs ==
  ASSUME Edges!TypeOK, Edges!EdgeIsReduced, NEW fs \in SUBSET Edges!Frames
  PROVE  /\ IsTables(Edges!Withdraw(fs)) /\ ReducedBut(Edges!Withdraw(fs), {})
         /\ \A k \in Edges!Edge, x \in Edges!Author : Edges!Withdraw(fs).sup[k][x].st = "active" =>
              x \notin fs /\ sup[k][x].st = "active"
<1>0. PICK s : s = Edges!Tables
  OBVIOUS
<1> DEFINE cut == Edges!Invalidate(s, fs, Edges!Edge)
           stale == Edges!Stale(s, fs, Edges!Edge)
<1>1. IsTables(s) /\ ReducedBut(s, {}) /\ s.sup = sup
  BY <1>0, TablesAre DEF Edges!Tables
<1>2. /\ IsTables(cut)
      /\ \A k \in Edges!Edge, x \in Edges!Author : cut.sup[k][x] =
           IF k \in Edges!Edge /\ x \in fs /\ s.sup[k][x].st = "active"
           THEN [st |-> "invalidated", ev |-> s.sup[k][x].ev] ELSE s.sup[k][x]
  BY <1>1, InvalidateIs
<1>3. stale \in SUBSET Edges!Edge /\ ReducedBut(cut, stale)
  BY <1>1, CuratorApart, InvalidateLeaves
<1>4. Edges!Withdraw(fs) = Edges!Reduce(cut, stale)
  BY <1>0 DEF Edges!Withdraw
<1> HIDE DEF cut, stale
<1>5. IsTables(Edges!Reduce(cut, stale)) /\ Edges!Reduce(cut, stale).sup = cut.sup
  BY <1>2, <1>3, ReduceIs
<1>6. ReducedBut(Edges!Reduce(cut, stale), stale \ stale)
  BY <1>2, <1>3, ReduceLeaves
<1>7. stale \ stale = {}
  OBVIOUS
<1>8. ASSUME NEW k \in Edges!Edge, NEW x \in Edges!Author, cut.sup[k][x].st = "active"
      PROVE  x \notin fs /\ sup[k][x].st = "active"
  <2>1. cut.sup[k][x] =
           IF k \in Edges!Edge /\ x \in fs /\ s.sup[k][x].st = "active"
           THEN [st |-> "invalidated", ev |-> s.sup[k][x].ev] ELSE s.sup[k][x]
    BY <1>2
  <2>2. x \notin fs
    BY <1>8, <2>1
  <2>3. cut.sup[k][x] = s.sup[k][x]
    BY <2>1, <2>2
  <2>4. s.sup[k][x].st = "active"
    BY <1>8, <2>3
  <2>5. QED
    BY <1>1, <2>2, <2>4
<1>9. QED
  BY <1>4, <1>5, <1>6, <1>7, <1>8

\* A reindex of one episode restores its entrance and leaves the others.
LEMMA ReindexedIs ==
  ASSUME Edges!TypeOK, Edges!EdgeIsReduced, NEW e \in Edges!Episodes
  PROVE  /\ IsTables(Edges!Reindexed(e)) /\ ReducedBut(Edges!Reindexed(e), {})
         /\ \A k \in Edges!Edge, x \in Edges!Frames : Edges!Reindexed(e).sup[k][x] = sup[k][x]
         /\ \A a \in Edges!Episodes \ {e} :
              Edges!Reindexed(e).sup[Edges!Entrance(a)][Edges!Curator] = sup[Edges!Entrance(a)][Edges!Curator]
         /\ Edges!Reindexed(e).sup[Edges!Entrance(e)][Edges!Curator].st = "active" <=> e \in Edges!Alive
         /\ e \in Edges!Alive => Edges!Reindexed(e).sup[Edges!Entrance(e)][Edges!Curator].ev = events[e]
<1>0. PICK s : s = Edges!Tables
  OBVIOUS
<1> DEFINE cut == Edges!Invalidate(s, {Edges!Curator}, Edges!Touching(e))
           stale == Edges!Stale(s, {Edges!Curator}, Edges!Touching(e))
           given == Edges!Curated(Edges!Entrances({e}))
           done == Edges!Merge(cut, Edges!Curator, given)
<1>1. IsTables(s) /\ ReducedBut(s, {}) /\ s.sup = sup
  BY <1>0, TablesAre DEF Edges!Tables
<1>2. Edges!Touching(e) \in SUBSET Edges!Edge
  BY DEF Edges!Touching
<1>3. /\ IsTables(cut)
      /\ \A k \in Edges!Edge, x \in Edges!Author : cut.sup[k][x] =
           IF k \in Edges!Touching(e) /\ x \in {Edges!Curator} /\ s.sup[k][x].st = "active"
           THEN [st |-> "invalidated", ev |-> s.sup[k][x].ev] ELSE s.sup[k][x]
  BY <1>1, InvalidateIs
<1>4. stale \in SUBSET Edges!Edge /\ ReducedBut(cut, stale)
  BY <1>1, <1>2, CuratorApart, InvalidateLeaves
<1>5. events \in [Edges!Episodes -> SUBSET Events] /\ {e} \in SUBSET Edges!Episodes
  BY DEF Edges!TypeOK
<1>6. Edges!Entrances({e}) \subseteq Edges!Edge /\ Edges!Entrances({e}) \subseteq Edges!Entrances(Edges!Episodes)
  BY <1>5, CuratesTyped DEF Edges!Entrances
<1>7. /\ DOMAIN given = Edges!Entrances({e})
      /\ \A k \in Edges!Entrances({e}) : given[k] = events[k[1]] \cup events[k[2]] /\ given[k] \subseteq Events
  BY <1>5, <1>6, CuratesTyped
<1>8. Edges!Reindexed(e) = Edges!Reduce(done, stale)
  BY <1>0 DEF Edges!Reindexed
<1> HIDE DEF cut, stale, given
<1>9. /\ IsTables(done)
      /\ \A k \in Edges!Edge, y \in Edges!Author : done.sup[k][y] =
           IF k \in DOMAIN given /\ y = Edges!Curator THEN [st |-> "active", ev |-> given[k]] ELSE cut.sup[k][y]
  <2>1. DOMAIN given \subseteq Edges!Edge /\ \A k \in DOMAIN given : given[k] \subseteq Events
    BY <1>6, <1>7
  <2>2. Edges!Curator \in Edges!Author
    BY CuratorApart
  <2>3. QED
    BY <1>3, <2>1, <2>2, MergeIs
<1>10. ReducedBut(done, stale)
  BY <1>3, <1>4, <1>6, <1>7, CuratorApart, MergeLeaves
<1> HIDE DEF done
<1>11. IsTables(Edges!Reduce(done, stale)) /\ Edges!Reduce(done, stale).sup = done.sup
  BY <1>4, <1>9, ReduceIs
<1>12. ReducedBut(Edges!Reduce(done, stale), stale \ stale)
  BY <1>4, <1>9, <1>10, ReduceLeaves
<1>13. stale \ stale = {}
  OBVIOUS
<1>14. ASSUME NEW k \in Edges!Edge, NEW x \in Edges!Frames PROVE done.sup[k][x] = sup[k][x]
  <2>1. x # Edges!Curator /\ x \in Edges!Author
    BY CuratorApart
  <2>2. done.sup[k][x] = cut.sup[k][x]
    BY <1>9, <2>1
  <2>3. cut.sup[k][x] = s.sup[k][x]
    BY <1>3, <2>1
  <2>4. QED
    BY <1>1, <2>2, <2>3
<1>15. \A a \in Edges!Episodes :
         /\ Edges!Entrance(a) \in Edges!Edge
         /\ Edges!Entrance(a) \in Edges!Entrances({e}) <=> a = e /\ e \in Edges!Alive
         /\ Edges!Entrance(a) \in Edges!Touching(e) <=> a = e
  <2>1. Edges!Episodes \subseteq Nat
    BY DEF Edges!Episodes
  <2>2. \A a \in Edges!Episodes : Edges!Entrance(a) \in Edges!Edge
    BY <2>1 DEF Edges!Entrance, Edges!Edge
  <2>3. QED
    BY <2>2 DEF Edges!Entrance, Edges!Entrances, Edges!Touching
<1>16. \A a \in Edges!Episodes : done.sup[Edges!Entrance(a)][Edges!Curator] =
          IF a = e /\ e \in Edges!Alive THEN [st |-> "active", ev |-> given[Edges!Entrance(e)]]
          ELSE cut.sup[Edges!Entrance(a)][Edges!Curator]
  BY <1>7, <1>9, <1>15, CuratorApart
<1>17. \A a \in Edges!Episodes : cut.sup[Edges!Entrance(a)][Edges!Curator] =
          IF a = e /\ s.sup[Edges!Entrance(a)][Edges!Curator].st = "active"
          THEN [st |-> "invalidated", ev |-> s.sup[Edges!Entrance(a)][Edges!Curator].ev]
          ELSE s.sup[Edges!Entrance(a)][Edges!Curator]
  BY <1>3, <1>15, CuratorApart
<1>18. ASSUME NEW a \in Edges!Episodes \ {e} PROVE done.sup[Edges!Entrance(a)][Edges!Curator] = sup[Edges!Entrance(a)][Edges!Curator]
  <2>1. done.sup[Edges!Entrance(a)][Edges!Curator] = cut.sup[Edges!Entrance(a)][Edges!Curator]
    BY <1>16
  <2>2. cut.sup[Edges!Entrance(a)][Edges!Curator] = s.sup[Edges!Entrance(a)][Edges!Curator]
    BY <1>17
  <2>3. QED
    BY <1>1, <2>1, <2>2
<1>19. CASE e \in Edges!Alive
  <2>1. done.sup[Edges!Entrance(e)][Edges!Curator] = [st |-> "active", ev |-> given[Edges!Entrance(e)]]
    BY <1>16, <1>19
  <2>2. given[Edges!Entrance(e)] = events[e]
    <3>1. Edges!Entrance(e) \in Edges!Entrances({e}) /\ Edges!Entrance(e)[1] = e /\ Edges!Entrance(e)[2] = e
      BY <1>15, <1>19 DEF Edges!Entrance
    <3>2. QED
      BY <1>7, <3>1
  <2>3. QED
    BY <1>8, <1>11, <1>12, <1>13, <1>14, <1>18, <1>19, <2>1, <2>2
<1>20. CASE e \notin Edges!Alive
  <2>1. done.sup[Edges!Entrance(e)][Edges!Curator] = cut.sup[Edges!Entrance(e)][Edges!Curator]
    BY <1>16, <1>20
  <2>2. cut.sup[Edges!Entrance(e)][Edges!Curator].st # "active"
    <3>1. cut.sup[Edges!Entrance(e)][Edges!Curator] =
            IF s.sup[Edges!Entrance(e)][Edges!Curator].st = "active"
            THEN [st |-> "invalidated", ev |-> s.sup[Edges!Entrance(e)][Edges!Curator].ev]
            ELSE s.sup[Edges!Entrance(e)][Edges!Curator]
      BY <1>17
    <3>2. QED
      BY <3>1
  <2>3. QED
    BY <1>8, <1>11, <1>12, <1>13, <1>14, <1>18, <1>20, <2>1, <2>2
<1>21. QED
  BY <1>19, <1>20

LEMMA RebuiltIs ==
  ASSUME NEW s, IsTables(s), ReducedBut(s, {}), Edges!TypeOK
  PROVE  /\ IsTables(Edges!Rebuilt(s)) /\ ReducedBut(Edges!Rebuilt(s), {})
         /\ \A k \in Edges!Edge : /\ Edges!Rebuilt(s).sup[k][Edges!Curator] = CuratorRow(s, k)
                                  /\ \A x \in Edges!Frames : Edges!Rebuilt(s).sup[k][x] = FrameRow(s, k, x)
         /\ \A k \in Edges!Rebuilt(s).wrote :
              k \in Edges!Edge /\ (Edges!Rebuilt(s).sup[k] = s.sup[k] => AssertedTwice(k))
<1>1. PICK r : r = [s EXCEPT !.wrote = {}]
  OBVIOUS
<1>2. r = [sup |-> s.sup, edge |-> s.edge, wrote |-> {}]
  BY <1>1 DEF IsTables
<1>3. IsTables(r) /\ ReducedBut(r, {}) /\ r.sup = s.sup /\ r.edge = s.edge /\ r.wrote = {}
  BY <1>2 DEF IsTables, ReducedBut
<1>4. frames \in [Edges!Frames -> Frame] /\ events \in [Edges!Episodes -> SUBSET Events]
  BY DEF Edges!TypeOK, Frame
<1>5. PICK c : c = Edges!Curate(r)
  OBVIOUS
<1>6. /\ IsTables(c) /\ ReducedBut(c, {})
      /\ \A k \in Edges!Edge : /\ c.sup[k][Edges!Curator] = CuratorRow(r, k)
                               /\ \A x \in Edges!Frames : c.sup[k][x] = r.sup[k][x]
      /\ \A k \in c.wrote \ r.wrote : k \in Edges!Edge /\ c.edge[k] # r.edge[k]
  BY <1>3, <1>4, <1>5, CurateIs
<1>7. PICK t : t = Edges!ProjectFrames(c)
  OBVIOUS
<1>8. /\ IsTables(t) /\ ReducedBut(t, {})
      /\ \A k \in Edges!Edge, x \in Edges!Author : t.sup[k][x] = FrameRow(c, k, x)
      /\ \A k \in t.wrote \ c.wrote : k \in Edges!Edge /\ (t.sup[k] = c.sup[k] => AssertedTwice(k))
  BY <1>4, <1>6, <1>7, ProjectIs
<1>9. t = Edges!Rebuilt(s)
  BY <1>1, <1>5, <1>7 DEF Edges!Rebuilt
<1>10. ASSUME NEW k \in Edges!Edge
       PROVE  /\ t.sup[k][Edges!Curator] = CuratorRow(s, k) /\ t.sup[k][Edges!Curator] = c.sup[k][Edges!Curator]
              /\ \A x \in Edges!Frames : t.sup[k][x] = FrameRow(s, k, x)
  <2>1. Edges!Curator \in Edges!Author /\ Edges!Curator \notin Edges!Frames /\ Edges!Curator \notin Edges!Asserting(k, F)
    BY CuratorApart, AssertingIs, Edging DEF Edges!EdgeAssumption
  <2>2. t.sup[k][Edges!Curator] = c.sup[k][Edges!Curator]
    BY <1>8, <2>1 DEF FrameRow
  <2>3. CuratorRow(r, k) = CuratorRow(s, k)
    BY <1>3 DEF CuratorRow
  <2>4. ASSUME NEW x \in Edges!Frames PROVE t.sup[k][x] = FrameRow(s, k, x)
    <3>1. c.sup[k][x] = s.sup[k][x] /\ x \in Edges!Author
      BY <1>3, <1>6, CuratorApart
    <3>2. t.sup[k][x] = FrameRow(c, k, x)
      BY <1>8, <3>1
    <3>3. QED
      BY <3>1, <3>2 DEF FrameRow
  <2>5. QED
    BY <1>6, <2>2, <2>3, <2>4
<1>11. ASSUME NEW k \in t.wrote PROVE k \in Edges!Edge /\ (t.sup[k] = s.sup[k] => AssertedTwice(k))
  <2>1. k \in Edges!Edge
    BY <1>3, <1>6, <1>8, <1>11
  <2>2. ASSUME t.sup[k] = s.sup[k] PROVE c.sup[k] = s.sup[k]
    <3>1. c.sup[k][Edges!Curator] = s.sup[k][Edges!Curator]
      BY <1>10, <2>1, <2>2
    <3>2. \A x \in Edges!Frames : c.sup[k][x] = s.sup[k][x]
      BY <1>3, <1>6, <2>1
    <3>3. c.sup[k] \in [Edges!Author -> SupportRow] /\ s.sup[k] \in [Edges!Author -> SupportRow]
      BY <1>6, <2>1 DEF IsTables
    <3>4. \A x \in Edges!Author : c.sup[k][x] = s.sup[k][x]
      BY <3>1, <3>2 DEF Edges!Author
    <3>5. QED
      BY <3>3, <3>4
  <2>3. c.sup[k] = s.sup[k] => c.edge[k] = s.edge[k]
    BY <1>6, <2>1 DEF ReducedBut
  <2>4. QED
    BY <1>3, <1>6, <1>8, <1>11, <2>1, <2>2, <2>3
<1>12. QED
  BY <1>8, <1>9, <1>10, <1>11

\* A second rebuild finds every edge as the first one left it, and rewrites only the
\* edges that two frames assert.
LEMMA TwiceHolds ==
  ASSUME Edges!TypeOK, Edges!EdgeIsReduced PROVE Edges!RebuildTwice
<1>1. PICK s : s = Edges!Tables
  OBVIOUS
<1>2. IsTables(s) /\ ReducedBut(s, {})
  BY <1>1, TablesAre
<1>3. PICK a : a = Edges!Rebuilt(s)
  OBVIOUS
<1>4. /\ IsTables(a) /\ ReducedBut(a, {})
      /\ \A k \in Edges!Edge : /\ a.sup[k][Edges!Curator] = CuratorRow(s, k)
                               /\ \A x \in Edges!Frames : a.sup[k][x] = FrameRow(s, k, x)
  BY <1>2, <1>3, RebuiltIs
<1>5. PICK b : b = Edges!Rebuilt(a)
  OBVIOUS
<1>6. /\ IsTables(b) /\ ReducedBut(b, {})
      /\ \A k \in Edges!Edge : /\ b.sup[k][Edges!Curator] = CuratorRow(a, k)
                               /\ \A x \in Edges!Frames : b.sup[k][x] = FrameRow(a, k, x)
      /\ \A k \in b.wrote : k \in Edges!Edge /\ (b.sup[k] = a.sup[k] => AssertedTwice(k))
  BY <1>4, <1>5, RebuiltIs
<1>7. ASSUME NEW k \in Edges!Edge PROVE b.sup[k] = a.sup[k]
  <2>1. CuratorRow(a, k) = a.sup[k][Edges!Curator]
    <3>1. CASE k \in Curates
      BY <1>4, <3>1 DEF CuratorRow
    <3>2. CASE k \notin Curates
      <4>1. CuratorRow(s, k).st # "active"
        BY <3>2 DEF CuratorRow
      <4>2. QED
        BY <1>4, <3>2, <4>1 DEF CuratorRow
    <3>3. QED
      BY <3>1, <3>2
  <2>2. ASSUME NEW x \in Edges!Frames PROVE FrameRow(a, k, x) = a.sup[k][x]
    <3>1. CASE x \in Edges!Asserting(k, F)
      BY <1>4, <3>1 DEF FrameRow
    <3>2. CASE x \notin Edges!Asserting(k, F)
      <4>1. FrameRow(s, k, x).st # "active"
        BY <3>2 DEF FrameRow
      <4>2. QED
        BY <1>4, <3>2, <4>1 DEF FrameRow
    <3>3. QED
      BY <3>1, <3>2
  <2>3. a.sup[k] \in [Edges!Author -> SupportRow] /\ b.sup[k] \in [Edges!Author -> SupportRow]
    BY <1>4, <1>6 DEF IsTables
  <2>4. \A x \in Edges!Author : b.sup[k][x] = a.sup[k][x]
    BY <1>6, <2>1, <2>2 DEF Edges!Author
  <2>5. QED
    BY <2>3, <2>4
<1>8. b.sup = a.sup
  <2>1. a.sup \in [Edges!Edge -> [Edges!Author -> SupportRow]] /\ b.sup \in [Edges!Edge -> [Edges!Author -> SupportRow]]
    BY <1>4, <1>6 DEF IsTables
  <2>2. QED
    BY <1>7, <2>1
<1>9. b.edge = a.edge
  <2>1. a.edge \in [Edges!Edge -> EdgeRow] /\ b.edge \in [Edges!Edge -> EdgeRow]
    BY <1>4, <1>6 DEF IsTables
  <2>2. \A k \in Edges!Edge : b.edge[k] = a.edge[k]
    BY <1>4, <1>6, <1>7 DEF ReducedBut
  <2>3. QED
    BY <2>1, <2>2
<1>10. ASSUME NEW k \in b.wrote
       PROVE  \E f \in Edges!ActiveFrames : /\ k = frames[f].asserts
                                            /\ \E g \in Edges!ActiveFrames \ {f} : frames[g].asserts = frames[f].asserts
  BY <1>6, <1>7, AssertingIs DEF AssertedTwice
<1>11. b.wrote \subseteq {frames[f].asserts : f \in {f \in Edges!ActiveFrames :
                           \E g \in Edges!ActiveFrames \ {f} : frames[g].asserts = frames[f].asserts}}
  BY <1>10
<1>12. QED
  BY <1>1, <1>3, <1>5, <1>8, <1>9, <1>11 DEF Edges!RebuildTwice

-----------------------------------------------------------------------------
(* The invariant.                                                            *)

LEMMA EdgeInit == Edges!Init => EdgeInv
<1> SUFFICES ASSUME Edges!Init PROVE EdgeInv
  OBVIOUS
<1>1. N \in Nat /\ F \in Nat /\ MaxMoves \in Nat
  BY Edging DEF Edges!EdgeAssumption
<1>2. Edges!Shared \in Edges!Edge
  BY DEF Edges!Edge
<1>3. Edges!TypeOK
  <2>1. frames \in [Edges!Frames -> Frame]
    BY <1>1, <1>2 DEF Edges!Init, Frame
  <2>2. sup \in [Edges!Edge -> [Edges!Author -> SupportRow]] /\ edge \in [Edges!Edge -> EdgeRow]
    BY DEF Edges!Init, Edges!NoRow, Edges!NoEdge, SupportRow, EdgeRow
  <2>3. events \in [Edges!Episodes -> SUBSET Events] /\ \A a, b \in Edges!Episodes : events[a] \cap events[b] = {}
    BY DEF Edges!Init
  <2>4. status \in {"none", "clean", "dirty", "error"} /\ moves \in 0..MaxMoves
    BY <1>1 DEF Edges!Init
  <2>5. QED
    BY <2>1, <2>2, <2>3, <2>4 DEF Edges!TypeOK, Frame, SupportRow, EdgeRow
<1>4. \A k \in Edges!Edge, x \in Edges!Author : sup[k][x].st = "none"
  BY DEF Edges!Init, Edges!NoRow
<1>5. Edges!EdgeIsReduced
  <2>1. ASSUME NEW k \in Edges!Edge PROVE Edges!Active(sup[k]) = {}
    <3>1. DOMAIN sup[k] = Edges!Author
      BY DEF Edges!Init
    <3>2. QED
      BY <1>4, <3>1 DEF Edges!Active
  <2>2. QED
    BY <2>1 DEF Edges!EdgeIsReduced, Edges!Reduced, Edges!Init
<1>6. Edges!FrameKeepsItsEvents /\ FrameInv
  BY <1>4, CuratorApart DEF Edges!FrameKeepsItsEvents, FrameInv, Edges!Init
<1>7. Edges!CleanIsProjected
  BY DEF Edges!CleanIsProjected, Edges!Init
<1>8. QED
  BY <1>3, <1>5, <1>6, <1>7 DEF EdgeInv

\* The tables that a transaction stores.
LEMMA StoredIs ==
  ASSUME NEW s, IsTables(s), ReducedBut(s, {}), Edges!Store(s)
  PROVE  /\ Edges!EdgeIsReduced' /\ sup' = s.sup
         /\ sup' \in [Edges!Edge -> [Edges!Author -> SupportRow]] /\ edge' \in [Edges!Edge -> EdgeRow]
  BY DEF Edges!Store, IsTables, ReducedBut, Edges!EdgeIsReduced

\* What stays typed when the tables are.
LEMMA TypedWhen ==
  ASSUME Edges!TypeOK,
         events' \in [Edges!Episodes -> SUBSET Events],
         \A a, b \in Edges!Episodes : a # b => events'[a] \cap events'[b] = {},
         frames' \in [Edges!Frames -> Frame],
         sup' \in [Edges!Edge -> [Edges!Author -> SupportRow]], edge' \in [Edges!Edge -> EdgeRow],
         status' \in {"none", "clean", "dirty", "error"}, moves' \in 0..MaxMoves
  PROVE  Edges!TypeOK'
  BY DEF Edges!TypeOK, Frame, SupportRow, EdgeRow

LEMMA TypedIs ==
  ASSUME Edges!TypeOK
  PROVE  /\ events \in [Edges!Episodes -> SUBSET Events]
         /\ \A a, b \in Edges!Episodes : a # b => events[a] \cap events[b] = {}
         /\ frames \in [Edges!Frames -> Frame]
         /\ sup \in [Edges!Edge -> [Edges!Author -> SupportRow]] /\ edge \in [Edges!Edge -> EdgeRow]
         /\ status \in {"none", "clean", "dirty", "error"} /\ moves \in 0..MaxMoves
  BY DEF Edges!TypeOK, Frame, SupportRow, EdgeRow

LEMMA AppendStep ==
  ASSUME EdgeInv, NEW v \in Events, NEW e \in Edges!Episodes, Edges!AppendEvent(v, e) PROVE EdgeInv'
<1>1. /\ v \notin UNION {events[a] : a \in Edges!Episodes}
      /\ events' = [events EXCEPT ![e] = @ \cup {v}] /\ status' = "dirty"
      /\ frames' = frames /\ sup' = sup /\ edge' = edge /\ moves' = moves
  BY DEF Edges!AppendEvent
<1>2. Edges!TypeOK
  BY DEF EdgeInv
<1>3. \A a \in Edges!Episodes : events'[a] = IF a = e THEN events[a] \cup {v} ELSE events[a]
  BY <1>1, <1>2, TypedIs
<1>4. Edges!TypeOK'
  <2>1. events' \in [Edges!Episodes -> SUBSET Events]
    BY <1>1, <1>2, TypedIs
  <2>2. \A a, b \in Edges!Episodes : a # b => events'[a] \cap events'[b] = {}
    BY <1>1, <1>2, <1>3, TypedIs
  <2>3. QED
    BY <1>1, <1>2, <2>1, <2>2, TypedIs, TypedWhen
<1>5. Edges!EdgeIsReduced'
  BY <1>1 DEF EdgeInv, Edges!EdgeIsReduced
<1>6. \A a \in Edges!Episodes : events[a] \subseteq events'[a]
  BY <1>3
<1>7. FrameInv'
  BY <1>1, <1>6 DEF EdgeInv, FrameInv
<1>8. Edges!FrameKeepsItsEvents'
  BY <1>1, <1>6 DEF EdgeInv, FrameInv, Edges!FrameKeepsItsEvents
<1>9. Edges!CleanIsProjected'
  BY <1>1 DEF Edges!CleanIsProjected
<1>10. QED
  BY <1>4, <1>5, <1>7, <1>8, <1>9 DEF EdgeInv

LEMMA PublishStep ==
  ASSUME EdgeInv, NEW f \in Edges!Frames, NEW e \in Edges!Episodes, NEW k \in Edges!Edge, Edges!Publish(f, e, k) PROVE EdgeInv'
<1>1. /\ frames[f].st = "none" /\ status' = "dirty"
      /\ events' = events /\ sup' = sup /\ edge' = edge /\ moves' = moves
  BY DEF Edges!Publish
<1>2. Edges!TypeOK
  BY DEF EdgeInv
<1> DEFINE Ended(g) == [frames[g] EXCEPT !.st = "superseded"]
<1>3. \A g \in Edges!Frames : /\ Ended(g) \in Frame /\ Ended(g).st = "superseded"
                              /\ Ended(g).ev = frames[g].ev /\ Ended(g).episode = frames[g].episode
  BY <1>2, TypedIs DEF Frame
<1>4. /\ DOMAIN frames' = Edges!Frames
      /\ frames' = [g \in Edges!Frames |->
           IF g = f THEN [st |-> "active", episode |-> e, ev |-> events[e], asserts |-> k]
           ELSE IF frames[g].episode = e /\ frames[g].st = "active" THEN Ended(g)
           ELSE frames[g]]
  BY DEF Edges!Publish
<1> HIDE DEF Ended
<1>5. [st |-> "active", episode |-> e, ev |-> events[e], asserts |-> k] \in Frame
  <2>1. e \in 0..N
    BY Edging DEF Edges!EdgeAssumption, Edges!Episodes
  <2>2. QED
    BY <1>2, <2>1, TypedIs DEF Frame
<1>6. frames' \in [Edges!Frames -> Frame]
  BY <1>2, <1>3, <1>4, <1>5, TypedIs
<1>7. frames'[f].st = "active" /\ frames'[f].episode = e /\ frames'[f].ev = events[e]
  BY <1>4
<1>8. \A g \in Edges!Frames \ {f} : /\ frames'[g].st \in {frames[g].st, "superseded"}
                                    /\ frames[g].st = "none" <=> frames'[g].st = "none"
                                    /\ frames'[g].ev = frames[g].ev /\ frames'[g].episode = frames[g].episode
  BY <1>3, <1>4
<1>9. Edges!TypeOK'
  BY <1>1, <1>2, <1>6, TypedIs, TypedWhen
<1>10. Edges!EdgeIsReduced'
  BY <1>1 DEF EdgeInv, Edges!EdgeIsReduced
<1>11. FrameInv'
  <2> SUFFICES ASSUME NEW g \in Edges!Frames
               PROVE  /\ frames'[g].st # "none" => frames'[g].episode \in Edges!Episodes
                      /\ frames'[g].st = "active" => frames'[g].ev \subseteq events[frames'[g].episode]
                      /\ \A j \in Edges!Edge : sup[j][g].st = "active" => frames'[g].st # "none"
    BY <1>1 DEF FrameInv
  <2>1. CASE g = f
    BY <1>7, <2>1
  <2>2. CASE g # f
    BY <1>8, <2>2 DEF EdgeInv, FrameInv
  <2>3. QED
    BY <2>1, <2>2
<1>12. Edges!FrameKeepsItsEvents'
  <2> SUFFICES ASSUME NEW g \in Edges!Frames, NEW j \in Edges!Edge, sup[j][g].st = "active"
               PROVE  frames'[g].ev \subseteq events[frames'[g].episode]
    BY <1>1 DEF Edges!FrameKeepsItsEvents
  <2>1. g # f
    BY <1>1 DEF EdgeInv, FrameInv
  <2>2. QED
    BY <1>8, <2>1 DEF EdgeInv, Edges!FrameKeepsItsEvents
<1>13. Edges!CleanIsProjected'
  BY <1>1 DEF Edges!CleanIsProjected
<1>14. QED
  BY <1>9, <1>10, <1>11, <1>12, <1>13 DEF EdgeInv

LEMMA EdgeRepairStep ==
  ASSUME EdgeInv, NEW a \in Edges!Episodes, NEW b \in Edges!Episodes, NEW vs \in SUBSET Events, Edges!Repair(vs, a, b)
  PROVE  EdgeInv'
<1>1. /\ moves < MaxMoves /\ moves' = moves + 1 /\ status' = "dirty"
      /\ a # b /\ vs \subseteq events[a]
      /\ events' = [events EXCEPT ![a] = @ \ vs, ![b] = @ \cup vs]
  BY DEF Edges!Repair
<1>2. Edges!TypeOK /\ Edges!EdgeIsReduced
  BY DEF EdgeInv
<1>3. \A c \in Edges!Episodes : events'[c] = IF c = a THEN events[a] \ vs
                                       ELSE IF c = b THEN events[b] \cup vs ELSE events[c]
  BY <1>1, <1>2, TypedIs
<1> DEFINE Ended(g) == [frames[g] EXCEPT !.st = "superseded"]
<1>4. \A g \in Edges!Frames : /\ Ended(g) \in Frame /\ Ended(g).st = "superseded"
                              /\ Ended(g).ev = frames[g].ev /\ Ended(g).episode = frames[g].episode
  BY <1>2, TypedIs DEF Frame
<1>5. frames' = [g \in Edges!Frames |-> IF g \in Edges!FramesOf({a, b}) THEN Ended(g) ELSE frames[g]]
  BY DEF Edges!Repair
<1> HIDE DEF Ended
<1>6. frames' \in [Edges!Frames -> Frame]
  BY <1>2, <1>4, <1>5, TypedIs
<1>7. \A g \in Edges!Frames : /\ frames'[g].ev = frames[g].ev /\ frames'[g].episode = frames[g].episode
                              /\ g \in Edges!FramesOf({a, b}) => frames'[g].st = "superseded"
                              /\ g \notin Edges!FramesOf({a, b}) => frames'[g] = frames[g]
  BY <1>4, <1>5
<1>8. Edges!FramesOf({a, b}) \in SUBSET Edges!Frames
  BY DEF Edges!FramesOf
<1>9. /\ Edges!EdgeIsReduced' /\ sup' \in [Edges!Edge -> [Edges!Author -> SupportRow]] /\ edge' \in [Edges!Edge -> EdgeRow]
      /\ \A k \in Edges!Edge, x \in Edges!Author : sup'[k][x].st = "active" =>
           x \notin Edges!FramesOf({a, b}) /\ sup[k][x].st = "active"
  <2>1. PICK fs \in SUBSET Edges!Frames : fs = Edges!FramesOf({a, b})
    BY <1>8
  <2>2. PICK s : s = Edges!Withdraw(fs)
    OBVIOUS
  <2>3. /\ IsTables(s) /\ ReducedBut(s, {})
        /\ \A k \in Edges!Edge, x \in Edges!Author : s.sup[k][x].st = "active" => x \notin fs /\ sup[k][x].st = "active"
    BY <1>2, <2>2, WithdrawIs
  <2>4. Edges!Store(s)
    BY <2>1, <2>2 DEF Edges!Repair
  <2>5. QED
    BY <2>1, <2>3, <2>4, StoredIs
<1>10. Edges!TypeOK'
  <2>1. events' \in [Edges!Episodes -> SUBSET Events]
    BY <1>1, <1>2, TypedIs
  <2>2. \A c, d \in Edges!Episodes : c # d => events'[c] \cap events'[d] = {}
    BY <1>1, <1>2, <1>3, TypedIs
  <2>3. moves' \in 0..MaxMoves
    BY <1>1, <1>2, TypedIs, Edging DEF Edges!EdgeAssumption
  <2>4. QED
    BY <1>1, <1>2, <1>6, <1>9, <2>1, <2>2, <2>3, TypedWhen
<1>11. \A g \in Edges!Frames : g \notin Edges!FramesOf({a, b}) /\ frames[g].episode \in Edges!Episodes =>
         events'[frames[g].episode] = events[frames[g].episode]
  BY <1>3 DEF Edges!FramesOf
<1>12. FrameInv'
  <2> SUFFICES ASSUME NEW g \in Edges!Frames
               PROVE  /\ frames'[g].st # "none" => frames'[g].episode \in Edges!Episodes
                      /\ frames'[g].st = "active" => frames'[g].ev \subseteq events'[frames'[g].episode]
                      /\ \A j \in Edges!Edge : sup'[j][g].st = "active" => frames'[g].st # "none"
    BY DEF FrameInv
  <2>0. g \in Edges!Author
    BY CuratorApart
  <2>1. CASE g \in Edges!FramesOf({a, b})
    BY <1>7, <2>1 DEF Edges!FramesOf
  <2>2. CASE g \notin Edges!FramesOf({a, b})
    <3>1. frames'[g] = frames[g]
      BY <1>7, <2>2
    <3>2. /\ frames[g].st # "none" => frames[g].episode \in Edges!Episodes
          /\ frames[g].st = "active" => frames[g].ev \subseteq events[frames[g].episode]
          /\ \A j \in Edges!Edge : sup[j][g].st = "active" => frames[g].st # "none"
      BY DEF EdgeInv, FrameInv
    <3>3. \A j \in Edges!Edge : sup'[j][g].st = "active" => sup[j][g].st = "active"
      BY <1>9, <2>0
    <3>4. frames[g].st = "active" => events'[frames[g].episode] = events[frames[g].episode]
      BY <1>11, <2>2, <3>2
    <3>5. QED
      BY <3>1, <3>2, <3>3, <3>4
  <2>3. QED
    BY <2>1, <2>2
<1>13. Edges!FrameKeepsItsEvents'
  <2> SUFFICES ASSUME NEW g \in Edges!Frames, NEW j \in Edges!Edge, sup'[j][g].st = "active"
               PROVE  frames'[g].ev \subseteq events'[frames'[g].episode]
    BY DEF Edges!FrameKeepsItsEvents
  <2>1. g \notin Edges!FramesOf({a, b}) /\ sup[j][g].st = "active"
    BY <1>9, CuratorApart
  <2>2. frames[g].episode \in Edges!Episodes /\ frames[g].ev \subseteq events[frames[g].episode]
    BY <2>1 DEF EdgeInv, FrameInv, Edges!FrameKeepsItsEvents
  <2>3. QED
    BY <1>7, <1>11, <2>1, <2>2
<1>14. Edges!CleanIsProjected'
  BY <1>1 DEF Edges!CleanIsProjected
<1>15. QED
  BY <1>9, <1>10, <1>12, <1>13, <1>14 DEF EdgeInv

LEMMA RebuildStep == ASSUME EdgeInv, Edges!Rebuild PROVE EdgeInv'
<1>1. status' = "clean" /\ events' = events /\ frames' = frames /\ moves' = moves
  BY DEF Edges!Rebuild
<1>2. Edges!TypeOK /\ Edges!EdgeIsReduced
  BY DEF EdgeInv
<1>3. PICK s : s = Edges!Tables
  OBVIOUS
<1>4. IsTables(s) /\ ReducedBut(s, {})
  BY <1>2, <1>3, TablesAre
<1>5. PICK t : t = Edges!Rebuilt(s)
  OBVIOUS
<1>6. /\ IsTables(t) /\ ReducedBut(t, {})
      /\ \A k \in Edges!Edge : /\ t.sup[k][Edges!Curator] = CuratorRow(s, k)
                               /\ \A x \in Edges!Frames : t.sup[k][x] = FrameRow(s, k, x)
  BY <1>2, <1>4, <1>5, RebuiltIs
<1>7. Edges!Store(t)
  BY <1>3, <1>5 DEF Edges!Rebuild
<1>8. /\ Edges!EdgeIsReduced' /\ sup' = t.sup
      /\ sup' \in [Edges!Edge -> [Edges!Author -> SupportRow]] /\ edge' \in [Edges!Edge -> EdgeRow]
  BY <1>6, <1>7, StoredIs
<1>9. Edges!TypeOK'
  BY <1>1, <1>2, <1>8, TypedIs, TypedWhen
<1>10. ASSUME NEW k \in Edges!Edge, NEW f \in Edges!Frames
       PROVE  sup'[k][f].st = "active" <=> f \in Edges!ActiveFrames /\ k = frames[f].asserts
  <2>1. sup'[k][f] = FrameRow(s, k, f)
    BY <1>6, <1>8
  <2>2. f \in Edges!Asserting(k, F) <=> f \in Edges!ActiveFrames /\ k = frames[f].asserts
    BY AssertingIs
  <2>3. CASE f \in Edges!Asserting(k, F)
    BY <2>1, <2>2, <2>3 DEF FrameRow
  <2>4. CASE f \notin Edges!Asserting(k, F)
    <3>1. FrameRow(s, k, f).st # "active"
      BY <2>4 DEF FrameRow
    <3>2. QED
      BY <2>1, <2>2, <2>4, <3>1
  <2>5. QED
    BY <2>3, <2>4
<1>11. FrameInv'
  BY <1>1, <1>10 DEF EdgeInv, FrameInv, Edges!ActiveFrames
<1>12. Edges!FrameKeepsItsEvents'
  BY <1>1, <1>10 DEF EdgeInv, FrameInv, Edges!FrameKeepsItsEvents, Edges!ActiveFrames
<1>13. \A e \in Edges!Episodes : Edges!Entrance(e) \in Edges!Edge /\ (Edges!Entrance(e) \in Curates <=> e \in Edges!Alive)
  <2>1. Edges!Episodes \subseteq Nat
    BY DEF Edges!Episodes
  <2>2. \A e \in Edges!Episodes : Edges!Entrance(e) \in Edges!Edge
    BY <2>1 DEF Edges!Entrance, Edges!Edge
  <2>3. ASSUME NEW e \in Edges!Episodes PROVE Edges!Entrance(e) \notin Edges!Related
    <3>1. ~(e < e)
      BY <2>1
    <3>2. QED
      BY <3>1 DEF Edges!Entrance, Edges!Related
  <2>4. \A e \in Edges!Episodes : Edges!Entrance(e) \in Edges!Entrances(Edges!Episodes) <=> e \in Edges!Alive
    BY DEF Edges!Entrance, Edges!Entrances
  <2>5. QED
    BY <2>2, <2>3, <2>4 DEF Curates
<1>14. ASSUME NEW e \in Edges!Episodes
       PROVE  /\ sup'[Edges!Entrance(e)][Edges!Curator].st = "active" <=> e \in Edges!Alive
              /\ e \in Edges!Alive => sup'[Edges!Entrance(e)][Edges!Curator].ev = events[e]
  <2>1. sup'[Edges!Entrance(e)][Edges!Curator] = CuratorRow(s, Edges!Entrance(e))
    BY <1>6, <1>8, <1>13
  <2>2. CASE e \in Edges!Alive
    <3>1. CuratorRow(s, Edges!Entrance(e)) =
            [st |-> "active", ev |-> events[Edges!Entrance(e)[1]] \cup events[Edges!Entrance(e)[2]]]
      BY <1>13, <2>2 DEF CuratorRow
    <3>2. Edges!Entrance(e)[1] = e /\ Edges!Entrance(e)[2] = e
      BY DEF Edges!Entrance
    <3>3. QED
      BY <2>1, <2>2, <3>1, <3>2
  <2>3. CASE e \notin Edges!Alive
    <3>1. CuratorRow(s, Edges!Entrance(e)).st # "active"
      BY <1>13, <2>3 DEF CuratorRow
    <3>2. QED
      BY <2>1, <2>3, <3>1
  <2>4. QED
    BY <2>2, <2>3
<1>15. Edges!CleanIsProjected'
  <2>1. Edges!Alive' = Edges!Alive /\ Edges!ActiveFrames' = Edges!ActiveFrames
    BY <1>1 DEF Edges!Alive, Edges!ActiveFrames
  <2>2. \A e \in Edges!Alive : e \in Edges!Episodes
    BY DEF Edges!Alive
  <2>3. QED
    BY <1>1, <1>10, <1>14, <2>1, <2>2 DEF Edges!CleanIsProjected
<1>16. QED
  BY <1>8, <1>9, <1>11, <1>12, <1>15 DEF EdgeInv

LEMMA ReindexStep == ASSUME EdgeInv, NEW e \in Edges!Episodes, Edges!Reindex(e) PROVE EdgeInv'
<1>1. events' = events /\ frames' = frames /\ status' = status /\ moves' = moves
  BY DEF Edges!Reindex
<1>2. Edges!TypeOK /\ Edges!EdgeIsReduced
  BY DEF EdgeInv
<1>3. PICK t : t = Edges!Reindexed(e)
  OBVIOUS
<1>4. /\ IsTables(t) /\ ReducedBut(t, {})
      /\ \A k \in Edges!Edge, x \in Edges!Frames : t.sup[k][x] = sup[k][x]
      /\ \A a \in Edges!Episodes \ {e} : t.sup[Edges!Entrance(a)][Edges!Curator] = sup[Edges!Entrance(a)][Edges!Curator]
      /\ t.sup[Edges!Entrance(e)][Edges!Curator].st = "active" <=> e \in Edges!Alive
      /\ e \in Edges!Alive => t.sup[Edges!Entrance(e)][Edges!Curator].ev = events[e]
  BY <1>2, <1>3, ReindexedIs
<1>5. Edges!Store(t)
  BY <1>3 DEF Edges!Reindex
<1>6. /\ Edges!EdgeIsReduced' /\ sup' = t.sup
      /\ sup' \in [Edges!Edge -> [Edges!Author -> SupportRow]] /\ edge' \in [Edges!Edge -> EdgeRow]
  BY <1>4, <1>5, StoredIs
<1>7. Edges!TypeOK'
  BY <1>1, <1>2, <1>6, TypedIs, TypedWhen
<1>8. \A k \in Edges!Edge, x \in Edges!Frames : sup'[k][x] = sup[k][x]
  BY <1>4, <1>6
<1>9. FrameInv' /\ Edges!FrameKeepsItsEvents'
  BY <1>1, <1>8 DEF EdgeInv, FrameInv, Edges!FrameKeepsItsEvents
<1>10. Edges!CleanIsProjected'
  <2> SUFFICES ASSUME status = "clean"
               PROVE  /\ \A a \in Edges!Episodes : sup'[Edges!Entrance(a)][Edges!Curator].st = "active" <=> a \in Edges!Alive
                      /\ \A a \in Edges!Alive : sup'[Edges!Entrance(a)][Edges!Curator].ev = events[a]
                      /\ \A f \in Edges!Frames, k \in Edges!Edge :
                           sup'[k][f].st = "active" <=> f \in Edges!ActiveFrames /\ k = frames[f].asserts
    BY <1>1 DEF Edges!CleanIsProjected, Edges!Alive, Edges!ActiveFrames
  <2>1. /\ \A a \in Edges!Episodes : sup[Edges!Entrance(a)][Edges!Curator].st = "active" <=> a \in Edges!Alive
        /\ \A a \in Edges!Alive : sup[Edges!Entrance(a)][Edges!Curator].ev = events[a]
        /\ \A f \in Edges!Frames, k \in Edges!Edge :
             sup[k][f].st = "active" <=> f \in Edges!ActiveFrames /\ k = frames[f].asserts
    BY DEF EdgeInv, Edges!CleanIsProjected
  <2>2. \A a \in Edges!Alive : a \in Edges!Episodes
    BY DEF Edges!Alive
  <2>3. ASSUME NEW a \in Edges!Episodes
        PROVE  /\ sup'[Edges!Entrance(a)][Edges!Curator].st = "active" <=> a \in Edges!Alive
               /\ a \in Edges!Alive => sup'[Edges!Entrance(a)][Edges!Curator].ev = events[a]
    <3>1. CASE a = e
      BY <1>4, <1>6, <3>1
    <3>2. CASE a # e
      BY <1>4, <1>6, <2>1, <3>2
    <3>3. QED
      BY <3>1, <3>2
  <2>4. QED
    BY <1>8, <2>1, <2>2, <2>3
<1>11. QED
  BY <1>6, <1>7, <1>9, <1>10 DEF EdgeInv

LEMMA EdgeNext == EdgeInv /\ [Edges!Next]_(Edges!vars) => EdgeInv'
<1> SUFFICES ASSUME EdgeInv, [Edges!Next]_(Edges!vars) PROVE EdgeInv'
  OBVIOUS
<1>1. CASE \E e \in Edges!Episodes : \E v \in Events : Edges!AppendEvent(v, e)
  BY <1>1, AppendStep
<1>2. CASE \E e \in Edges!Episodes : \E f \in Edges!Frames, k \in Edges!Edge : Edges!Publish(f, e, k)
  BY <1>2, PublishStep
<1>3. CASE \E e, b \in Edges!Episodes : \E vs \in SUBSET Events : Edges!Repair(vs, e, b)
  BY <1>3, EdgeRepairStep
<1>4. CASE \E e \in Edges!Episodes : Edges!Reindex(e)
  BY <1>4, ReindexStep
<1>5. CASE Edges!Rebuild
  BY <1>5, RebuildStep
<1>6. CASE Edges!RebuildFails
  <2>1. /\ status' = "error" /\ events' = events /\ frames' = frames
        /\ sup' = sup /\ edge' = edge /\ moves' = moves
    BY <1>6 DEF Edges!RebuildFails
  <2>2. Edges!TypeOK'
    BY <2>1 DEF EdgeInv, Edges!TypeOK
  <2>3. Edges!EdgeIsReduced' /\ Edges!FrameKeepsItsEvents' /\ FrameInv'
    BY <2>1 DEF EdgeInv, Edges!EdgeIsReduced, Edges!FrameKeepsItsEvents, FrameInv
  <2>4. Edges!CleanIsProjected'
    BY <2>1 DEF Edges!CleanIsProjected
  <2>5. QED
    BY <2>2, <2>3, <2>4 DEF EdgeInv
<1>7. CASE UNCHANGED Edges!vars
  <2>1. /\ status' = status /\ events' = events /\ frames' = frames
        /\ sup' = sup /\ edge' = edge /\ moves' = moves
    BY <1>7 DEF Edges!vars
  <2>2. Edges!TypeOK' /\ Edges!EdgeIsReduced' /\ Edges!FrameKeepsItsEvents' /\ FrameInv'
    BY <2>1 DEF EdgeInv, Edges!TypeOK, Edges!EdgeIsReduced, Edges!FrameKeepsItsEvents, FrameInv
  <2>3. Edges!CleanIsProjected'
    BY <2>1 DEF EdgeInv, Edges!CleanIsProjected, Edges!Alive, Edges!ActiveFrames
  <2>4. QED
    BY <2>2, <2>3 DEF EdgeInv
<1>8. QED
  BY <1>1, <1>2, <1>3, <1>4, <1>5, <1>6, <1>7 DEF Edges!Next

\* The edges are always what their supports add up to, none rests on a frame whose events
\* have moved, a clean projection shows its sources, and a second rebuild finds every edge
\* as the first one left it.
THEOREM EdgesFollow ==
  Edges!Spec => [](Edges!TypeOK /\ Edges!EdgeIsReduced /\ Edges!FrameKeepsItsEvents /\ Edges!CleanIsProjected /\ Edges!RebuildTwice)
<1>1. EdgeInv => Edges!TypeOK /\ Edges!EdgeIsReduced /\ Edges!FrameKeepsItsEvents /\ Edges!CleanIsProjected /\ Edges!RebuildTwice
  BY TwiceHolds DEF EdgeInv
<1>2. QED
  BY <1>1, EdgeInit, EdgeNext, PTL DEF Edges!Spec

-----------------------------------------------------------------------------
(* The bindings of events to topics.                                         *)

BindStep == {"related", "cluster", "fuse", "binding", "link"}
Place == Binding!Event \cup Binding!Topics \cup Binding!Cluster
ToLink == [edge : Binding!ToSet(Binding!Links) \X Place \X Place, ev : SUBSET Binding!Event]
Work == [step : BindStep, event : Binding!Event, topics : Seq(Binding!Topics), related : SUBSET Binding!Event,
         cluster : SUBSET Binding!Event, todo : SUBSET ToLink]

\* What is bound is in the ledger, and a topic of its event.
BoundInv ==
  \A b \in bindings :
    /\ b.event \in 1..raw /\ b.topic \in Binding!ToSet(TopicsOf[b.event])
    /\ b.action \in IF b.event \in Corrections THEN {"corrects_prior_memory", "possible_conflict"}
                     ELSE {"create_new_cluster", "strengthen_existing"}

\* A call works on an event of the ledger, topic by topic, and fuses the event itself.
AtWork(w) ==
  /\ w.event \in 1..raw /\ w.topics # <<>> /\ Binding!ToSet(w.topics) \subseteq Binding!ToSet(TopicsOf[w.event])
  /\ w.step \in {"fuse", "binding"} => w.event \in w.cluster

BindTypes ==
  /\ raw \in 0..MaxEvent /\ stops \in 0..MaxStops
  /\ clusters \in [Binding!Cluster -> SUBSET Binding!Event]
  /\ \A k \in DOMAIN edges : k[1] \in Binding!ToSet(Binding!Links) /\ edges[k] \subseteq Binding!Event
  /\ at \in [Binders -> Work \cup {Binding!Idle}]
  /\ \A p \in Binders : at[p] # Binding!Idle => AtWork(at[p])
  /\ BoundInv

-----------------------------------------------------------------------------
LEMMA Constants ==
  /\ MaxEvent \in Nat /\ MaxStops \in Nat
  /\ RelatedLimit \in Nat \ {0} /\ SameLimit \in Nat \ {0} /\ CorrectLimit \in Nat \ {0}
  /\ \A e \in Binding!Event : /\ TopicsOf[e] \in Seq(Binding!Topics) /\ TopicsOf[e] # <<>>
                              /\ Binding!ToSet(TopicsOf[e]) \subseteq Binding!Topics
<1>1. \A e \in Binding!Event : TopicsOf[e] \in Seq(Binding!Topics) /\ TopicsOf[e] # <<>>
  BY Bounding DEF Binding!Classified
<1>2. \A e \in Binding!Event : Binding!ToSet(TopicsOf[e]) \subseteq Binding!Topics
  BY DEF Binding!Topics
<1>3. QED
  BY <1>1, <1>2, Bounding DEF Binding!Limits

\* One who does something has a record of it.
LEMMA WorkIs ==
  ASSUME BindTypes, NEW p \in Binders, at[p] # Binding!Idle \/ at[p].step # "idle"
  PROVE  /\ at[p] \in Work /\ at[p] # Binding!Idle /\ AtWork(at[p])
         /\ Head(at[p].topics) \in Binding!Topics /\ Head(at[p].topics) \in Binding!ToSet(at[p].topics)
         /\ Binding!Own(p) \in Binding!Cluster
<1>1. at[p] \in Work \cup {Binding!Idle} /\ Binding!Idle.step = "idle"
  BY DEF BindTypes, Binding!Idle
<1>2. at[p] \in Work /\ at[p] # Binding!Idle /\ AtWork(at[p])
  BY <1>1 DEF BindTypes
<1>3. at[p].topics \in Seq(Binding!Topics) /\ at[p].topics # <<>>
  BY <1>2 DEF Work, AtWork
<1>4. Head(at[p].topics) \in Binding!Topics /\ Head(at[p].topics) = at[p].topics[1] /\ 1 \in DOMAIN at[p].topics
  BY <1>3
<1>5. Head(at[p].topics) \in Binding!ToSet(at[p].topics)
  BY <1>4 DEF Binding!ToSet
<1>6. Binding!Own(p) \in Binding!Cluster
  BY <1>4 DEF Binding!Own, Binding!ClusterOf, Binding!Kind, Binding!Cluster, Binding!Topic
<1>7. QED
  BY <1>2, <1>4, <1>5, <1>6

\* What becomes of a record.
LEMMA WorkRecord ==
  ASSUME NEW w \in Work
  PROVE  /\ w = [step |-> w.step, event |-> w.event, topics |-> w.topics, related |-> w.related,
                 cluster |-> w.cluster, todo |-> w.todo]
         /\ w.step # "idle" /\ w # Binding!Idle
  BY DEF Work, BindStep, Binding!Idle

LEMMA Changed ==
  ASSUME BindTypes, NEW p \in Binders, NEW w \in Work \cup {Binding!Idle}, at' = [at EXCEPT ![p] = w]
  PROVE  /\ at'[p] = w /\ \A q \in Binders \ {p} : at'[q] = at[q]
         /\ at' \in [Binders -> Work \cup {Binding!Idle}]
  BY DEF BindTypes

\* What changes one call alone, and adds neither event nor binding.
LEMMA OneChanged ==
  ASSUME BindTypes, NEW p \in Binders, NEW w \in Work \cup {Binding!Idle}, at' = [at EXCEPT ![p] = w],
         w # Binding!Idle => AtWork(w),
         raw' = raw, stops' \in 0..MaxStops, clusters' \in [Binding!Cluster -> SUBSET Binding!Event],
         \A k \in DOMAIN edges' : k[1] \in Binding!ToSet(Binding!Links) /\ edges'[k] \subseteq Binding!Event,
         bindings' = bindings
  PROVE  BindTypes'
<1>1. /\ at'[p] = w /\ \A q \in Binders \ {p} : at'[q] = at[q]
      /\ at' \in [Binders -> Work \cup {Binding!Idle}]
  BY Changed
<1>2. \A q \in Binders : (at[q] # Binding!Idle => AtWork(at[q]))'
  BY <1>1 DEF BindTypes, AtWork
<1>3. BoundInv'
  BY DEF BindTypes, BoundInv
<1>4. QED
  BY <1>1, <1>2, <1>3 DEF BindTypes

LEMMA BindIs ==
  ASSUME BindTypes, NEW p \in Binders, NEW e \in Binding!Event, Binding!Bind(p, e)
  PROVE  /\ at'[p] \in Work /\ at'[p].step = "related" /\ at'[p].event = e /\ at'[p].topics = TopicsOf[e]
         /\ \A q \in Binders \ {p} : at'[q] = at[q]
         /\ at' \in [Binders -> Work \cup {Binding!Idle}]
<1>1. PICK w : w = [step |-> "related", event |-> e, topics |-> TopicsOf[e],
                    related |-> {}, cluster |-> {}, todo |-> {}]
  OBVIOUS
<1>2. w \in Work
  BY <1>1, Constants DEF Work, BindStep
<1>3. at' = [at EXCEPT ![p] = w]
  BY <1>1 DEF Binding!Bind
<1>4. QED
  BY <1>1, <1>2, <1>3, Changed

LEMMA BeginStep ==
  ASSUME BindTypes, NEW p \in Binders, NEW e \in Binding!Event, Binding!Bind(p, e), e \in 1..raw', raw' \in 0..MaxEvent,
         raw <= raw', UNCHANGED <<clusters, bindings, edges, stops>>
  PROVE  BindTypes'
<1>1. /\ at'[p] \in Work /\ at'[p].step = "related" /\ at'[p].event = e /\ at'[p].topics = TopicsOf[e]
      /\ \A q \in Binders \ {p} : at'[q] = at[q]
      /\ at' \in [Binders -> Work \cup {Binding!Idle}]
  BY BindIs
<1>2. 1..raw \subseteq 1..raw'
  BY DEF BindTypes
<1>3. ASSUME NEW q \in Binders PROVE (at[q] # Binding!Idle => AtWork(at[q]))'
  <2>1. CASE q = p
    BY <1>1, <2>1, Constants DEF AtWork
  <2>2. CASE q # p
    <3>1. at'[q] = at[q]
      BY <1>1, <2>2
    <3>2. QED
      BY <1>2, <3>1 DEF BindTypes, AtWork
  <2>3. QED
    BY <2>1, <2>2
<1>4. BoundInv'
  BY <1>2 DEF BindTypes, BoundInv
<1>5. QED
  BY <1>1, <1>3, <1>4 DEF BindTypes

LEMMA BindRecordStep == ASSUME BindTypes, NEW p \in Binders, Binding!Record(p) PROVE BindTypes'
<1>1. /\ raw < MaxEvent /\ raw' = raw + 1 /\ Binding!Bind(p, raw + 1)
      /\ UNCHANGED <<clusters, bindings, edges, stops>>
  BY DEF Binding!Record
<1>2. raw \in Nat /\ raw + 1 \in Binding!Event /\ raw + 1 \in 1..raw' /\ raw' \in 0..MaxEvent /\ raw <= raw'
  BY <1>1, Constants DEF BindTypes, Binding!Event
<1>3. QED
  BY <1>1, <1>2, BeginStep

LEMMA BackfillStep == ASSUME BindTypes, NEW p \in Binders, NEW e \in Binding!Event, Binding!Backfill(p, e) PROVE BindTypes'
<1>1. e <= raw /\ raw' = raw /\ Binding!Bind(p, e) /\ UNCHANGED <<clusters, bindings, edges, stops>>
  BY DEF Binding!Backfill
<1>2. e \in 1..raw' /\ raw' \in 0..MaxEvent /\ raw <= raw'
  BY <1>1, Constants DEF BindTypes, Binding!Event
<1>3. QED
  BY <1>1, <1>2, BeginStep

LEMMA RelatedIs ==
  ASSUME BindTypes, NEW t, NEW e
  PROVE  Binding!RelatedTo(t, e) \subseteq Binding!OnTopic(t) \ {e} /\ Binding!OnTopic(t) \subseteq Binding!Event
<1>1. 1..raw \subseteq Binding!Event
  BY Constants DEF BindTypes, Binding!Event
<1>2. QED
  BY <1>1 DEF BindTypes, BoundInv, Binding!RelatedTo, Binding!Newest, Binding!OnTopic

\* The next three steps of a decision.
LEMMA ReadRelatedIs ==
  ASSUME BindTypes, NEW p \in Binders, Binding!ReadRelated(p)
  PROVE  /\ at[p] \in Work /\ at[p].step = "related" /\ BindTypes'
         /\ at'[p] \in Work /\ at'[p].step = "cluster" /\ at'[p].event = at[p].event
         /\ at'[p].topics = at[p].topics /\ at'[p].related = Binding!RelatedTo(Binding!Topic(p), at[p].event)
         /\ \A q \in Binders \ {p} : at'[q] = at[q]
<1> DEFINE w == [at[p] EXCEPT !.step = "cluster", !.related = Binding!RelatedTo(Binding!Topic(p), at[p].event)]
<1>1. /\ at[p].step = "related" /\ at' = [at EXCEPT ![p] = w]
      /\ UNCHANGED <<raw, clusters, bindings, edges, stops>>
  BY DEF Binding!ReadRelated
<1>2. at[p] \in Work /\ AtWork(at[p])
  BY <1>1, WorkIs
<1>3. /\ w \in Work /\ w.step = "cluster" /\ w.event = at[p].event /\ w.topics = at[p].topics
      /\ w.related = Binding!RelatedTo(Binding!Topic(p), at[p].event)
  <2>1. Binding!RelatedTo(Binding!Topic(p), at[p].event) \in SUBSET Binding!Event
    BY RelatedIs
  <2>2. QED
    BY <1>2, <2>1 DEF Work, BindStep
<1> HIDE DEF w
<1>4. AtWork(w)
  BY <1>2, <1>3 DEF AtWork
<1>5. BindTypes'
  BY <1>1, <1>3, <1>4, OneChanged DEF BindTypes
<1>6. QED
  BY <1>1, <1>2, <1>3, <1>5, Changed

LEMMA ReadClusterIs ==
  ASSUME BindTypes, NEW p \in Binders, Binding!ReadCluster(p)
  PROVE  /\ at[p] \in Work /\ at[p].step = "cluster" /\ BindTypes'
         /\ at'[p] \in Work /\ at'[p].step = "fuse" /\ at'[p].event = at[p].event
         /\ at'[p].topics = at[p].topics /\ at'[p].related = at[p].related
         /\ at'[p].cluster = clusters[Binding!Own(p)] \cup {at[p].event}
         /\ \A q \in Binders \ {p} : at'[q] = at[q]
<1> DEFINE w == [at[p] EXCEPT !.step = "fuse", !.cluster = clusters[Binding!Own(p)] \cup {at[p].event}]
<1>1. /\ at[p].step = "cluster" /\ at' = [at EXCEPT ![p] = w]
      /\ UNCHANGED <<raw, clusters, bindings, edges, stops>>
  BY DEF Binding!ReadCluster
<1>2. at[p] \in Work /\ AtWork(at[p]) /\ Binding!Own(p) \in Binding!Cluster
  BY <1>1, WorkIs
<1>3. /\ w \in Work /\ w.step = "fuse" /\ w.event = at[p].event /\ w.topics = at[p].topics
      /\ w.related = at[p].related /\ w.cluster = clusters[Binding!Own(p)] \cup {at[p].event}
  <2>1. clusters[Binding!Own(p)] \in SUBSET Binding!Event
    BY <1>2 DEF BindTypes
  <2>2. clusters[Binding!Own(p)] \cup {at[p].event} \in SUBSET Binding!Event
    BY <1>2, <2>1 DEF Work
  <2>3. QED
    BY <1>2, <2>2 DEF Work, BindStep
<1> HIDE DEF w
<1>4. AtWork(w)
  BY <1>2, <1>3 DEF AtWork
<1>5. BindTypes'
  BY <1>1, <1>3, <1>4, OneChanged DEF BindTypes
<1>6. QED
  BY <1>1, <1>2, <1>3, <1>5, Changed

LEMMA WriteClusterIs ==
  ASSUME BindTypes, NEW p \in Binders, Binding!WriteCluster(p)
  PROVE  /\ at[p] \in Work /\ at[p].step = "fuse" /\ BindTypes'
         /\ at'[p] \in Work /\ at'[p].step = "binding" /\ at'[p].event = at[p].event
         /\ at'[p].topics = at[p].topics /\ at'[p].related = at[p].related
         /\ at[p].event \in at[p].cluster
         /\ \A c \in Binding!Cluster : clusters'[c] = IF c = Binding!Own(p) THEN at[p].cluster ELSE clusters[c]
         /\ \A q \in Binders \ {p} : at'[q] = at[q]
<1> DEFINE w == [at[p] EXCEPT !.step = "binding"]
<1>1. /\ at[p].step = "fuse" /\ at' = [at EXCEPT ![p] = w]
      /\ clusters' = [clusters EXCEPT ![Binding!Own(p)] = at[p].cluster]
      /\ UNCHANGED <<raw, bindings, edges, stops>>
  BY DEF Binding!WriteCluster
<1>2. at[p] \in Work /\ AtWork(at[p]) /\ Binding!Own(p) \in Binding!Cluster
  BY <1>1, WorkIs
<1>3. /\ w \in Work /\ w.step = "binding" /\ w.event = at[p].event /\ w.topics = at[p].topics
      /\ w.related = at[p].related /\ w.cluster = at[p].cluster
  BY <1>2 DEF Work, BindStep
<1> HIDE DEF w
<1>4. AtWork(w) /\ at[p].event \in at[p].cluster
  BY <1>1, <1>2, <1>3 DEF AtWork
<1>5. at[p].cluster \in SUBSET Binding!Event
  BY <1>2 DEF Work
<1>6. clusters' \in [Binding!Cluster -> SUBSET Binding!Event]
  BY <1>1, <1>2, <1>5 DEF BindTypes
<1>7. BindTypes'
  BY <1>1, <1>3, <1>4, <1>6, OneChanged DEF BindTypes
<1>8. \A c \in Binding!Cluster : clusters'[c] = IF c = Binding!Own(p) THEN at[p].cluster ELSE clusters[c]
  BY <1>1, <1>2 DEF BindTypes
<1>9. QED
  BY <1>1, <1>2, <1>3, <1>4, <1>7, <1>8, Changed

LEMMA LinksTyped ==
  ASSUME BindTypes, NEW p \in Binders, at[p] \in Work
  PROVE  /\ Binding!LinksOf(p) \in SUBSET ToLink
         /\ Binding!Upward(p) \subseteq Binding!LinksOf(p) /\ Binding!LinksTo(p, "SAME_TOPIC_AS", SameLimit) \subseteq Binding!LinksOf(p)
         /\ [edge |-> <<"BELONGS_TO", Binding!Own(p), Binding!Topic(p)>>, ev |-> at[p].cluster] \in Binding!LinksOf(p)
<1>1. \A link \in {"ABOUT", "SUPPORTS", "BELONGS_TO", "SAME_TOPIC_AS", "CORRECTS"} : link \in Binding!ToSet(Binding!Links)
  <2>1. /\ Binding!Links[1] = "ABOUT" /\ Binding!Links[2] = "SUPPORTS" /\ Binding!Links[3] = "BELONGS_TO"
        /\ Binding!Links[4] = "SAME_TOPIC_AS" /\ Binding!Links[5] = "CORRECTS" /\ DOMAIN Binding!Links = 1..5
    BY DEF Binding!Links
  <2>2. QED
    BY <2>1 DEF Binding!ToSet
<1>2. /\ at[p].event \in Binding!Event /\ at[p].related \subseteq Binding!Event /\ at[p].cluster \subseteq Binding!Event
      /\ Binding!Topic(p) \in Binding!Topics /\ Binding!Own(p) \in Binding!Cluster
  BY WorkIs, WorkRecord DEF Work, Binding!Topic
<1>3. Binding!Upward(p) \in SUBSET ToLink
  BY <1>1, <1>2 DEF Binding!Upward, ToLink, Place
<1>4. ASSUME NEW link \in {"SAME_TOPIC_AS", "CORRECTS"}, NEW n PROVE Binding!LinksTo(p, link, n) \in SUBSET ToLink
  <2>1. Binding!Newest(n, at[p].related) \subseteq Binding!Event
    BY <1>2 DEF Binding!Newest
  <2>2. QED
    BY <1>1, <1>2, <2>1 DEF Binding!LinksTo, ToLink, Place
<1>5. Binding!LinksOf(p) \in SUBSET ToLink
  BY <1>3, <1>4 DEF Binding!LinksOf
<1>6. QED
  BY <1>5 DEF Binding!LinksOf, Binding!Upward

LEMMA InsertBindingIs ==
  ASSUME BindTypes, NEW p \in Binders, Binding!InsertBinding(p)
  PROVE  /\ at[p] \in Work /\ at[p].step = "binding" /\ BindTypes'
         /\ at'[p] \in Work /\ at'[p].step = "link" /\ at'[p].event = at[p].event
         /\ at'[p].topics = at[p].topics /\ at'[p].todo = Binding!LinksOf(p)
         /\ at[p].event \in at[p].cluster
         /\ \A b \in bindings' : b \in bindings \/ (b.event = at[p].event /\ b.topic = Binding!Topic(p))
         /\ \A t : Binding!OnTopic(t)' = IF t = Binding!Topic(p) THEN Binding!OnTopic(t) \cup {at[p].event} ELSE Binding!OnTopic(t)
         /\ \A q \in Binders \ {p} : at'[q] = at[q]
<1> DEFINE w == [at[p] EXCEPT !.step = "link", !.todo = Binding!LinksOf(p)]
           new == [event |-> at[p].event, topic |-> Binding!Topic(p), action |-> Binding!Action(p)]
<1>1. /\ at[p].step = "binding" /\ at' = [at EXCEPT ![p] = w]
      /\ bindings' = {b \in bindings : <<b.event, b.topic>> # <<at[p].event, Binding!Topic(p)>>} \cup {new}
      /\ UNCHANGED <<raw, clusters, edges, stops>>
  BY DEF Binding!InsertBinding
<1>2. at[p] \in Work /\ AtWork(at[p]) /\ Binding!Topic(p) \in Binding!ToSet(at[p].topics)
  BY <1>1, WorkIs DEF Binding!Topic
<1>3. /\ w \in Work /\ w.step = "link" /\ w.event = at[p].event /\ w.topics = at[p].topics
      /\ w.todo = Binding!LinksOf(p)
  BY <1>2, LinksTyped DEF Work, BindStep
<1>4. new.event = at[p].event /\ new.topic = Binding!Topic(p) /\ new.action = Binding!Action(p)
  OBVIOUS
<1>5. Binding!Action(p) \in IF at[p].event \in Corrections THEN {"corrects_prior_memory", "possible_conflict"}
                     ELSE {"create_new_cluster", "strengthen_existing"}
  BY DEF Binding!Action
<1> HIDE DEF w, new
<1>6. AtWork(w) /\ at[p].event \in at[p].cluster
  BY <1>1, <1>2, <1>3 DEF AtWork
<1>7. /\ at'[p] = w /\ \A q \in Binders \ {p} : at'[q] = at[q]
      /\ at' \in [Binders -> Work \cup {Binding!Idle}]
  BY <1>1, <1>3, Changed
<1>8. BindTypes'
  <2>1. \A q \in Binders : (at[q] # Binding!Idle => AtWork(at[q]))'
    BY <1>1, <1>6, <1>7 DEF BindTypes, AtWork
  <2>2. ASSUME NEW b \in bindings'
        PROVE  /\ b.event \in 1..raw /\ b.topic \in Binding!ToSet(TopicsOf[b.event])
               /\ b.action \in IF b.event \in Corrections THEN {"corrects_prior_memory", "possible_conflict"}
                                ELSE {"create_new_cluster", "strengthen_existing"}
    <3>1. CASE b \in bindings
      BY <3>1 DEF BindTypes, BoundInv
    <3>2. CASE b = new
      BY <1>2, <1>4, <1>5, <3>2 DEF AtWork
    <3>3. QED
      BY <1>1, <3>1, <3>2
  <2>3. BoundInv'
    BY <1>1, <2>2 DEF BoundInv
  <2>4. QED
    BY <1>1, <1>7, <2>1, <2>3 DEF BindTypes
<1>9. ASSUME NEW t
      PROVE  Binding!OnTopic(t)' = IF t = Binding!Topic(p) THEN Binding!OnTopic(t) \cup {at[p].event} ELSE Binding!OnTopic(t)
  <2>1. \A b \in bindings' : \/ b \in bindings
                             \/ b.event = at[p].event /\ b.topic = Binding!Topic(p)
    BY <1>1, <1>4
  <2>2. \A b \in bindings : b \in bindings' \/ (b.event = at[p].event /\ b.topic = Binding!Topic(p))
    BY <1>1
  <2>3. new \in bindings'
    BY <1>1
  <2>4. \A e : e \in Binding!OnTopic(t)' <=> \E b \in bindings' : b.topic = t /\ b.event = e
    BY DEF Binding!OnTopic
  <2>5. \A e : e \in Binding!OnTopic(t) <=> \E b \in bindings : b.topic = t /\ b.event = e
    BY DEF Binding!OnTopic
  <2>6. CASE t = Binding!Topic(p)
    <3>1. \A e : e \in Binding!OnTopic(t)' <=> e \in Binding!OnTopic(t) \/ e = at[p].event
      BY <1>4, <2>1, <2>2, <2>3, <2>4, <2>5, <2>6
    <3>2. QED
      BY <2>6, <3>1
  <2>7. CASE t # Binding!Topic(p)
    <3>1. \A e : e \in Binding!OnTopic(t)' <=> e \in Binding!OnTopic(t)
      BY <2>1, <2>2, <2>4, <2>5, <2>7
    <3>2. QED
      BY <2>7, <3>1
  <2>8. QED
    BY <2>6, <2>7
<1>10. \A b \in bindings' : b \in bindings \/ (b.event = at[p].event /\ b.topic = Binding!Topic(p))
  BY <1>1, <1>4
<1>11. QED
  BY <1>1, <1>2, <1>3, <1>6, <1>7, <1>8, <1>9, <1>10

LEMMA LinkOneIs ==
  ASSUME BindTypes, NEW p \in Binders, Binding!LinkOne(p)
  PROVE  /\ at[p] \in Work /\ at[p].step = "link" /\ BindTypes'
         /\ at'[p] \in Work /\ at'[p].step = "link" /\ at'[p].event = at[p].event
         /\ at'[p].topics = at[p].topics
         /\ \A q \in Binders \ {p} : at'[q] = at[q]
         /\ DOMAIN edges \subseteq DOMAIN edges' /\ \A k : Binding!Evidence(k) \subseteq Binding!Evidence(k)'
         /\ \E l \in at[p].todo : /\ at'[p].todo = at[p].todo \ {l}
                                  /\ l.edge \in DOMAIN edges' /\ l.ev \subseteq Binding!Evidence(l.edge)'
<1>1. at[p].step = "link" /\ UNCHANGED <<raw, clusters, bindings, stops>>
  BY DEF Binding!LinkOne
<1>2. at[p] \in Work /\ AtWork(at[p])
  BY <1>1, WorkIs
<1>3. PICK l \in at[p].todo : /\ edges' = Binding!Merged(l.edge, l.ev)
                              /\ at' = [at EXCEPT ![p] = [@ EXCEPT !.todo = at[p].todo \ {l}]]
  BY DEF Binding!LinkOne
<1> DEFINE w == [at[p] EXCEPT !.todo = at[p].todo \ {l}]
<1>4. at' = [at EXCEPT ![p] = w]
  BY <1>3
<1>5. /\ w \in Work /\ w.step = "link" /\ w.event = at[p].event /\ w.topics = at[p].topics
      /\ w.todo = at[p].todo \ {l}
  <2>1. at[p].todo \ {l} \in SUBSET ToLink
    BY <1>2 DEF Work
  <2>2. QED
    BY <1>1, <1>2, <2>1 DEF Work
<1> HIDE DEF w
<1>6. AtWork(w)
  BY <1>2, <1>5 DEF AtWork
<1>7. l \in ToLink
  BY <1>2 DEF Work
<1>8. DOMAIN edges' = DOMAIN edges \cup {l.edge}
  BY <1>3 DEF Binding!Merged
<1>9. \A k \in DOMAIN edges' : edges'[k] = IF k = l.edge THEN Binding!Evidence(k) \cup l.ev ELSE edges[k]
  BY <1>3 DEF Binding!Merged
<1>10. \A k : Binding!Evidence(k) \subseteq Binding!Evidence(k)'
  BY <1>8, <1>9 DEF Binding!Evidence
<1>11. l.edge \in DOMAIN edges' /\ l.ev \subseteq Binding!Evidence(l.edge)'
  BY <1>8, <1>9 DEF Binding!Evidence
<1>12. \A k \in DOMAIN edges' : k[1] \in Binding!ToSet(Binding!Links) /\ edges'[k] \subseteq Binding!Event
  <2>1. l.edge[1] \in Binding!ToSet(Binding!Links) /\ l.ev \subseteq Binding!Event
    BY <1>7 DEF ToLink
  <2>2. QED
    BY <1>8, <1>9, <2>1 DEF BindTypes, Binding!Evidence
<1>13. BindTypes'
  BY <1>1, <1>4, <1>5, <1>6, <1>12, OneChanged DEF BindTypes
<1>14. /\ at'[p] = w /\ \A q \in Binders \ {p} : at'[q] = at[q]
  BY <1>4, <1>5, Changed
<1>15. QED
  BY <1>1, <1>2, <1>3, <1>5, <1>8, <1>10, <1>11, <1>13, <1>14

LEMMA NextTopicIs ==
  ASSUME BindTypes, NEW p \in Binders, Binding!NextTopic(p)
  PROVE  /\ at[p] \in Work /\ at[p].step = "link" /\ at[p].todo = {} /\ BindTypes'
         /\ \/ at'[p] = Binding!Idle
            \/ at'[p] \in Work /\ at'[p].step = "related" /\ at'[p].event = at[p].event
         /\ \A q \in Binders \ {p} : at'[q] = at[q]
<1>1. /\ at[p].step = "link" /\ at[p].todo = {}
      /\ UNCHANGED <<raw, clusters, bindings, edges, stops>>
  BY DEF Binding!NextTopic
<1>2. at[p] \in Work /\ AtWork(at[p])
  BY <1>1, WorkIs
<1>3. CASE Len(at[p].topics) = 1
  <2>1. at' = [at EXCEPT ![p] = Binding!Idle]
    BY <1>3 DEF Binding!NextTopic
  <2>2. BindTypes'
    BY <1>1, <2>1, OneChanged DEF BindTypes
  <2>3. QED
    BY <1>1, <1>2, <2>1, <2>2, Changed
<1>4. CASE Len(at[p].topics) # 1
  <2> DEFINE w == [at[p] EXCEPT !.step = "related", !.topics = Tail(at[p].topics)]
  <2>1. at' = [at EXCEPT ![p] = w]
    BY <1>4 DEF Binding!NextTopic
  <2>2. at[p].topics \in Seq(Binding!Topics) /\ at[p].topics # <<>>
    BY <1>2 DEF Work, AtWork
  <2>3. /\ Tail(at[p].topics) \in Seq(Binding!Topics) /\ Tail(at[p].topics) # <<>>
        /\ Binding!ToSet(Tail(at[p].topics)) \subseteq Binding!ToSet(at[p].topics)
    <3>1. /\ Tail(at[p].topics) \in Seq(Binding!Topics) /\ Len(at[p].topics) \in Nat \ {0}
          /\ Len(Tail(at[p].topics)) = Len(at[p].topics) - 1
          /\ \A i \in 1..Len(Tail(at[p].topics)) : Tail(at[p].topics)[i] = at[p].topics[i + 1]
      BY <2>2, HeadTailProperties
    <3>2. Tail(at[p].topics) # <<>>
      <4>1. Len(Tail(at[p].topics)) # 0
        BY <1>4, <3>1
      <4>2. Len(<<>>) = 0
        OBVIOUS
      <4>3. QED
        BY <4>1, <4>2
    <3>3. ASSUME NEW i \in DOMAIN Tail(at[p].topics) PROVE Tail(at[p].topics)[i] \in Binding!ToSet(at[p].topics)
      <4>1. i \in 1..Len(Tail(at[p].topics)) /\ i + 1 \in DOMAIN at[p].topics
        BY <2>2, <3>1
      <4>2. QED
        BY <3>1, <4>1 DEF Binding!ToSet
    <3>4. QED
      BY <3>1, <3>2, <3>3 DEF Binding!ToSet
  <2>4. /\ w \in Work /\ w.step = "related" /\ w.event = at[p].event /\ w.topics = Tail(at[p].topics)
    BY <1>2, <2>3 DEF Work, BindStep
  <2> HIDE DEF w
  <2>5. AtWork(w)
    BY <1>2, <2>3, <2>4 DEF AtWork
  <2>6. BindTypes'
    BY <1>1, <2>1, <2>4, <2>5, OneChanged DEF BindTypes
  <2>7. QED
    BY <1>1, <1>2, <2>1, <2>4, <2>6, Changed
<1>5. QED
  BY <1>3, <1>4

LEMMA StopIs ==
  ASSUME BindTypes, NEW p \in Binders, Binding!Stop(p)
  PROVE  /\ BindTypes' /\ at'[p] = Binding!Idle /\ stops' = stops + 1
         /\ \A q \in Binders \ {p} : at'[q] = at[q]
<1>1. /\ stops < MaxStops /\ stops' = stops + 1 /\ at' = [at EXCEPT ![p] = Binding!Idle]
      /\ UNCHANGED <<raw, clusters, bindings, edges>>
  BY DEF Binding!Stop
<1>2. stops' \in 0..MaxStops
  BY <1>1, Constants DEF BindTypes
<1>3. BindTypes'
  BY <1>1, <1>2, OneChanged DEF BindTypes
<1>4. QED
  BY <1>1, <1>3, Changed

LEMMA BindInit == Binding!Init => BindTypes
  BY Constants DEF Binding!Init, BindTypes, BoundInv, Binding!Event

LEMMA BindTyped == BindTypes => Binding!TypeOK
<1> SUFFICES ASSUME BindTypes PROVE Binding!TypeOK
  OBVIOUS
<1>1. \A p \in Binders : at[p].step \in {"idle", "related", "cluster", "fuse", "binding", "link"}
  BY DEF BindTypes, Work, BindStep, Binding!Idle
<1>2. QED
  BY <1>1 DEF BindTypes, BoundInv, Binding!TypeOK

-----------------------------------------------------------------------------
(* The evidence of the edge to the topic.                                    *)

BelongsTo(b) == <<"BELONGS_TO", Binding!ClusterOf(b.event, b.topic), b.topic>>

\* The edge of a binding has its event, or a call is about to write it.
Pending(b, p) == /\ at[p].step = "link" /\ at[p].event = b.event
                 /\ \E l \in at[p].todo : l.edge = BelongsTo(b) /\ b.event \in l.ev
EvidenceInv ==
  stops = 0 => \A b \in bindings : b.event \in Binding!Evidence(BelongsTo(b)) \/ \E p \in Binders : Pending(b, p)

\* A step of a call that has nothing to write.
LEMMA EvidenceKept ==
  ASSUME EvidenceInv, NEW p \in Binders, at[p].step # "link" \/ at[p].todo = {},
         \A q \in Binders \ {p} : at'[q] = at[q],
         UNCHANGED <<bindings, edges, stops>>
  PROVE  EvidenceInv'
<1> SUFFICES ASSUME stops = 0, NEW b \in bindings
             PROVE  (b.event \in Binding!Evidence(BelongsTo(b)))' \/ \E q \in Binders : Pending(b, q)'
  BY DEF EvidenceInv
<1>1. CASE b.event \in Binding!Evidence(BelongsTo(b))
  BY <1>1 DEF Binding!Evidence, BelongsTo
<1>2. CASE \E q \in Binders : Pending(b, q)
  <2>1. PICK q \in Binders : Pending(b, q)
    BY <1>2
  <2>2. q # p
    BY <2>1 DEF Pending
  <2>3. at'[q] = at[q]
    BY <2>2
  <2>4. Pending(b, q)'
    BY <2>1, <2>3 DEF Pending, BelongsTo
  <2>5. QED
    BY <2>4
<1>3. QED
  BY <1>1, <1>2 DEF EvidenceInv

LEMMA EvidenceNext == BindTypes /\ EvidenceInv /\ [Binding!Next]_(Binding!vars) => BindTypes' /\ EvidenceInv'
<1> SUFFICES ASSUME BindTypes, EvidenceInv, [Binding!Next]_(Binding!vars) PROVE BindTypes' /\ EvidenceInv'
  OBVIOUS
<1>1. ASSUME NEW p \in Binders, Binding!Record(p) PROVE BindTypes' /\ EvidenceInv'
  <2>1. at[p] = Binding!Idle /\ UNCHANGED <<bindings, edges, stops>> /\ \A q \in Binders \ {p} : at'[q] = at[q]
    BY <1>1 DEF Binding!Record, Binding!Bind, BindTypes
  <2>2. QED
    BY <1>1, <2>1, BindRecordStep, EvidenceKept DEF Binding!Idle
<1>2. ASSUME NEW p \in Binders, NEW e \in Binding!Event, Binding!Backfill(p, e) PROVE BindTypes' /\ EvidenceInv'
  <2>1. at[p] = Binding!Idle /\ UNCHANGED <<bindings, edges, stops>> /\ \A q \in Binders \ {p} : at'[q] = at[q]
    BY <1>2 DEF Binding!Backfill, Binding!Bind, BindTypes
  <2>2. QED
    BY <1>2, <2>1, BackfillStep, EvidenceKept DEF Binding!Idle
<1>3. ASSUME NEW p \in Binders, Binding!ReadRelated(p) PROVE BindTypes' /\ EvidenceInv'
  <2>1. UNCHANGED <<bindings, edges, stops>>
    BY <1>3 DEF Binding!ReadRelated
  <2>2. QED
    BY <1>3, <2>1, ReadRelatedIs, EvidenceKept
<1>4. ASSUME NEW p \in Binders, Binding!ReadCluster(p) PROVE BindTypes' /\ EvidenceInv'
  <2>1. UNCHANGED <<bindings, edges, stops>>
    BY <1>4 DEF Binding!ReadCluster
  <2>2. QED
    BY <1>4, <2>1, ReadClusterIs, EvidenceKept
<1>5. ASSUME NEW p \in Binders, Binding!WriteCluster(p) PROVE BindTypes' /\ EvidenceInv'
  <2>1. UNCHANGED <<bindings, edges, stops>>
    BY <1>5 DEF Binding!WriteCluster
  <2>2. QED
    BY <1>5, <2>1, WriteClusterIs, EvidenceKept
<1>6. ASSUME NEW p \in Binders, Binding!InsertBinding(p) PROVE BindTypes' /\ EvidenceInv'
  <2>1. edges' = edges /\ stops' = stops
    BY <1>6 DEF Binding!InsertBinding
  <2>2. /\ at[p] \in Work /\ at[p].step = "binding" /\ BindTypes'
        /\ at'[p].step = "link" /\ at'[p].event = at[p].event /\ at'[p].todo = Binding!LinksOf(p)
        /\ at[p].event \in at[p].cluster
        /\ \A b \in bindings' : b \in bindings \/ (b.event = at[p].event /\ b.topic = Binding!Topic(p))
        /\ \A q \in Binders \ {p} : at'[q] = at[q]
    BY <1>6, InsertBindingIs
  <2>3. ASSUME stops = 0, NEW b \in bindings'
        PROVE  (b.event \in Binding!Evidence(BelongsTo(b)))' \/ \E q \in Binders : Pending(b, q)'
    <3>1. CASE b.event = at[p].event /\ b.topic = Binding!Topic(p)
      <4>1. [edge |-> <<"BELONGS_TO", Binding!Own(p), Binding!Topic(p)>>, ev |-> at[p].cluster] \in at'[p].todo
        BY <2>2, LinksTyped
      <4>2. BelongsTo(b) = <<"BELONGS_TO", Binding!Own(p), Binding!Topic(p)>>
        BY <3>1 DEF BelongsTo, Binding!Own
      <4>3. Pending(b, p)'
        BY <2>2, <3>1, <4>1, <4>2 DEF Pending, BelongsTo
      <4>4. QED
        BY <4>3
    <3>2. CASE b \in bindings /\ b.event \in Binding!Evidence(BelongsTo(b))
      BY <2>1, <3>2 DEF Binding!Evidence, BelongsTo
    <3>3. CASE b \in bindings /\ \E q \in Binders : Pending(b, q)
      <4>1. PICK q \in Binders : Pending(b, q)
        BY <3>3
      <4>2. at'[q] = at[q]
        BY <2>2, <4>1 DEF Pending
      <4>3. Pending(b, q)'
        BY <4>1, <4>2 DEF Pending, BelongsTo
      <4>4. QED
        BY <4>3
    <3>4. QED
      BY <2>2, <2>3, <3>1, <3>2, <3>3 DEF EvidenceInv
  <2>4. QED
    BY <2>1, <2>2, <2>3 DEF EvidenceInv
<1>7. ASSUME NEW p \in Binders, Binding!LinkOne(p) PROVE BindTypes' /\ EvidenceInv'
  <2>1. bindings' = bindings /\ stops' = stops
    BY <1>7 DEF Binding!LinkOne
  <2>2. /\ BindTypes' /\ at'[p].step = "link" /\ at'[p].event = at[p].event
        /\ \A q \in Binders \ {p} : at'[q] = at[q]
        /\ \A k : Binding!Evidence(k) \subseteq Binding!Evidence(k)'
    BY <1>7, LinkOneIs
  <2>3. PICK l \in at[p].todo : at'[p].todo = at[p].todo \ {l} /\ l.ev \subseteq Binding!Evidence(l.edge)'
    BY <1>7, LinkOneIs
  <2>4. ASSUME stops = 0, NEW b \in bindings
        PROVE  (b.event \in Binding!Evidence(BelongsTo(b)))' \/ \E q \in Binders : Pending(b, q)'
    <3>0. BelongsTo(b)' = BelongsTo(b)
      BY DEF BelongsTo
    <3>1. CASE b.event \in Binding!Evidence(BelongsTo(b))
      BY <2>2, <3>0, <3>1
    <3>2. CASE \E q \in Binders \ {p} : Pending(b, q)
      <4>1. PICK q \in Binders \ {p} : Pending(b, q)
        BY <3>2
      <4>2. Pending(b, q)'
        BY <2>2, <4>1 DEF Pending, BelongsTo
      <4>3. QED
        BY <4>2
    <3>3. CASE Pending(b, p)
      <4>1. PICK m \in at[p].todo : m.edge = BelongsTo(b) /\ b.event \in m.ev
        BY <3>3 DEF Pending
      <4>2. CASE m = l
        BY <2>3, <3>0, <4>1, <4>2
      <4>3. CASE m # l
        <5>1. m \in at'[p].todo
          BY <2>3, <4>3
        <5>2. Pending(b, p)'
          BY <2>2, <3>0, <3>3, <4>1, <5>1 DEF Pending
        <5>3. QED
          BY <5>2
      <4>4. QED
        BY <4>2, <4>3
    <3>4. QED
      BY <2>4, <3>1, <3>2, <3>3 DEF EvidenceInv
  <2>5. QED
    BY <2>1, <2>2, <2>4 DEF EvidenceInv
<1>8. ASSUME NEW p \in Binders, Binding!NextTopic(p) PROVE BindTypes' /\ EvidenceInv'
  <2>1. UNCHANGED <<bindings, edges, stops>>
    BY <1>8 DEF Binding!NextTopic
  <2>2. QED
    BY <1>8, <2>1, NextTopicIs, EvidenceKept
<1>9. ASSUME NEW p \in Binders, Binding!Stop(p) PROVE BindTypes' /\ EvidenceInv'
  <2>1. stops' # 0
    BY <1>9, StopIs, Constants DEF BindTypes
  <2>2. QED
    BY <1>9, <2>1, StopIs DEF EvidenceInv
<1>10. CASE UNCHANGED Binding!vars
  <2>1. BindTypes'
    BY <1>10 DEF Binding!vars, BindTypes, BoundInv, AtWork
  <2>2. EvidenceInv'
    BY <1>10 DEF Binding!vars, EvidenceInv, Pending, BelongsTo, Binding!Evidence
  <2>3. QED
    BY <2>1, <2>2
<1>11. QED
  BY <1>1, <1>2, <1>3, <1>4, <1>5, <1>6, <1>7, <1>8, <1>9, <1>10 DEF Binding!Next

LEMMA EvidenceHolds == EvidenceInv => Binding!EdgesKeepEvidence
<1> SUFFICES ASSUME EvidenceInv, stops = 0, NEW b \in bindings, ~Binding!Working(b.event)
             PROVE  b.event \in Binding!Evidence(BelongsTo(b))
  BY DEF Binding!EdgesKeepEvidence, BelongsTo
<1>1. ASSUME NEW p \in Binders, Pending(b, p) PROVE FALSE
  <2>1. at[p] # Binding!Idle
    BY <1>1 DEF Pending, Binding!Idle
  <2>2. QED
    BY <1>1, <2>1 DEF Pending, Binding!Working
<1>2. QED
  BY <1>1 DEF EvidenceInv

\* However many processes fuse into a cluster, the edge from it to its topic has the
\* evidence of every event that was bound to the end.
THEOREM EvidenceKeptThere == Binding!Spec => [](Binding!TypeOK /\ Binding!EdgesKeepEvidence)
<1>1. Binding!Init => BindTypes /\ EvidenceInv
  BY BindInit DEF Binding!Init, EvidenceInv
<1>2. BindTypes /\ EvidenceInv => Binding!TypeOK /\ Binding!EdgesKeepEvidence
  BY BindTyped, EvidenceHolds
<1>3. QED
  BY <1>1, <1>2, EvidenceNext, PTL DEF Binding!Spec

-----------------------------------------------------------------------------
(* One process at a time.                                                    *)

Lone == \A p, q \in Binders : at[p] # Binding!Idle /\ at[q] # Binding!Idle => p = q

\* What is fused is not lost: the row was read after all that was written.
ClusterInv ==
  /\ Binding!ClusterHoldsItsBindings
  /\ \A p \in Binders : /\ at[p].step = "fuse" => clusters[Binding!Own(p)] \subseteq at[p].cluster
                        /\ at[p].step = "binding" => at[p].event \in clusters[Binding!Own(p)]

\* A step that changes no cluster, nor adds a binding.
LEMMA ClusterKept ==
  ASSUME ClusterInv, NEW p \in Binders, \A q \in Binders \ {p} : at'[q] = at[q],
         clusters' = clusters, bindings' = bindings,
         (at[p].step = "fuse" => clusters[Binding!Own(p)] \subseteq at[p].cluster)',
         (at[p].step = "binding" => at[p].event \in clusters[Binding!Own(p)])'
  PROVE  ClusterInv'
<1>1. Binding!ClusterHoldsItsBindings'
  BY DEF ClusterInv, Binding!ClusterHoldsItsBindings
<1>2. ASSUME NEW q \in Binders
      PROVE  /\ (at[q].step = "fuse" => clusters[Binding!Own(q)] \subseteq at[q].cluster)'
             /\ (at[q].step = "binding" => at[q].event \in clusters[Binding!Own(q)])'
  <2>1. CASE q = p
    BY <2>1
  <2>2. CASE q # p
    <3>1. at'[q] = at[q]
      BY <2>2
    <3>2. Binding!Own(q)' = Binding!Own(q)
      BY <3>1 DEF Binding!Own, Binding!Topic
    <3>3. QED
      BY <3>1, <3>2 DEF ClusterInv
  <2>3. QED
    BY <2>1, <2>2
<1>3. QED
  BY <1>1, <1>2 DEF ClusterInv

LEMMA ClusterNext ==
  ASSUME BindTypes, ClusterInv, Lone, [Binding!Next]_(Binding!vars) PROVE ClusterInv'
<1>1. ASSUME NEW p \in Binders, Binding!Record(p) \/ \E e \in Binding!Event : Binding!Backfill(p, e) PROVE ClusterInv'
  <2>1. PICK e \in Binding!Event : Binding!Bind(p, e) /\ UNCHANGED <<clusters, bindings>>
    BY <1>1, Constants DEF Binding!Record, Binding!Backfill, BindTypes, Binding!Event
  <2>2. at'[p].step = "related" /\ \A q \in Binders \ {p} : at'[q] = at[q]
    BY <2>1, BindIs
  <2>3. QED
    BY <2>1, <2>2, ClusterKept
<1>2. ASSUME NEW p \in Binders, Binding!ReadRelated(p) PROVE ClusterInv'
  <2>1. UNCHANGED <<clusters, bindings>>
    BY <1>2 DEF Binding!ReadRelated
  <2>2. at'[p].step = "cluster" /\ \A q \in Binders \ {p} : at'[q] = at[q]
    BY <1>2, ReadRelatedIs
  <2>3. QED
    BY <2>1, <2>2, ClusterKept
<1>3. ASSUME NEW p \in Binders, Binding!ReadCluster(p) PROVE ClusterInv'
  <2>1. UNCHANGED <<clusters, bindings>>
    BY <1>3 DEF Binding!ReadCluster
  <2>2. /\ at'[p].step = "fuse" /\ at'[p].event = at[p].event /\ at'[p].topics = at[p].topics
        /\ at'[p].cluster = clusters[Binding!Own(p)] \cup {at[p].event}
        /\ \A q \in Binders \ {p} : at'[q] = at[q]
    BY <1>3, ReadClusterIs
  <2>3. Binding!Own(p)' = Binding!Own(p)
    BY <2>2 DEF Binding!Own, Binding!Topic
  <2>4. clusters'[Binding!Own(p)'] \subseteq at'[p].cluster
    BY <2>1, <2>2, <2>3
  <2>5. QED
    BY <2>1, <2>2, <2>4, ClusterKept
<1>4. ASSUME NEW p \in Binders, Binding!WriteCluster(p) PROVE ClusterInv'
  <2>1. bindings' = bindings
    BY <1>4 DEF Binding!WriteCluster
  <2>2. /\ at[p] \in Work /\ at[p].step = "fuse"
        /\ at'[p].step = "binding" /\ at'[p].event = at[p].event
        /\ at'[p].topics = at[p].topics /\ at[p].event \in at[p].cluster
        /\ \A c \in Binding!Cluster : clusters'[c] = IF c = Binding!Own(p) THEN at[p].cluster ELSE clusters[c]
        /\ \A q \in Binders \ {p} : at'[q] = at[q]
    BY <1>4, WriteClusterIs
  <2>3. Binding!Own(p)' = Binding!Own(p) /\ Binding!Own(p) \in Binding!Cluster /\ at[p] # Binding!Idle
    BY <2>2, WorkIs DEF Binding!Own, Binding!Topic
  <2>4. \A c \in Binding!Cluster : clusters[c] \subseteq clusters'[c]
    BY <2>2 DEF ClusterInv
  <2>5. \A b \in bindings : Binding!ClusterOf(b.event, b.topic) \in Binding!Cluster
    BY Constants DEF BindTypes, BoundInv, Binding!ClusterOf, Binding!Kind, Binding!Cluster, Binding!Event
  <2>6. Binding!ClusterHoldsItsBindings'
    BY <2>1, <2>4, <2>5 DEF ClusterInv, Binding!ClusterHoldsItsBindings, Binding!ClusterOf, Binding!Kind
  <2>7. at'[p].event \in clusters'[Binding!Own(p)']
    BY <2>2, <2>3
  <2>8. \A q \in Binders \ {p} : at'[q] = Binding!Idle
    BY <2>2, <2>3 DEF Lone
  <2>9. QED
    BY <2>2, <2>6, <2>7, <2>8 DEF ClusterInv, Binding!Idle
<1>5. ASSUME NEW p \in Binders, Binding!InsertBinding(p) PROVE ClusterInv'
  <2>1. clusters' = clusters
    BY <1>5 DEF Binding!InsertBinding
  <2>2. /\ at[p].step = "binding" /\ at'[p].step = "link"
        /\ \A b \in bindings' : b \in bindings \/ (b.event = at[p].event /\ b.topic = Binding!Topic(p))
        /\ \A q \in Binders \ {p} : at'[q] = at[q]
    BY <1>5, InsertBindingIs
  <2>3. at[p].event \in clusters[Binding!ClusterOf(at[p].event, Binding!Topic(p))]
    BY <2>2 DEF ClusterInv, Binding!Own
  <2>4. Binding!ClusterHoldsItsBindings'
    <3> SUFFICES ASSUME NEW b \in bindings'
                 PROVE  b.event \in clusters[Binding!ClusterOf(b.event, b.topic)]
      BY <2>1 DEF Binding!ClusterHoldsItsBindings, Binding!ClusterOf, Binding!Kind
    <3>1. CASE b \in bindings
      BY <3>1 DEF ClusterInv, Binding!ClusterHoldsItsBindings
    <3>2. CASE b.event = at[p].event /\ b.topic = Binding!Topic(p)
      BY <2>3, <3>2
    <3>3. QED
      BY <2>2, <3>1, <3>2
  <2>5. ASSUME NEW q \in Binders
        PROVE  /\ (at[q].step = "fuse" => clusters[Binding!Own(q)] \subseteq at[q].cluster)'
               /\ (at[q].step = "binding" => at[q].event \in clusters[Binding!Own(q)])'
    <3>1. CASE q = p
      BY <2>2, <3>1
    <3>2. CASE q # p
      <4>1. at'[q] = at[q]
        BY <2>2, <3>2
      <4>2. Binding!Own(q)' = Binding!Own(q)
        BY <4>1 DEF Binding!Own, Binding!Topic
      <4>3. QED
        BY <2>1, <4>1, <4>2 DEF ClusterInv
    <3>3. QED
      BY <3>1, <3>2
  <2>6. QED
    BY <2>4, <2>5 DEF ClusterInv
<1>6. ASSUME NEW p \in Binders, Binding!LinkOne(p) PROVE ClusterInv'
  <2>1. UNCHANGED <<clusters, bindings>>
    BY <1>6 DEF Binding!LinkOne
  <2>2. at'[p].step = "link" /\ \A q \in Binders \ {p} : at'[q] = at[q]
    BY <1>6, LinkOneIs
  <2>3. QED
    BY <2>1, <2>2, ClusterKept
<1>7. ASSUME NEW p \in Binders, Binding!NextTopic(p) PROVE ClusterInv'
  <2>1. UNCHANGED <<clusters, bindings>>
    BY <1>7 DEF Binding!NextTopic
  <2>2. at'[p].step \in {"idle", "related"} /\ \A q \in Binders \ {p} : at'[q] = at[q]
    BY <1>7, NextTopicIs DEF Binding!Idle
  <2>3. QED
    BY <2>1, <2>2, ClusterKept
<1>8. ASSUME NEW p \in Binders, Binding!Stop(p) PROVE ClusterInv'
  <2>1. UNCHANGED <<clusters, bindings>>
    BY <1>8 DEF Binding!Stop
  <2>2. at'[p].step = "idle" /\ \A q \in Binders \ {p} : at'[q] = at[q]
    BY <1>8, StopIs DEF Binding!Idle
  <2>3. QED
    BY <2>1, <2>2, ClusterKept
<1>9. CASE UNCHANGED Binding!vars
  BY <1>9 DEF Binding!vars, ClusterInv, Binding!ClusterHoldsItsBindings, Binding!Own, Binding!Topic
<1>10. QED
  BY <1>1, <1>2, <1>3, <1>4, <1>5, <1>6, <1>7, <1>8, <1>9 DEF Binding!Next

-----------------------------------------------------------------------------
(* What one process binds hangs together.                                    *)

Linked(a, b) == {<<"SAME_TOPIC_AS", a, b>>, <<"SAME_TOPIC_AS", b, a>>} \cap DOMAIN edges # {}
Done(t) == {e \in Binding!OnTopic(t) : ~Binding!Working(e)}
Joined(done) == \A es \in (SUBSET done) \ {{}, done} : \E a \in es, b \in done \ es : Linked(a, b)
Reaches(e, done) == done = {} \/ \E o \in done : Linked(e, o)

Topped == \A t \in Binding!Topics : Binding!OnTopic(t) = {} \/ \E m \in Binding!OnTopic(t) : \A x \in Binding!OnTopic(t) : x <= m

\* The event of a call reaches what is bound to a topic, once it is bound itself; or it is
\* about to be linked to the newest.
ToWrite(p, t) ==
  /\ at[p].step = "link" /\ t = Binding!Topic(p)
  /\ \E o \in Done(t), l \in at[p].todo : l.edge = <<"SAME_TOPIC_AS", at[p].event, o>>
HasRead(p) == \E m \in at[p].related : m \in Done(Binding!Topic(p)) /\ \A x \in at[p].related : x <= m
CallInv(p) ==
  at[p] # Binding!Idle =>
    /\ \A t \in Binding!Topics : at[p].event \in Binding!OnTopic(t) => Reaches(at[p].event, Done(t)) \/ ToWrite(p, t)
    /\ at[p].step \in {"cluster", "fuse", "binding"} =>
         Reaches(at[p].event, Done(Binding!Topic(p))) \/ HasRead(p)

JoinedInv ==
  stops = 0 => /\ \A t \in Binding!Topics : Joined(Done(t))
               /\ Topped
               /\ \A p \in Binders : CallInv(p)

LEMMA JoinedMore ==
  ASSUME NEW done, NEW e, Joined(done), Reaches(e, done) PROVE Joined(done \cup {e})
<1> SUFFICES ASSUME NEW es \in (SUBSET (done \cup {e})) \ {{}, done \cup {e}}
             PROVE  \E a \in es, b \in (done \cup {e}) \ es : Linked(a, b)
  BY DEF Joined
<1>0. \A a, b : Linked(a, b) <=> Linked(b, a)
  BY DEF Linked
<1>1. CASE es \ {e} \notin {{}, done}
  <2>1. es \ {e} \in (SUBSET done) \ {{}, done}
    BY <1>1
  <2>2. PICK a \in es \ {e}, b \in done \ (es \ {e}) : Linked(a, b)
    BY <2>1 DEF Joined
  <2>3. CASE b # e
    BY <2>2, <2>3
  <2>4. CASE b = e /\ e \notin es
    BY <2>2, <2>4
  <2>5. CASE b = e /\ e \in es
    <3>1. es \in (SUBSET done) \ {{}, done}
      BY <2>2, <2>5
    <3>2. PICK c \in es, d \in done \ es : Linked(c, d)
      BY <3>1 DEF Joined
    <3>3. QED
      BY <3>2
  <2>6. QED
    BY <2>3, <2>4, <2>5
<1>2. CASE es \ {e} = {}
  <2>1. es = {e}
    BY <1>2
  <2>2. CASE e \in done
    <3>1. es \in (SUBSET done) \ {{}, done}
      BY <2>1, <2>2
    <3>2. PICK c \in es, d \in done \ es : Linked(c, d)
      BY <3>1 DEF Joined
    <3>3. QED
      BY <3>2
  <2>3. CASE e \notin done
    <3>1. done # {}
      BY <2>1
    <3>2. PICK o \in done : Linked(e, o)
      BY <3>1 DEF Reaches
    <3>3. QED
      BY <2>1, <2>3, <3>2
  <2>4. QED
    BY <2>2, <2>3
<1>3. CASE es \ {e} = done /\ es \ {e} # {}
  <2>1. e \notin es /\ es = done
    BY <1>3
  <2>2. PICK o \in done : Linked(e, o)
    BY <1>3 DEF Reaches
  <2>3. QED
    BY <1>0, <2>1, <2>2
<1>4. QED
  BY <1>1, <1>2, <1>3

LEMMA JoinedStays ==
  ASSUME NEW done, Joined(done), DOMAIN edges \subseteq DOMAIN edges' PROVE Joined(done)'
<1>1. \A a, b : Linked(a, b) => Linked(a, b)'
  BY DEF Linked
<1>2. QED
  BY <1>1 DEF Joined

LEMMA ReachesStays ==
  ASSUME NEW done, NEW e, Reaches(e, done), DOMAIN edges \subseteq DOMAIN edges' PROVE Reaches(e, done)'
  BY DEF Reaches, Linked

LEMMA WorkingIs ==
  ASSUME NEW p \in Binders
  PROVE  /\ (\A q \in Binders \ {p} : at[q] = Binding!Idle) =>
              \A x : Binding!Working(x) <=> at[p] # Binding!Idle /\ at[p].event = x
         /\ (\A q \in Binders \ {p} : at'[q] = Binding!Idle) =>
              \A x : Binding!Working(x)' <=> at'[p] # Binding!Idle /\ at'[p].event = x
  BY DEF Binding!Working

LEMMA OthersIdle ==
  ASSUME Lone, Lone', NEW p \in Binders, \A q \in Binders \ {p} : at'[q] = at[q],
         at[p] # Binding!Idle \/ at'[p] # Binding!Idle
  PROVE  \A q \in Binders \ {p} : at[q] = Binding!Idle /\ at'[q] = Binding!Idle
  BY DEF Lone

LEMMA SameSize == \A S : Binding!Cardinality(S) = Cardinality(S)
  BY Zenon DEF Binding!Cardinality, Cardinality

\* The newest of what is read.
LEMMA NewestHas ==
  ASSUME NEW n \in Nat \ {0}, NEW es \in SUBSET Binding!Event, NEW m \in es, \A x \in es : x <= m
  PROVE  m \in Binding!Newest(n, es)
<1>1. Binding!Event \subseteq Nat
  BY DEF Binding!Event
<1>2. {x \in es : x > m} = {}
  <2>1. \A x \in es : x \in Nat /\ m \in Nat
    BY <1>1
  <2>2. \A x \in es : ~(x > m)
    BY <2>1
  <2>3. QED
    BY <2>2
<1>3. Cardinality({x \in es : x > m}) = 0
  BY <1>2, FS_EmptySet
<1>4. QED
  BY <1>3, SameSize DEF Binding!Newest

\* A step that leaves the bindings and that goes on with its event.
LEMMA GoesOn ==
  ASSUME JoinedInv, stops = 0, NEW p \in Binders,
         \A q \in Binders \ {p} : at[q] = Binding!Idle /\ at'[q] = Binding!Idle,
         at[p] # Binding!Idle, at'[p] # Binding!Idle, at'[p].event = at[p].event,
         bindings' = bindings, DOMAIN edges \subseteq DOMAIN edges'
  PROVE  /\ \A t : Binding!OnTopic(t)' = Binding!OnTopic(t) /\ Done(t)' = Done(t)
         /\ \A t \in Binding!Topics : Joined(Done(t))'
         /\ Topped'
         /\ \A t : Reaches(at[p].event, Done(t)) => Reaches(at[p].event, Done(t))'
<1>1. \A t : Binding!OnTopic(t)' = Binding!OnTopic(t)
  BY DEF Binding!OnTopic
<1>2. \A x : Binding!Working(x)' <=> Binding!Working(x)
  BY WorkingIs
<1>3. \A t : Done(t)' = Done(t)
  BY <1>1, <1>2 DEF Done
<1>4. ASSUME NEW t \in Binding!Topics PROVE Joined(Done(t))'
  <2>1. PICK done : done = Done(t)
    OBVIOUS
  <2>2. Joined(done) /\ done = Done(t)'
    BY <1>3, <2>1 DEF JoinedInv
  <2>3. Joined(done)'
    BY <2>2, JoinedStays
  <2>4. QED
    BY <2>2, <2>3 DEF Joined
<1>5. Topped'
  BY <1>1 DEF JoinedInv, Topped
<1>6. ASSUME NEW t, Reaches(at[p].event, Done(t)) PROVE Reaches(at[p].event, Done(t))'
  BY <1>3, <1>6 DEF Reaches, Linked
<1>7. QED
  BY <1>1, <1>3, <1>4, <1>5, <1>6

\* A call begins with an event that is not bound yet.
LEMMA JoinedBegins ==
  ASSUME BindTypes, JoinedInv, Lone, Lone', NEW p \in Binders, NEW e \in Binding!Event, at[p] = Binding!Idle, ~Binding!Bound(e),
         Binding!Bind(p, e), UNCHANGED <<bindings, edges, stops>>
  PROVE  JoinedInv'
<1> SUFFICES ASSUME stops = 0
             PROVE  /\ \A t \in Binding!Topics : Joined(Done(t))'
                    /\ Topped'
                    /\ \A q \in Binders : CallInv(q)'
  BY DEF JoinedInv
<1>1. /\ at'[p] \in Work /\ at'[p].step = "related" /\ at'[p].event = e
      /\ \A q \in Binders \ {p} : at'[q] = at[q]
  BY BindIs
<1>2. at'[p] # Binding!Idle
  BY <1>1 DEF Binding!Idle
<1>3. \A q \in Binders \ {p} : at[q] = Binding!Idle /\ at'[q] = Binding!Idle
  BY <1>1, <1>2, OthersIdle
<1>4. \A t : Binding!OnTopic(t)' = Binding!OnTopic(t) /\ e \notin Binding!OnTopic(t)
  BY DEF Binding!OnTopic, Binding!Bound
<1>5. \A x : ~Binding!Working(x) /\ (Binding!Working(x)' => x = e)
  BY <1>1, <1>3, WorkingIs
<1>6. \A t : Done(t)' = Done(t)
  BY <1>4, <1>5 DEF Done
<1>7. ASSUME NEW t \in Binding!Topics PROVE Joined(Done(t))'
  BY <1>6 DEF JoinedInv, Joined, Linked
<1>8. Topped'
  BY <1>4 DEF JoinedInv, Topped
<1>9. ASSUME NEW q \in Binders PROVE CallInv(q)'
  <2>1. CASE q = p
    BY <1>1, <1>4, <2>1 DEF CallInv
  <2>2. CASE q # p
    BY <1>3, <2>2 DEF CallInv
  <2>3. QED
    BY <2>1, <2>2
<1>10. QED
  BY <1>7, <1>8, <1>9

\* A call goes on.
LEMMA JoinedGoesOn ==
  ASSUME JoinedInv, Lone, Lone', NEW p \in Binders, \A q \in Binders \ {p} : at'[q] = at[q],
         at[p] # Binding!Idle, at'[p] # Binding!Idle, at'[p].event = at[p].event,
         stops' = stops, bindings' = bindings, DOMAIN edges \subseteq DOMAIN edges',
         stops = 0 => CallInv(p)'
  PROVE  JoinedInv'
<1>1. \A q \in Binders \ {p} : at[q] = Binding!Idle /\ at'[q] = Binding!Idle
  BY OthersIdle
<1>2. ASSUME stops = 0 PROVE Topped' /\ \A t \in Binding!Topics : Joined(Done(t))'
  BY <1>1, <1>2, GoesOn
<1>3. ASSUME stops = 0, NEW q \in Binders PROVE CallInv(q)'
  <2>1. CASE q = p
    BY <1>3, <2>1
  <2>2. CASE q # p
    BY <1>1, <2>2 DEF CallInv
  <2>3. QED
    BY <2>1, <2>2
<1>4. QED
  BY <1>2, <1>3 DEF JoinedInv

LEMMA ReadRelatedJoins ==
  ASSUME BindTypes, JoinedInv, Lone, Lone', NEW p \in Binders, Binding!ReadRelated(p) PROVE JoinedInv'
<1>1. stops' = stops /\ bindings' = bindings /\ edges' = edges
  BY DEF Binding!ReadRelated
<1>2. /\ at[p] \in Work /\ at[p].step = "related"
      /\ at'[p] \in Work /\ at'[p].step = "cluster" /\ at'[p].event = at[p].event
      /\ at'[p].topics = at[p].topics /\ at'[p].related = Binding!RelatedTo(Binding!Topic(p), at[p].event)
      /\ \A q \in Binders \ {p} : at'[q] = at[q]
  BY ReadRelatedIs
<1>3. at[p] # Binding!Idle /\ at'[p] # Binding!Idle /\ Binding!Topic(p) \in Binding!Topics
  BY <1>2, WorkIs DEF Binding!Idle, Binding!Topic
<1>4. ASSUME stops = 0 PROVE CallInv(p)'
  <2>0. \A q \in Binders \ {p} : at[q] = Binding!Idle /\ at'[q] = Binding!Idle
    BY <1>2, <1>3, OthersIdle
  <2>1. /\ \A t : Binding!OnTopic(t)' = Binding!OnTopic(t) /\ Done(t)' = Done(t)
        /\ \A t : Reaches(at[p].event, Done(t)) => Reaches(at[p].event, Done(t))'
    BY <1>1, <1>2, <1>3, <1>4, <2>0, GoesOn
  <2>2. \A t \in Binding!Topics : at[p].event \in Binding!OnTopic(t) => Reaches(at[p].event, Done(t))
    BY <1>2, <1>3, <1>4 DEF JoinedInv, CallInv, ToWrite
  <2>3. Binding!Topic(p)' = Binding!Topic(p)
    BY <1>2 DEF Binding!Topic
  <2>4. Reaches(at[p].event, Done(Binding!Topic(p))) \/ HasRead(p)'
    <3>1. CASE at[p].event \in Binding!OnTopic(Binding!Topic(p))
      BY <1>3, <2>2, <3>1
    <3>2. CASE Binding!OnTopic(Binding!Topic(p)) = {}
      BY <3>2 DEF Reaches, Done
    <3>3. CASE at[p].event \notin Binding!OnTopic(Binding!Topic(p)) /\ Binding!OnTopic(Binding!Topic(p)) # {}
      <4>1. PICK m \in Binding!OnTopic(Binding!Topic(p)) : \A x \in Binding!OnTopic(Binding!Topic(p)) : x <= m
        BY <1>3, <1>4, <3>3 DEF JoinedInv, Topped
      <4>2. Binding!OnTopic(Binding!Topic(p)) \in SUBSET Binding!Event /\ at'[p].related \subseteq Binding!OnTopic(Binding!Topic(p))
        BY <1>2, RelatedIs
      <4>3. m \in Binding!Newest(RelatedLimit, Binding!OnTopic(Binding!Topic(p)))
        BY <4>1, <4>2, NewestHas, Constants
      <4>4. m # at[p].event
        BY <3>3, <4>1
      <4>5. m \in at'[p].related
        BY <1>2, <4>3, <4>4 DEF Binding!RelatedTo
      <4>6. m \in Done(Binding!Topic(p))
        BY <2>0, <4>1, <4>4, WorkingIs DEF Done
      <4>7. QED
        BY <2>1, <2>3, <4>1, <4>2, <4>5, <4>6 DEF HasRead
    <3>4. QED
      BY <3>1, <3>2, <3>3
  <2>5. Reaches(at[p].event, Done(Binding!Topic(p))) => (Reaches(at[p].event, Done(Binding!Topic(p))))'
    BY <1>1, <1>2, <2>1, <2>3 DEF Reaches, Linked
  <2>6. \A t \in Binding!Topics : at'[p].event \in Binding!OnTopic(t)' => (Reaches(at[p].event, Done(t)))'
    BY <1>1, <1>2, <2>1, <2>2 DEF Reaches, Linked
  <2>7. QED
    BY <2>4, <2>5, <2>6 DEF CallInv
<1>5. QED
  BY <1>1, <1>2, <1>3, <1>4, JoinedGoesOn

\* The cluster is read and written.
LEMMA ClusterJoins ==
  ASSUME BindTypes, JoinedInv, Lone, Lone', NEW p \in Binders, Binding!ReadCluster(p) \/ Binding!WriteCluster(p)
  PROVE  JoinedInv'
<1>1. stops' = stops /\ bindings' = bindings /\ edges' = edges
  BY DEF Binding!ReadCluster, Binding!WriteCluster
<1>2. /\ at[p].step \in {"cluster", "fuse"}
      /\ at'[p].step \in {"fuse", "binding"} /\ at'[p].event = at[p].event
      /\ at'[p].topics = at[p].topics /\ at'[p].related = at[p].related
      /\ \A q \in Binders \ {p} : at'[q] = at[q]
  BY ReadClusterIs, WriteClusterIs
<1>3. at[p] # Binding!Idle /\ at'[p] # Binding!Idle
  BY <1>2 DEF Binding!Idle
<1>4. ASSUME stops = 0 PROVE CallInv(p)'
  <2>0. \A q \in Binders \ {p} : at[q] = Binding!Idle /\ at'[q] = Binding!Idle
    BY <1>2, <1>3, OthersIdle
  <2>1. \A t : Binding!OnTopic(t)' = Binding!OnTopic(t) /\ Done(t)' = Done(t)
    BY <1>1, <1>2, <1>3, <1>4, <2>0, GoesOn
  <2>2. Binding!Topic(p)' = Binding!Topic(p)
    BY <1>2 DEF Binding!Topic
  <2>3. CallInv(p)
    BY <1>4 DEF JoinedInv
  <2>4. \A t \in Binding!Topics : at'[p].event \in Binding!OnTopic(t)' => (Reaches(at[p].event, Done(t)))'
    BY <1>1, <1>2, <1>3, <2>1, <2>3 DEF CallInv, ToWrite, Reaches, Linked
  <2>5. Reaches(at[p].event, Done(Binding!Topic(p))) \/ HasRead(p)
    BY <1>2, <1>3, <2>3 DEF CallInv
  <2>6. HasRead(p) => HasRead(p)'
    BY <1>2, <2>1, <2>2 DEF HasRead
  <2>7. Reaches(at[p].event, Done(Binding!Topic(p))) => (Reaches(at[p].event, Done(Binding!Topic(p))))'
    BY <1>1, <1>2, <2>1, <2>2 DEF Reaches, Linked
  <2>8. QED
    BY <2>4, <2>5, <2>6, <2>7 DEF CallInv
<1>5. QED
  BY <1>1, <1>2, <1>3, <1>4, JoinedGoesOn

LEMMA InsertJoins ==
  ASSUME BindTypes, JoinedInv, Lone, Lone', NEW p \in Binders, Binding!InsertBinding(p) PROVE JoinedInv'
<1> SUFFICES ASSUME stops = 0
             PROVE  /\ \A t \in Binding!Topics : Joined(Done(t))'
                    /\ Topped'
                    /\ \A q \in Binders : CallInv(q)'
  BY DEF Binding!InsertBinding, JoinedInv
<1>1. edges' = edges
  BY DEF Binding!InsertBinding
<1>2. /\ at[p] \in Work /\ at[p].step = "binding"
      /\ at'[p].step = "link" /\ at'[p].event = at[p].event
      /\ at'[p].topics = at[p].topics /\ at'[p].todo = Binding!LinksOf(p)
      /\ \A t : Binding!OnTopic(t)' = IF t = Binding!Topic(p) THEN Binding!OnTopic(t) \cup {at[p].event} ELSE Binding!OnTopic(t)
      /\ \A q \in Binders \ {p} : at'[q] = at[q]
  BY InsertBindingIs
<1>3. /\ at[p] # Binding!Idle /\ at'[p] # Binding!Idle /\ Binding!Topic(p) \in Binding!Topics
      /\ at[p].event \in Binding!Event /\ at[p].related \in SUBSET Binding!Event
  BY <1>2, WorkIs DEF Binding!Idle, Binding!Topic, Work
<1>4. \A q \in Binders \ {p} : at[q] = Binding!Idle /\ at'[q] = Binding!Idle
  BY <1>2, <1>3, OthersIdle
<1>5. \A x : (Binding!Working(x) <=> x = at[p].event) /\ (Binding!Working(x)' <=> x = at[p].event)
  BY <1>2, <1>3, <1>4, WorkingIs
<1>6. \A t : Done(t)' = Done(t)
  <2>1. \A t : Done(t) = Binding!OnTopic(t) \ {at[p].event}
    BY <1>5 DEF Done
  <2>2. \A t : Done(t)' = Binding!OnTopic(t)' \ {at[p].event}
    BY <1>5 DEF Done
  <2>3. QED
    BY <1>2, <2>1, <2>2
<1>7. ASSUME NEW t \in Binding!Topics PROVE Joined(Done(t))'
  BY <1>1, <1>6 DEF JoinedInv, Joined, Linked
<1>8. Topped'
  <2> SUFFICES ASSUME NEW t \in Binding!Topics
               PROVE  Binding!OnTopic(t)' = {} \/ \E m \in Binding!OnTopic(t)' : \A x \in Binding!OnTopic(t)' : x <= m
    BY DEF Topped
  <2>1. CASE t # Binding!Topic(p)
    BY <1>2, <2>1 DEF JoinedInv, Topped
  <2>2. CASE t = Binding!Topic(p)
    <3>1. Binding!OnTopic(t)' = Binding!OnTopic(t) \cup {at[p].event}
      BY <1>2, <2>2
    <3>2. Binding!OnTopic(t) \subseteq Nat /\ at[p].event \in Nat
      BY <1>3, RelatedIs DEF Binding!Event
    <3>3. CASE Binding!OnTopic(t) = {}
      <4>1. at[p].event <= at[p].event
        BY <3>2
      <4>2. QED
        BY <3>1, <3>3, <4>1
    <3>4. CASE Binding!OnTopic(t) # {}
      <4>1. PICK m \in Binding!OnTopic(t) : \A x \in Binding!OnTopic(t) : x <= m
        BY <3>4 DEF JoinedInv, Topped
      <4>2. CASE at[p].event <= m
        BY <3>1, <4>1, <4>2
      <4>3. CASE ~(at[p].event <= m)
        <5>1. \A x \in Binding!OnTopic(t) : x <= at[p].event
          BY <3>2, <4>1, <4>3
        <5>2. at[p].event <= at[p].event
          BY <3>2
        <5>3. QED
          BY <3>1, <5>1, <5>2
      <4>4. QED
        BY <4>2, <4>3
    <3>5. QED
      BY <3>3, <3>4
  <2>3. QED
    BY <2>1, <2>2
<1>9. Binding!Topic(p)' = Binding!Topic(p)
  BY <1>2 DEF Binding!Topic
<1>10. CallInv(p)'
  <2>1. CallInv(p)
    BY DEF JoinedInv
  <2>2. ASSUME NEW t \in Binding!Topics, t # Binding!Topic(p), at'[p].event \in Binding!OnTopic(t)'
        PROVE  (Reaches(at[p].event, Done(t)))'
    BY <1>1, <1>2, <1>3, <1>6, <2>1, <2>2 DEF CallInv, ToWrite, Reaches, Linked
  <2>3. (Reaches(at[p].event, Done(Binding!Topic(p))) \/ ToWrite(p, Binding!Topic(p)))'
    <3>1. CASE Reaches(at[p].event, Done(Binding!Topic(p)))
      BY <1>1, <1>2, <1>6, <1>9, <3>1 DEF Reaches, Linked
    <3>2. CASE HasRead(p)
      <4>1. PICK m \in at[p].related : m \in Done(Binding!Topic(p)) /\ \A x \in at[p].related : x <= m
        BY <3>2 DEF HasRead
      <4>2. m \in Binding!Newest(SameLimit, at[p].related)
        BY <1>3, <4>1, NewestHas, Constants
      <4>3. PICK l : l = [edge |-> <<"SAME_TOPIC_AS", at[p].event, m>>, ev |-> {at[p].event, m}]
        OBVIOUS
      <4>4. l \in Binding!LinksTo(p, "SAME_TOPIC_AS", SameLimit)
        BY <4>2, <4>3 DEF Binding!LinksTo
      <4>5. l \in at'[p].todo /\ l.edge = <<"SAME_TOPIC_AS", at'[p].event, m>>
        BY <1>2, <4>3, <4>4, LinksTyped
      <4>6. PICK t : t = Binding!Topic(p)
        OBVIOUS
      <4>7. t = Binding!Topic(p)' /\ m \in Done(t)'
        BY <1>6, <1>9, <4>1, <4>6
      <4>8. l \in at'[p].todo /\ l.edge = <<"SAME_TOPIC_AS", at'[p].event, m>>
        BY <4>5
      <4>9. at'[p].step = "link"
        BY <1>2
      <4>10. (ToWrite(p, t))'
        BY <4>7, <4>8, <4>9 DEF ToWrite
      <4>11. QED
        BY <4>7, <4>10 DEF ToWrite
    <3>3. QED
      BY <1>2, <1>3, <2>1, <3>1, <3>2 DEF CallInv
  <2>4. QED
    BY <1>2, <1>9, <2>2, <2>3 DEF CallInv
<1>11. ASSUME NEW q \in Binders PROVE CallInv(q)'
  <2>1. CASE q = p
    BY <1>10, <2>1
  <2>2. CASE q # p
    BY <1>4, <2>2 DEF CallInv
  <2>3. QED
    BY <2>1, <2>2
<1>12. QED
  BY <1>7, <1>8, <1>11

LEMMA LinkJoins ==
  ASSUME BindTypes, JoinedInv, Lone, Lone', NEW p \in Binders, Binding!LinkOne(p) PROVE JoinedInv'
<1>1. stops' = stops /\ bindings' = bindings
  BY DEF Binding!LinkOne
<1>2. /\ at[p] \in Work /\ at[p].step = "link"
      /\ at'[p].step = "link" /\ at'[p].event = at[p].event /\ at'[p].topics = at[p].topics
      /\ \A q \in Binders \ {p} : at'[q] = at[q]
      /\ DOMAIN edges \subseteq DOMAIN edges'
  BY LinkOneIs
<1>3. PICK l \in at[p].todo : at'[p].todo = at[p].todo \ {l} /\ l.edge \in DOMAIN edges'
  BY LinkOneIs
<1>4. at[p] # Binding!Idle /\ at'[p] # Binding!Idle
  BY <1>2 DEF Binding!Idle
<1>5. ASSUME stops = 0 PROVE CallInv(p)'
  <2>0. \A q \in Binders \ {p} : at[q] = Binding!Idle /\ at'[q] = Binding!Idle
    BY <1>2, <1>4, OthersIdle
  <2>1. /\ \A t : Binding!OnTopic(t)' = Binding!OnTopic(t) /\ Done(t)' = Done(t)
        /\ \A t : Reaches(at[p].event, Done(t)) => Reaches(at[p].event, Done(t))'
    BY <1>1, <1>2, <1>4, <1>5, <2>0, GoesOn
  <2>2. Binding!Topic(p)' = Binding!Topic(p)
    BY <1>2 DEF Binding!Topic
  <2>3. ASSUME NEW t \in Binding!Topics, at[p].event \in Binding!OnTopic(t)
        PROVE  (Reaches(at[p].event, Done(t)) \/ ToWrite(p, t))'
    <3>0. Reaches(at[p].event, Done(t)) \/ ToWrite(p, t)
      BY <1>4, <1>5, <2>3 DEF JoinedInv, CallInv
    <3>1. CASE Reaches(at[p].event, Done(t))
      BY <1>2, <2>1, <3>1 DEF Reaches, Linked
    <3>2. CASE ToWrite(p, t)
      <4>1. PICK o \in Done(t), m \in at[p].todo : m.edge = <<"SAME_TOPIC_AS", at[p].event, o>>
        BY <3>2 DEF ToWrite
      <4>2. CASE m = l
        <5>1. Linked(at[p].event, o)'
          BY <1>2, <1>3, <4>1, <4>2 DEF Linked
        <5>2. QED
          BY <2>1, <4>1, <5>1 DEF Reaches
      <4>3. CASE m # l
        <5>1. m \in at'[p].todo
          BY <1>3, <4>3
        <5>2. ToWrite(p, t)'
          BY <1>2, <2>1, <2>2, <3>2, <4>1, <5>1 DEF ToWrite
        <5>3. QED
          BY <5>2
      <4>4. QED
        BY <4>2, <4>3
    <3>3. QED
      BY <3>0, <3>1, <3>2
  <2>4. QED
    BY <1>2, <2>1, <2>3 DEF CallInv
<1>6. QED
  BY <1>1, <1>2, <1>4, <1>5, JoinedGoesOn

\* The event is done for: it joins what is bound to each of its topics.
LEMMA NextJoins ==
  ASSUME BindTypes, JoinedInv, Lone, Lone', NEW p \in Binders, Binding!NextTopic(p) PROVE JoinedInv'
<1>1. stops' = stops /\ bindings' = bindings /\ edges' = edges
  BY DEF Binding!NextTopic
<1>2. /\ at[p] \in Work /\ at[p].step = "link" /\ at[p].todo = {}
      /\ \A q \in Binders \ {p} : at'[q] = at[q]
  BY NextTopicIs
<1>3. at[p] # Binding!Idle
  BY <1>2 DEF Binding!Idle
<1>4. \A q \in Binders \ {p} : at[q] = Binding!Idle /\ at'[q] = Binding!Idle
  BY <1>2, <1>3, OthersIdle
<1>5. stops = 0 => \A t \in Binding!Topics : at[p].event \in Binding!OnTopic(t) => Reaches(at[p].event, Done(t))
  BY <1>2, <1>3 DEF JoinedInv, CallInv, ToWrite
<1>6. CASE at'[p].step = "related" /\ at'[p].event = at[p].event
  <2>1. at'[p] # Binding!Idle
    BY <1>6 DEF Binding!Idle
  <2>2. ASSUME stops = 0 PROVE CallInv(p)'
    <3>1. \A t : Binding!OnTopic(t)' = Binding!OnTopic(t) /\ Done(t)' = Done(t)
      BY <1>1, <1>2, <1>3, <1>4, <1>6, <2>1, <2>2, GoesOn
    <3>2. \A t \in Binding!Topics : at'[p].event \in Binding!OnTopic(t)' => (Reaches(at[p].event, Done(t)))'
      BY <1>1, <1>5, <1>6, <2>2, <3>1 DEF Reaches, Linked
    <3>3. QED
      BY <1>6, <3>2 DEF CallInv
  <2>3. QED
    BY <1>1, <1>2, <1>3, <1>6, <2>1, <2>2, JoinedGoesOn
<1>7. CASE at'[p] = Binding!Idle
  <2> SUFFICES ASSUME stops = 0
               PROVE  /\ \A t \in Binding!Topics : Joined(Done(t))'
                      /\ Topped'
                      /\ \A q \in Binders : CallInv(q)'
    BY <1>1 DEF JoinedInv
  <2>1. \A x : (Binding!Working(x) <=> x = at[p].event) /\ ~Binding!Working(x)'
    BY <1>3, <1>4, <1>7, WorkingIs
  <2>2. \A t : Binding!OnTopic(t)' = Binding!OnTopic(t)
    BY <1>1 DEF Binding!OnTopic
  <2>3. ASSUME NEW t \in Binding!Topics PROVE Joined(Done(t))'
    <3>1. PICK done : done = Done(t)
      OBVIOUS
    <3>2. Joined(done)
      BY <3>1 DEF JoinedInv
    <3>3. CASE at[p].event \in Binding!OnTopic(t)
      <4>1. Done(t)' = done \cup {at[p].event}
        BY <2>1, <2>2, <3>1, <3>3 DEF Done
      <4>2. Joined(done \cup {at[p].event})
        BY <1>5, <3>1, <3>2, <3>3, JoinedMore
      <4>3. QED
        BY <1>1, <4>1, <4>2 DEF Joined, Linked
    <3>4. CASE at[p].event \notin Binding!OnTopic(t)
      <4>1. Done(t)' = done
        BY <2>1, <2>2, <3>1, <3>4 DEF Done
      <4>2. QED
        BY <1>1, <3>2, <4>1 DEF Joined, Linked
    <3>5. QED
      BY <3>3, <3>4
  <2>4. Topped'
    BY <2>2 DEF JoinedInv, Topped
  <2>5. \A q \in Binders : CallInv(q)'
    BY <1>4, <1>7 DEF CallInv
  <2>6. QED
    BY <2>3, <2>4, <2>5
<1>8. QED
  BY <1>6, <1>7, NextTopicIs

LEMMA JoinedNext ==
  ASSUME BindTypes, JoinedInv, Lone, Lone', [Binding!Next]_(Binding!vars) PROVE JoinedInv'
<1>1. ASSUME NEW p \in Binders, Binding!Record(p) PROVE JoinedInv'
  <2>1. /\ at[p] = Binding!Idle /\ Binding!Bind(p, raw + 1) /\ UNCHANGED <<bindings, edges, stops>>
        /\ raw + 1 \in Binding!Event
    BY <1>1, Constants DEF Binding!Record, BindTypes, Binding!Event
  <2>2. ~Binding!Bound(raw + 1)
    BY DEF BindTypes, BoundInv, Binding!Bound
  <2>3. QED
    BY <2>1, <2>2, JoinedBegins
<1>2. ASSUME NEW p \in Binders, NEW e \in Binding!Event, Binding!Backfill(p, e) PROVE JoinedInv'
  BY <1>2, JoinedBegins DEF Binding!Backfill
<1>3. ASSUME NEW p \in Binders, Binding!Stop(p) PROVE JoinedInv'
  BY <1>3, StopIs, Constants DEF BindTypes, JoinedInv
<1>4. CASE UNCHANGED Binding!vars
  <2>1. bindings' = bindings /\ edges' = edges /\ at' = at /\ stops' = stops
    BY <1>4 DEF Binding!vars
  <2>2. \A t : Binding!OnTopic(t)' = Binding!OnTopic(t)
    BY <2>1 DEF Binding!OnTopic
  <2>3. \A e : Binding!Working(e)' <=> Binding!Working(e)
    BY <2>1 DEF Binding!Working
  <2>4. \A t : Done(t)' = Done(t)
    BY <2>2, <2>3 DEF Done
  <2>5. \A a, b : Linked(a, b)' <=> Linked(a, b)
    BY <2>1 DEF Linked
  <2> SUFFICES ASSUME stops = 0
               PROVE  /\ \A t \in Binding!Topics : Joined(Done(t))'
                      /\ Topped'
                      /\ \A q \in Binders : CallInv(q)'
    BY <2>1 DEF JoinedInv
  <2>6. ASSUME NEW t \in Binding!Topics PROVE Joined(Done(t))'
    BY <2>4, <2>5 DEF JoinedInv, Joined
  <2>7. Topped'
    BY <2>2 DEF JoinedInv, Topped
  <2>8. ASSUME NEW q \in Binders PROVE CallInv(q)'
    <3>1. CallInv(q)
      BY DEF JoinedInv
    <3>2. \A e, t : (Reaches(e, Done(t)))' <=> Reaches(e, Done(t))
      BY <2>4, <2>5 DEF Reaches
    <3>3. \A t : ToWrite(q, t)' <=> ToWrite(q, t)
      BY <2>1, <2>4 DEF ToWrite, Binding!Topic
    <3>4. PICK t : t = Binding!Topic(q)
      OBVIOUS
    <3>5. t = Binding!Topic(q)'
      BY <2>1, <3>4 DEF Binding!Topic
    <3>6. HasRead(q)' <=> HasRead(q)
      BY <2>1, <2>4, <3>4, <3>5 DEF HasRead
    <3>7. QED
      BY <2>1, <2>2, <3>1, <3>2, <3>3, <3>4, <3>5, <3>6 DEF CallInv
  <2>9. QED
    BY <2>6, <2>7, <2>8
<1>5. QED
  BY <1>1, <1>2, <1>3, <1>4, ReadRelatedJoins, ClusterJoins, InsertJoins, LinkJoins, NextJoins DEF Binding!Next

LEMMA JoinedHolds == JoinedInv => Binding!TopicIsConnected
  BY DEF JoinedInv, Binding!TopicIsConnected, Joined, Linked, Done

LEMMA LoneInit == Binding!Init => ClusterInv /\ JoinedInv
<1> SUFFICES ASSUME Binding!Init PROVE ClusterInv /\ JoinedInv
  OBVIOUS
<1>1. bindings = {} /\ \A p \in Binders : at[p] = Binding!Idle
  BY DEF Binding!Init
<1>2. ClusterInv
  BY <1>1 DEF ClusterInv, Binding!ClusterHoldsItsBindings, Binding!Idle
<1>3. \A t : Binding!OnTopic(t) = {} /\ Done(t) = {}
  BY <1>1 DEF Binding!OnTopic, Done
<1>4. JoinedInv
  BY <1>1, <1>3 DEF JoinedInv, Joined, Topped, CallInv
<1>5. QED
  BY <1>2, <1>4

-----------------------------------------------------------------------------
(* What runs side by side.                                                   *)

\* The four share no state: a behaviour of all is one of each, the steps of the others apart.
THEOREM Composition == DerivationSpec => Spec /\ Edges!Spec /\ Binding!Spec /\ Turn!Spec
<1>1. Installed => Init /\ Edges!Init /\ Binding!Init /\ Turn!Init
  BY DEF Installed
<1>2. [SideBySide]_all =>
        [Next]_vars /\ [Edges!Next]_(Edges!vars) /\ [Binding!Next]_(Binding!vars) /\ [Turn!Next]_(Turn!vars)
  <2> SUFFICES ASSUME [SideBySide]_all
               PROVE  /\ [Next]_vars /\ [Edges!Next]_(Edges!vars)
                      /\ [Binding!Next]_(Binding!vars) /\ [Turn!Next]_(Turn!vars)
    OBVIOUS
  <2> USE DEF edgeVars, Edges!vars, bindingVars, Binding!vars, turnVars, Turn!vars
  <2>1. CASE UNCHANGED <<vars, edgeVars, bindingVars, turnVars>>
    BY <2>1
  <2>2. CASE Next /\ UNCHANGED <<edgeVars, bindingVars, turnVars>>
    BY <2>2
  <2>3. CASE Edges!Next /\ UNCHANGED <<vars, bindingVars, turnVars>>
    BY <2>3
  <2>4. CASE Binding!Next /\ UNCHANGED <<vars, edgeVars, turnVars>>
    BY <2>4
  <2>5. CASE Turn!Next /\ UNCHANGED <<vars, edgeVars, bindingVars>>
    BY <2>5
  <2>6. SideBySide \/ UNCHANGED <<vars, edgeVars, bindingVars, turnVars>>
    BY DEF all
  <2> HIDE DEF edgeVars, bindingVars, turnVars, Edges!vars, Binding!vars, Turn!vars
  <2>7. QED
    BY <2>1, <2>2, <2>3, <2>4, <2>5, <2>6
       DEF SideBySide, ProspectiveStep, EdgesStep, TwiceStep, StoppingStep, TogetherStep, TurnStep
<1>3. QED
  BY <1>1, <1>2, PTL DEF DerivationSpec, Spec, Edges!Spec, Binding!Spec, Turn!Spec

\* Where one process binds all the events, no other is ever in the middle of one, and
\* what one process keeps is kept.
LoneInv == component = "stopping" => Lone /\ ClusterInv /\ JoinedInv

LEMMA LoneNext ==
  ASSUME BindTypes, LoneInv, [Binding!Next]_(Binding!vars), [SideBySide]_all PROVE LoneInv'
<1> SUFFICES ASSUME component' = "stopping" PROVE Lone' /\ ClusterInv' /\ JoinedInv'
  BY DEF LoneInv
<1>1. component = "stopping"
  BY DEF all, SideBySide, Runs, ProspectiveStep, EdgesStep, TwiceStep, StoppingStep, TogetherStep, TurnStep
<1>2. Lone /\ ClusterInv /\ JoinedInv
  BY <1>1 DEF LoneInv
<1>3. Alone \/ UNCHANGED at
  BY <1>1 DEF all, bindingVars, SideBySide, Runs, ProspectiveStep, EdgesStep, TwiceStep, StoppingStep,
              TogetherStep, TurnStep
<1>4. Lone'
  BY <1>2, <1>3 DEF Lone, Alone
<1>5. QED
  BY <1>2, <1>4, ClusterNext, JoinedNext

\* The memory graph follows its sources, for any number of events, episodes, frames,
\* processes and topics: after every transaction an edge is what its supports add up to and
\* a second rebuild changes none (MemoryEdgeSupportStore); wherever one process stops what
\* it bound is fused.  While no call is cut short, what one process bound hangs together,
\* and however many fuse into a cluster the edge to its topic loses no evidence (bindEvent,
\* fuseCluster).
THEOREM GraphFollows == DerivationSpec => []GraphFollowsItsSources
<1>1. Binding!Init => BindTypes /\ EvidenceInv
  BY BindInit DEF Binding!Init, EvidenceInv
<1>2. Binding!Init => LoneInv
  BY LoneInit DEF Binding!Init, LoneInv, Lone
<1>3. BindTypes /\ EvidenceInv /\ [Binding!Next]_(Binding!vars) => BindTypes' /\ EvidenceInv'
  BY EvidenceNext
<1>4. BindTypes /\ LoneInv /\ [Binding!Next]_(Binding!vars) /\ [SideBySide]_all => LoneInv'
  BY LoneNext
<1>5. Edges!EdgeIsReduced /\ Edges!FrameKeepsItsEvents /\ Edges!CleanIsProjected /\ Edges!RebuildTwice
        /\ EvidenceInv /\ LoneInv => GraphFollowsItsSources
  BY EvidenceHolds, JoinedHolds DEF GraphFollowsItsSources, LoneInv, ClusterInv
<1>6. DerivationSpec => [][SideBySide]_all
  BY DEF DerivationSpec
<1>7. QED
  BY <1>1, <1>2, <1>3, <1>4, <1>5, <1>6, Composition, EdgesFollow, PTL DEF Binding!Spec

\* A turn's name is an identity, for any number of writers, names and texts, calls,
\* deaths and faults: what it recorded was said in one submission, who is told that it is
\* recorded finds all of it, and a sequence joins no two turns (rememberTurnWithResult).
THEOREM NamedTurns == DerivationSpec => []TurnIsOne
<1>1. Turn!OneTurn /\ Turn!AnsweredIsRecorded /\ Turn!SeqIsOneTurn => TurnIsOne
  BY DEF TurnIsOne
<1>2. QED
  BY <1>1, Composition, TurnsAreOne, PTL

\* What is due rests on a user's word, whatever else is derived beside it.
THEOREM ConsentedBeside == DerivationSpec => []DueIsConsented
  BY Composition, DueConsented, PTL

\* Every variable keeps its type: a call draws one sequence at most, and a sequence has
\* one message of each side.
THEOREM DerivationTypes == DerivationSpec => []TypesOK
<1>1. Turn!Init => TurnInv /\ CountInv
  BY TurnInit, CountInit
<1>2. TurnInv /\ CountInv /\ [Turn!Next]_(Turn!vars) => TurnInv' /\ CountInv'
  BY TurnNext, CountNext
<1>3. TypeOK /\ Edges!TypeOK /\ Binding!TypeOK /\ TurnInv /\ CountInv => TypesOK
  BY TurnTyped DEF TypesOK
<1>4. QED
  BY <1>1, <1>2, <1>3, Composition, ProspectiveTypes, EdgesFollow, EvidenceKeptThere, PTL DEF Turn!Spec
=============================================================================
