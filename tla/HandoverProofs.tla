---------------------------- MODULE HandoverProofs ----------------------------
(***************************************************************************)
(* What is handed over in a file arrives, and once, for any number of      *)
(* lines, jobs and processes.                                              *)
(*                                                                         *)
(*  - The import of a file: what a checkpoint lets a run skip is in the    *)
(*    store, and of all that look for a line one creates it.               *)
(*  - The import of a transcript: what a run still has to do is what it    *)
(*    has not marked, and an event stands for one line of the window.      *)
(*  - The remember queue: a turn is in a line of one file or in hand until *)
(*    it is recorded, and while the timeout has not gone by who drains is  *)
(*    alone, under the spawn lock.                                         *)
(***************************************************************************)
EXTENDS MCDelivery, SequenceTheorems, FiniteSetTheorems, WellFoundedInduction, TLAPS

(***************************************************************************)
(* A component's cardinalities are those of FiniteSets.                    *)
(***************************************************************************)

LEMMA ImportCount == \A S : Import!Cardinality(S) = Cardinality(S)
  BY Zenon DEF Import!Cardinality, Cardinality

LEMMA SourceCount == \A S : Source!Cardinality(S) = Cardinality(S)
  BY Zenon DEF Source!Cardinality, Cardinality

LEMMA SourceFinite == \A S : Source!IsFiniteSet(S) <=> IsFiniteSet(S)
  BY Zenon DEF Source!IsFiniteSet, IsFiniteSet

LEMMA QueueCount == \A S : Queue!Cardinality(S) = Cardinality(S)
  BY Zenon DEF Queue!Cardinality, Cardinality

-----------------------------------------------------------------------------
(* The import of a file of lines.                                           *)

\* How often t is among the first n lines.
Met(lines, n, t) == Cardinality({i \in 1..n : lines[i] = t})

\* The lines up to n that parse are in the store, or were passed over.
Imported(lines, n) ==
  \A i \in 1..n : lines[i] # Malformed =>
    event[Import!IdentityOf(lines, i)] = "settled" \/ Import!IdentityOf(lines, i) \in passed

InStore == {"look", "append", "assemble", "mark", "answer"}

\* A run has met what is in the lines it read, and the lines it left behind are imported.
RunInv(p) ==
  /\ run[p].pc = "idle" => run[p] = Import!Idle
  /\ run[p].at <= Len(file)
  /\ \A t \in Texts : run[p].seen[t] = Met(file, run[p].at, t)
  /\ Imported(file, run[p].last)
  /\ run[p].pc = "line" => run[p].last = run[p].at /\ run[p].done <= run[p].at
  /\ run[p].pc \in InStore =>
       run[p].last = run[p].at - 1 /\ run[p].done < run[p].at /\ file[run[p].at] \in Texts
  /\ run[p].pc \in InStore \ {"look"} => key[Import!Current(p)] # "none"
  /\ run[p].pc \in {"mark", "answer"} => event[Import!Current(p)] = "settled"

\* Those who will say that they created the event.
Holds(p, id) == run[p].pc \in {"assemble", "mark", "answer"} /\ run[p].fresh /\ Import!Current(p) = id

ClaimInv(id) ==
  /\ created[id] <= 1
  /\ event[id] = "none" => created[id] = 0
  /\ \A p \in Importers : Holds(p, id) =>
       event[id] # "none" /\ created[id] = 0 /\ \A q \in Importers : Holds(q, id) => q = p

CheckpointType ==
  checkpoint # Import!NoCheckpoint =>
    /\ checkpoint = [line |-> checkpoint.line, prefix |-> checkpoint.prefix]
    /\ checkpoint.line \in 0..MaxLines /\ checkpoint.prefix \in Seq(Import!Line)
    /\ Len(checkpoint.prefix) = checkpoint.line

ImportTypes ==
  /\ file \in Seq(Import!Line) /\ Len(file) <= MaxLines
  /\ key \in [Import!Identity -> {"none", "reserved", "failed", "committed"}]
  /\ event \in [Import!Identity -> {"none", "raw", "settled"}]
  /\ created \in [Import!Identity -> Nat]
  /\ run \in [Importers -> Import!RunRecord]
  /\ passed \subseteq Import!Identity /\ faults \in 0..MaxFaults
  /\ CheckpointType

StoreInv == /\ \A id \in Import!Identity : event[id] # "none" => key[id] # "none"
            /\ \A id \in Import!Identity : ClaimInv(id)
            /\ Import!CommittedIsSettled

ImportInv == ImportTypes /\ StoreInv /\ Import!CheckpointIsTrue /\ \A p \in Importers : RunInv(p)

-----------------------------------------------------------------------------
(* Counting lines.                                                           *)

LEMMA MetNone == \A lines, t : Met(lines, 0, t) = 0
<1> SUFFICES ASSUME NEW lines, NEW t PROVE Met(lines, 0, t) = 0
  OBVIOUS
<1>1. {i \in 1..0 : lines[i] = t} = {}
  OBVIOUS
<1>2. QED
  BY <1>1, FS_EmptySet DEF Met

LEMMA MetNext ==
  ASSUME NEW lines, NEW n \in Nat, NEW t
  PROVE  /\ Met(lines, n, t) \in 0..n
         /\ Met(lines, n + 1, t) = IF lines[n + 1] = t THEN Met(lines, n, t) + 1 ELSE Met(lines, n, t)
<1> DEFINE S == {i \in 1..n : lines[i] = t}
           T == {i \in 1..(n + 1) : lines[i] = t}
<1>1. IsFiniteSet(1..n) /\ Cardinality(1..n) = n
  BY FS_Interval
<1>2. S \in SUBSET (1..n)
  OBVIOUS
<1>3. IsFiniteSet(S) /\ Cardinality(S) <= n
  BY <1>1, <1>2, FS_Subset
<1>4. Cardinality(S) \in 0..n
  BY <1>3, FS_CardinalityType
<1>5. n + 1 \notin S
  OBVIOUS
<1>6. IF lines[n + 1] = t THEN T = S \cup {n + 1} ELSE T = S
  <2>1. 1..(n + 1) = 1..n \cup {n + 1}
    OBVIOUS
  <2>2. QED
    BY <2>1
<1>7. Cardinality(S \cup {n + 1}) = Cardinality(S) + 1
  BY <1>3, <1>5, FS_AddElement
<1>8. Met(lines, n, t) = Cardinality(S) /\ Met(lines, n + 1, t) = Cardinality(T)
  BY DEF Met
<1> HIDE DEF S, T
<1>9. QED
  BY <1>4, <1>6, <1>7, <1>8

\* Equal lines are counted alike.
LEMMA MetSame ==
  ASSUME NEW lines, NEW others, NEW n \in Nat, \A i \in 1..n : others[i] = lines[i], NEW t
  PROVE  Met(others, n, t) = Met(lines, n, t)
<1>1. {i \in 1..n : others[i] = t} = {i \in 1..n : lines[i] = t}
  OBVIOUS
<1>2. QED
  BY <1>1 DEF Met

LEMMA PrefixIs ==
  ASSUME NEW lines \in Seq(Import!Line), NEW n \in 0..Len(lines)
  PROVE  /\ SubSeq(lines, 1, n) \in Seq(Import!Line) /\ Len(SubSeq(lines, 1, n)) = n
         /\ \A i \in 1..n : SubSeq(lines, 1, n)[i] = lines[i]
  OBVIOUS

\* What is counted in a prefix is what was met.
LEMMA OccurrencesAreMet ==
  ASSUME NEW lines \in Seq(Import!Line), NEW n \in 0..Len(lines), NEW t
  PROVE  Import!Occurrences(SubSeq(lines, 1, n), t) = Met(lines, n, t)
<1>1. Len(SubSeq(lines, 1, n)) = n /\ \A i \in 1..n : SubSeq(lines, 1, n)[i] = lines[i]
  BY PrefixIs
<1>2. {i \in 1..Len(SubSeq(lines, 1, n)) : SubSeq(lines, 1, n)[i] = t} = {i \in 1..n : lines[i] = t}
  BY <1>1
<1>3. QED
  BY <1>2, ImportCount DEF Import!Occurrences, Met

LEMMA IdentityIs ==
  ASSUME NEW lines \in Seq(Import!Line), NEW i \in 1..Len(lines)
  PROVE  Import!IdentityOf(lines, i) = <<lines[i], Met(lines, i, lines[i])>>
<1>1. Import!Occurrences(SubSeq(lines, 1, i), lines[i]) = Met(lines, i, lines[i])
  BY OccurrencesAreMet
<1>2. QED
  BY <1>1 DEF Import!IdentityOf

\* The identity of a line that parses is one.
LEMMA IdentityTyped ==
  ASSUME NEW lines \in Seq(Import!Line), Len(lines) <= MaxLines, NEW i \in 1..Len(lines), lines[i] \in Texts
  PROVE  <<lines[i], Met(lines, i, lines[i])>> \in Import!Identity
<1>1. i - 1 \in Nat /\ (i - 1) + 1 = i /\ i <= MaxLines /\ MaxLines \in Nat
  BY Importing DEF Import!ImportAssumption
<1>2. /\ Met(lines, i - 1, lines[i]) \in 0..(i - 1)
      /\ Met(lines, (i - 1) + 1, lines[i]) = Met(lines, i - 1, lines[i]) + 1
  BY <1>1, MetNext
<1>3. Met(lines, i, lines[i]) = Met(lines, i - 1, lines[i]) + 1
  BY <1>1, <1>2
<1>4. Met(lines, i, lines[i]) \in 1..MaxLines
  BY <1>1, <1>2, <1>3
<1>5. QED
  BY <1>4 DEF Import!Identity

\* A file that is another's beginning has the identities of its lines.
LEMMA SameIdentities ==
  ASSUME NEW lines \in Seq(Import!Line), NEW others \in Seq(Import!Line), NEW n \in Nat,
         n <= Len(lines), n <= Len(others), \A i \in 1..n : others[i] = lines[i],
         NEW i \in 1..n
  PROVE  Import!IdentityOf(others, i) = Import!IdentityOf(lines, i)
<1>1. i \in 1..Len(lines) /\ i \in 1..Len(others) /\ i \in Nat /\ \A j \in 1..i : others[j] = lines[j]
  OBVIOUS
<1>2. others[i] = lines[i]
  OBVIOUS
<1>3. Met(others, i, lines[i]) = Met(lines, i, lines[i])
  BY <1>1, MetSame
<1>4. QED
  BY <1>1, <1>2, <1>3, IdentityIs

-----------------------------------------------------------------------------
(* What every step keeps.                                                    *)

\* Turns stay where they are and keys stay known; lines passed over stay so.
Grows ==
  /\ \A id \in Import!Identity : event[id] = "settled" => event'[id] = "settled"
  /\ \A id \in Import!Identity : key[id] # "none" => key'[id] # "none"
  /\ passed \subseteq passed'

\* The file is read, or written on.
ReadOn == /\ file' \in Seq(Import!Line) /\ Len(file) <= Len(file')
          /\ \A i \in 1..Len(file) : file'[i] = file[i]

LEMMA ImportedGrows ==
  ASSUME Grows, NEW lines \in Seq(Import!Line), NEW others \in Seq(Import!Line), NEW n \in Nat,
         n <= Len(lines), n <= Len(others), Len(lines) <= MaxLines,
         \A i \in 1..n : others[i] = lines[i], Imported(lines, n), Malformed \notin Texts,
         NEW i \in 1..n, others[i] # Malformed
  PROVE  event'[Import!IdentityOf(others, i)] = "settled" \/ Import!IdentityOf(others, i) \in passed'
<1>1. Import!IdentityOf(others, i) = Import!IdentityOf(lines, i)
  BY SameIdentities
<1>2. i \in 1..Len(lines) /\ lines[i] \in Import!Line /\ lines[i] # Malformed
  OBVIOUS
<1>3. lines[i] \in Texts
  BY <1>2 DEF Import!Line
<1>4. Import!IdentityOf(lines, i) \in Import!Identity
  BY <1>2, <1>3, IdentityIs, IdentityTyped
<1>5. event[Import!IdentityOf(lines, i)] = "settled" \/ Import!IdentityOf(lines, i) \in passed
  BY <1>2 DEF Imported
<1>6. QED
  BY <1>1, <1>4, <1>5 DEF Grows

LEMMA CurrentIs ==
  ASSUME ImportInv, NEW p \in Importers, run[p].pc \in InStore
  PROVE  /\ run[p].at \in 1..Len(file) /\ file[run[p].at] \in Texts
         /\ Import!Current(p) = <<file[run[p].at], Met(file, run[p].at, file[run[p].at])>>
         /\ Import!Current(p) = Import!IdentityOf(file, run[p].at) /\ Import!Current(p) \in Import!Identity
<1>1. file \in Seq(Import!Line) /\ Len(file) <= MaxLines /\ run[p] \in Import!RunRecord
  BY DEF ImportInv, ImportTypes
<1>2. /\ run[p].at <= Len(file) /\ run[p].done < run[p].at /\ file[run[p].at] \in Texts
      /\ \A t \in Texts : run[p].seen[t] = Met(file, run[p].at, t)
  BY DEF ImportInv, RunInv
<1>3. run[p].at \in Nat /\ run[p].done \in Nat /\ Len(file) \in Nat
  BY <1>1 DEF Import!RunRecord
<1>4. run[p].at \in 1..Len(file)
  BY <1>2, <1>3
<1>5. Import!Current(p) = <<file[run[p].at], Met(file, run[p].at, file[run[p].at])>>
  BY <1>2 DEF Import!Current
<1>6. QED
  BY <1>1, <1>2, <1>4, <1>5, IdentityIs, IdentityTyped

\* A run that does not move is as it was.
LEMMA OthersRun ==
  ASSUME ImportInv, Grows, ReadOn, NEW p \in Importers, run'[p] = run[p]
  PROVE  RunInv(p)' /\ \A id : Holds(p, id)' <=> Holds(p, id)
<1> DEFINE r == run[p]
<1>1. file \in Seq(Import!Line) /\ Len(file) <= MaxLines /\ r \in Import!RunRecord /\ Len(file) \in Nat /\ Len(file') \in Nat
  BY DEF ImportInv, ImportTypes, ReadOn
<1>2. r.at \in Nat /\ r.last \in Nat /\ r.done \in Nat /\ r.at <= Len(file)
  BY <1>1 DEF Import!RunRecord, ImportInv, RunInv
<1>3. r.last <= Len(file)
  <2>1. RunInv(p) /\ r.pc \in {"idle", "line"} \cup InStore
    BY <1>1 DEF ImportInv, Import!RunRecord, InStore
  <2>2. QED
    BY <1>1, <1>2, <2>1 DEF RunInv, Import!Idle
<1>4. \A t \in Texts : r.seen[t] = Met(file', r.at, t)
  <2>1. \A i \in 1..r.at : file'[i] = file[i]
    BY <1>1, <1>2 DEF ReadOn
  <2> DEFINE n == r.at
  <2>2. \A t \in Texts : Met(file', n, t) = Met(file, n, t)
    <3>1. n \in Nat /\ \A i \in 1..n : file'[i] = file[i]
      BY <1>2, <2>1
    <3> HIDE DEF n
    <3>2. PICK lines, others : lines = file /\ others = file'
      OBVIOUS
    <3>3. \A t : Met(others, n, t) = Met(lines, n, t)
      BY <3>1, <3>2, MetSame
    <3>4. QED
      BY <3>2, <3>3
  <2>3. QED
    BY <2>2 DEF ImportInv, RunInv
<1>5. Imported(file, r.last)'
  <2>1. Imported(file, r.last) /\ Malformed \notin Texts
    BY Importing DEF ImportInv, RunInv, Import!ImportAssumption
  <2>2. \A i \in 1..r.last : file'[i] = file[i]
    BY <1>1, <1>2, <1>3 DEF ReadOn
  <2>3. \A i \in 1..r.last : file'[i] # Malformed =>
          event'[Import!IdentityOf(file', i)] = "settled" \/ Import!IdentityOf(file', i) \in passed'
    <3> SUFFICES ASSUME NEW i \in 1..r.last, file'[i] # Malformed
                 PROVE  event'[Import!IdentityOf(file', i)] = "settled" \/ Import!IdentityOf(file', i) \in passed'
      OBVIOUS
    <3> DEFINE n == r.last
    <3>1. /\ file \in Seq(Import!Line) /\ file' \in Seq(Import!Line) /\ Len(file) <= MaxLines
          /\ n \in Nat /\ n <= Len(file) /\ n <= Len(file') /\ Imported(file, n)
          /\ i \in 1..n /\ \A j \in 1..n : file'[j] = file[j]
      BY <1>1, <1>2, <1>3, <2>1, <2>2 DEF ReadOn
    <3> HIDE DEF n
    <3>2. QED
      BY <2>1, <3>1, ImportedGrows
  <2>4. QED
    BY <2>3 DEF Imported
<1>6. r.pc \in InStore => Import!Current(p)' = Import!Current(p) /\ Import!Current(p) \in Import!Identity /\ file'[r.at] = file[r.at]
  BY CurrentIs DEF ReadOn, Import!Current
<1>7. RunInv(p)'
  <2>1. RunInv(p) /\ run'[p] = r
    BY DEF ImportInv
  <2>2. r.at <= Len(file')
    BY <1>1, <1>2 DEF ReadOn
  <2>3. r.pc \in InStore \ {"look"} => key'[Import!Current(p)'] # "none"
    BY <1>6, <2>1 DEF RunInv, Grows
  <2>4. r.pc \in {"mark", "answer"} => event'[Import!Current(p)'] = "settled"
    BY <1>6, <2>1 DEF RunInv, Grows, InStore
  <2>5. r.pc \in InStore => file'[r.at] \in Texts
    BY <1>6, <2>1 DEF RunInv
  <2> QED
    BY <1>4, <1>5, <2>1, <2>2, <2>3, <2>4, <2>5 DEF RunInv
<1>8. \A id : Holds(p, id)' <=> Holds(p, id)
  BY <1>6 DEF Holds, InStore
<1>9. QED
  BY <1>7, <1>8

\* A run that is not in the store claims nothing.
LEMMA StoreStays ==
  ASSUME ImportInv, NEW p \in Importers, UNCHANGED <<event, created>>,
         \A id \in Import!Identity : key'[id] = key[id] \/ key'[id] \in {"reserved", "failed"},
         \A q \in Importers \ {p} : \A id : Holds(q, id)' <=> Holds(q, id),
         \A id : ~Holds(p, id)'
  PROVE  StoreInv'
<1>1. \A q \in Importers : \A id \in Import!Identity : Holds(q, id)' => Holds(q, id)
  OBVIOUS
<1>2. \A id \in Import!Identity : ClaimInv(id)'
  BY <1>1 DEF ImportInv, StoreInv, ClaimInv
<1>3. (\A id \in Import!Identity : event[id] # "none" => key[id] # "none")'
  BY DEF ImportInv, StoreInv
<1>4. Import!CommittedIsSettled'
  BY DEF ImportInv, StoreInv, Import!CommittedIsSettled
<1>5. QED
  BY <1>2, <1>3, <1>4 DEF StoreInv

LEMMA CheckpointStays ==
  ASSUME ImportInv, Grows, UNCHANGED checkpoint
  PROVE  CheckpointType' /\ Import!CheckpointIsTrue'
<1> DEFINE c == checkpoint
<1>1. CheckpointType' /\ Malformed \notin Texts
  BY Importing DEF ImportInv, ImportTypes, CheckpointType, Import!ImportAssumption
<1>2. ASSUME c # Import!NoCheckpoint, NEW i \in 1..c.line, c.prefix[i] # Malformed
      PROVE  event'[Import!IdentityOf(c.prefix, i)] = "settled" \/ Import!IdentityOf(c.prefix, i) \in passed'
  <2>1. /\ c.line \in Nat /\ c.line <= MaxLines /\ c.prefix \in Seq(Import!Line) /\ Len(c.prefix) = c.line
    BY <1>2, Importing DEF ImportInv, ImportTypes, CheckpointType, Import!ImportAssumption
  <2>2. Imported(c.prefix, c.line)
    BY <1>2 DEF ImportInv, Import!CheckpointIsTrue, Imported
  <2> HIDE DEF c
  <2>3. QED
    BY <1>1, <1>2, <2>1, <2>2, ImportedGrows
<1>3. QED
  BY <1>1, <1>2 DEF Import!CheckpointIsTrue

LEMMA CheckpointWritten ==
  ASSUME ImportInv, UNCHANGED file, NEW n \in 0..Len(file), Import!WriteCheckpoint(n), Imported(file, n)'
  PROVE  CheckpointType' /\ Import!CheckpointIsTrue'
<1>1. file \in Seq(Import!Line) /\ Len(file) <= MaxLines /\ Len(file) \in Nat /\ MaxLines \in Nat
  BY Importing DEF ImportInv, ImportTypes, Import!ImportAssumption
<1> DEFINE pre == SubSeq(file, 1, n)
<1>2. checkpoint' = [line |-> n, prefix |-> pre]
  BY DEF Import!WriteCheckpoint, Import!Prefix
<1>3. pre \in Seq(Import!Line) /\ Len(pre) = n /\ n \in Nat /\ n \in 0..MaxLines /\ \A i \in 1..n : pre[i] = file[i]
  BY <1>1, PrefixIs
<1> HIDE DEF pre
<1>4. \A i \in 1..n : Import!IdentityOf(pre, i) = Import!IdentityOf(file, i)
  BY <1>1, <1>3, SameIdentities
<1>5. CheckpointType'
  BY <1>2, <1>3 DEF CheckpointType
<1>6. checkpoint'.line = n /\ checkpoint'.prefix = pre
  BY <1>2
<1>7. Import!CheckpointIsTrue'
  BY <1>3, <1>4, <1>6 DEF Import!CheckpointIsTrue, Imported
<1>8. QED
  BY <1>5, <1>7

-----------------------------------------------------------------------------
(* The steps of a run.                                                       *)

\* One run moves.
LEMMA OneRuns ==
  ASSUME ImportInv, NEW p \in Importers, NEW new \in Import!RunRecord, run' = [run EXCEPT ![p] = new],
         UNCHANGED file, Grows, StoreInv', CheckpointType', Import!CheckpointIsTrue', RunInv(p)',
         key' \in [Import!Identity -> {"none", "reserved", "failed", "committed"}],
         event' \in [Import!Identity -> {"none", "raw", "settled"}], created' \in [Import!Identity -> Nat],
         passed' \subseteq Import!Identity, faults' \in 0..MaxFaults
  PROVE  ImportInv'
<1>1. run \in [Importers -> Import!RunRecord] /\ file \in Seq(Import!Line) /\ Len(file) <= MaxLines
  BY DEF ImportInv, ImportTypes
<1>2. ReadOn
  BY <1>1 DEF ReadOn
<1>3. ASSUME NEW q \in Importers PROVE RunInv(q)'
  <2>1. CASE q = p
    BY <2>1
  <2>2. CASE q # p
    BY <1>1, <1>2, <2>2, OthersRun
  <2>3. QED
    BY <2>1, <2>2
<1>4. ImportTypes'
  BY <1>1 DEF ImportTypes
<1>5. QED
  BY <1>3, <1>4 DEF ImportInv

\* What the others claim does not depend on the one that moves.
LEMMA OthersHold ==
  ASSUME ImportInv, NEW p \in Importers, UNCHANGED file, Grows, NEW new, run' = [run EXCEPT ![p] = new]
  PROVE  \A q \in Importers \ {p} : \A id : Holds(q, id)' <=> Holds(q, id)
<1>1. run \in [Importers -> Import!RunRecord] /\ file \in Seq(Import!Line)
  BY DEF ImportInv, ImportTypes
<1>2. ReadOn
  BY <1>1 DEF ReadOn
<1>3. ASSUME NEW q \in Importers \ {p} PROVE \A id : Holds(q, id)' <=> Holds(q, id)
  <2>1. run'[q] = run[q]
    BY <1>1
  <2>2. QED
    BY <1>2, <2>1, OthersRun
<1>4. QED
  BY <1>3

LEMMA IdleRun ==
  ASSUME NEW p, run'[p] = Import!Idle, file' \in Seq(Import!Line)
  PROVE  RunInv(p)'
<1>1. \A t \in Texts : Met(file', 0, t) = 0
  BY MetNone
<1>2. Len(file') \in Nat
  OBVIOUS
<1>3. Imported(file, 0)'
  BY DEF Imported
<1>4. QED
  BY <1>1, <1>2, <1>3 DEF RunInv, Import!Idle, InStore

LEMMA IdleTyped == Import!Idle \in Import!RunRecord
  BY Importing DEF Import!Idle, Import!RunRecord, Import!ImportAssumption

LEMMA FailLineStep ==
  ASSUME ImportInv, NEW p \in Importers, NEW r \in Import!RunRecord, Import!FailLine(p, r), UNCHANGED <<file, event>>,
         r.at \in 1..Len(file), r.last = r.at - 1, r.done <= r.at,
         \A t \in Texts : r.seen[t] = Met(file, r.at, t), Imported(file, r.last)
  PROVE  /\ run' = [run EXCEPT ![p] = run'[p]] /\ run'[p] \in Import!RunRecord
         /\ run'[p].pc \in {"idle", "line"} /\ RunInv(p)'
         /\ passed \subseteq passed' /\ passed' \subseteq Import!Identity
         /\ CheckpointType' /\ Import!CheckpointIsTrue'
<1>1. /\ file \in Seq(Import!Line) /\ Len(file) <= MaxLines /\ Len(file) \in Nat /\ MaxErrors \in Nat
      /\ run \in [Importers -> Import!RunRecord] /\ passed \subseteq Import!Identity /\ Malformed \notin Texts
  BY Importing DEF ImportInv, ImportTypes, Import!ImportAssumption
<1> DEFINE mine == <<file[r.at], r.seen[file[r.at]]>>
           on == r.skip /\ r.errors < MaxErrors
           new == [r EXCEPT !.pc = "line", !.last = r.at, !.errors = r.errors + 1]
<1>2. IF on THEN /\ run' = [run EXCEPT ![p] = new]
                 /\ passed' = IF file[r.at] = Malformed THEN passed ELSE passed \cup {mine}
      ELSE run' = [run EXCEPT ![p] = Import!Idle] /\ passed' = passed
  BY DEF Import!FailLine
<1>3. file[r.at] = Malformed \/ (file[r.at] \in Texts /\ mine = Import!IdentityOf(file, r.at) /\ mine \in Import!Identity)
  <2>1. file[r.at] \in Import!Line
    BY <1>1
  <2>2. QED
    BY <1>1, <2>1, IdentityIs, IdentityTyped DEF Import!Line
<1>4. passed \subseteq passed' /\ passed' \subseteq Import!Identity
  BY <1>1, <1>2, <1>3
<1>5. Imported(file, r.last)'
  BY <1>4 DEF Imported
<1>6. CheckpointType' /\ Import!CheckpointIsTrue'
  <2>1. Import!WriteCheckpoint(r.last) /\ r.last \in 0..Len(file)
    BY <1>1 DEF Import!FailLine
  <2>2. QED
    BY <1>5, <2>1, CheckpointWritten
<1>7. CASE on
  <2>1. /\ new \in Import!RunRecord /\ new.pc = "line" /\ new.at = r.at /\ new.last = r.at
        /\ new.seen = r.seen /\ new.done = r.done
    <3>1. r.at \in 0..MaxLines /\ r.errors + 1 \in 0..MaxErrors
      BY <1>1, <1>7 DEF Import!RunRecord
    <3>2. QED
      BY <3>1 DEF Import!RunRecord
  <2> HIDE DEF new
  <2>2. run' = [run EXCEPT ![p] = new] /\ run'[p] = new
    BY <1>1, <1>2, <1>7
  <2>3. Imported(file, r.at)'
    <3> SUFFICES ASSUME NEW i \in 1..r.at, file[i] # Malformed
                 PROVE  event[Import!IdentityOf(file, i)] = "settled" \/ Import!IdentityOf(file, i) \in passed'
      BY DEF Imported
    <3>1. CASE i = r.at
      BY <1>2, <1>3, <1>7, <3>1
    <3>2. CASE i # r.at
      BY <1>1, <1>5, <3>2 DEF Imported
    <3>3. QED
      BY <3>1, <3>2
  <2>4. RunInv(p)'
    BY <1>1, <2>1, <2>2, <2>3 DEF RunInv, InStore
  <2>5. QED
    BY <1>4, <1>6, <2>1, <2>2, <2>4
<1>8. CASE ~on
  <2>1. run' = [run EXCEPT ![p] = Import!Idle] /\ run'[p] = Import!Idle
    BY <1>1, <1>2, <1>8
  <2>2. RunInv(p)'
    BY <1>1, <2>1, IdleRun
  <2>3. run' = [run EXCEPT ![p] = run'[p]] /\ Import!Idle.pc = "idle"
    BY <2>1 DEF Import!Idle
  <2>4. QED
    BY <1>4, <1>6, <2>1, <2>2, <2>3, IdleTyped
<1>9. QED
  BY <1>7, <1>8

LEMMA StartStep ==
  ASSUME ImportInv, NEW p \in Importers, NEW resume \in BOOLEAN, NEW skip \in BOOLEAN,
         Import!Start(p, resume, skip)
  PROVE  ImportInv'
<1>1. /\ file \in Seq(Import!Line) /\ Len(file) <= MaxLines /\ Len(file) \in Nat /\ MaxLines \in Nat
      /\ MaxErrors \in Nat /\ run \in [Importers -> Import!RunRecord]
  BY Importing DEF ImportInv, ImportTypes, Import!ImportAssumption
<1>0. PICK n : n = IF resume THEN checkpoint.line ELSE 0
  OBVIOUS
<1> DEFINE new == [Import!Idle EXCEPT !.pc = "line", !.at = n, !.last = n,
                               !.seen = Import!Counted(Import!Prefix(n)), !.skip = skip]
<1>2. /\ run' = [run EXCEPT ![p] = new] /\ UNCHANGED <<file, key, event, created, checkpoint, passed, faults>>
      /\ resume /\ checkpoint # Import!NoCheckpoint => Import!Accepts(checkpoint)
  BY <1>0 DEF Import!Start
<1>3. n \in 0..Len(file) /\ Imported(file, n)
  <2>1. CASE ~resume \/ checkpoint = Import!NoCheckpoint
    <3>1. n = 0
      BY <1>0, <2>1 DEF Import!NoCheckpoint
    <3>2. QED
      BY <1>1, <3>1 DEF Imported
  <2>2. CASE resume /\ checkpoint # Import!NoCheckpoint
    <3>1. /\ n = checkpoint.line /\ n \in Nat /\ n <= Len(file)
          /\ checkpoint.prefix = SubSeq(file, 1, n)
      BY <1>0, <1>1, <1>2, <2>2 DEF Import!Accepts, Import!Prefix, ImportInv, ImportTypes, CheckpointType
    <3>2. /\ checkpoint.prefix \in Seq(Import!Line) /\ Len(checkpoint.prefix) = n
          /\ \A i \in 1..n : checkpoint.prefix[i] = file[i]
      BY <1>1, <3>1, PrefixIs
    <3>3. Imported(checkpoint.prefix, n)
      BY <2>2, <3>1 DEF ImportInv, Import!CheckpointIsTrue, Imported
    <3> DEFINE pre == checkpoint.prefix
    <3>4. pre \in Seq(Import!Line) /\ n <= Len(pre) /\ \A i \in 1..n : pre[i] = file[i]
      BY <3>1, <3>2
    <3> HIDE DEF pre
    <3>5. \A i \in 1..n : Import!IdentityOf(pre, i) = Import!IdentityOf(file, i)
      BY <1>1, <3>1, <3>4, SameIdentities
    <3>6. QED
      BY <1>1, <3>1, <3>2, <3>3, <3>5 DEF Imported, pre
  <2>3. QED
    BY <2>1, <2>2
<1>4. \A t \in Texts : Import!Counted(Import!Prefix(n))[t] = Met(file, n, t) /\ Met(file, n, t) \in 0..MaxLines
  <2>1. \A t \in Texts : Import!Counted(Import!Prefix(n))[t] = Met(file, n, t)
    BY <1>1, <1>3, OccurrencesAreMet DEF Import!Counted, Import!Prefix
  <2>2. \A t \in Texts : Met(file, n, t) \in 0..n
    BY <1>3, MetNext
  <2>3. QED
    BY <1>1, <1>3, <2>1, <2>2
<1>5. Import!Counted(Import!Prefix(n)) \in [Texts -> 0..MaxLines]
  BY <1>4 DEF Import!Counted
<1>6. /\ new \in Import!RunRecord /\ new.pc = "line" /\ new.at = n /\ new.last = n /\ new.done = 0
      /\ new.seen = Import!Counted(Import!Prefix(n))
  <2>1. n \in 0..MaxLines /\ Import!Idle.done = 0
    BY <1>1, <1>3 DEF Import!Idle
  <2>2. new \in Import!RunRecord
    BY <1>5, <2>1, IdleTyped DEF Import!RunRecord
  <2>3. new.pc = "line" /\ new.at = n /\ new.last = n /\ new.done = Import!Idle.done /\ new.seen = Import!Counted(Import!Prefix(n))
    BY IdleTyped DEF Import!RunRecord
  <2>4. QED
    BY <2>1, <2>2, <2>3
<1> HIDE DEF new
<1>7. run'[p] = new
  BY <1>1, <1>2
<1>8. Imported(file, n)'
  BY <1>2, <1>3 DEF Imported
<1>9. RunInv(p)'
  BY <1>1, <1>2, <1>3, <1>4, <1>6, <1>7, <1>8 DEF RunInv, InStore
<1>10. Grows
  BY <1>2 DEF Grows
<1>11. StoreInv'
  BY <1>2, <1>6, <1>7, <1>10, OthersHold, StoreStays DEF Holds
<1>12. QED
  BY <1>2, <1>6, <1>9, <1>10, <1>11, CheckpointStays, OneRuns DEF ImportInv, ImportTypes

LEMMA StillImported ==
  ASSUME ImportInv, Grows, UNCHANGED file, NEW n \in 0..Len(file), Imported(file, n)
  PROVE  Imported(file, n)'
<1>1. file \in Seq(Import!Line) /\ Len(file) <= MaxLines /\ n \in Nat /\ n <= Len(file) /\ Malformed \notin Texts
  BY Importing DEF ImportInv, ImportTypes, Import!ImportAssumption
<1>2. \A i \in 1..n : file[i] # Malformed =>
        event'[Import!IdentityOf(file, i)] = "settled" \/ Import!IdentityOf(file, i) \in passed'
  BY <1>1, ImportedGrows
<1>3. QED
  BY <1>2 DEF Imported

LEMMA RunTypes ==
  ASSUME ImportInv, NEW p \in Importers
  PROVE  /\ run \in [Importers -> Import!RunRecord] /\ run[p] \in Import!RunRecord /\ RunInv(p)
         /\ file \in Seq(Import!Line) /\ Len(file) <= MaxLines /\ Len(file) \in Nat /\ MaxLines \in Nat
         /\ run[p].pc \in {"line"} \cup InStore => run[p].last \in 0..Len(file)
<1>1. /\ run \in [Importers -> Import!RunRecord] /\ run[p] \in Import!RunRecord /\ RunInv(p)
      /\ file \in Seq(Import!Line) /\ Len(file) <= MaxLines /\ Len(file) \in Nat /\ MaxLines \in Nat
  BY Importing DEF ImportInv, ImportTypes, Import!ImportAssumption
<1>2. run[p].at \in Nat /\ run[p].last \in Nat
  BY <1>1 DEF Import!RunRecord
<1>3. QED
  BY <1>1, <1>2 DEF RunInv

\* A run that stays at its line.
LEMMA StaysAt ==
  ASSUME ImportInv, NEW p \in Importers, run[p].pc \in InStore, Grows, UNCHANGED file,
         NEW new \in Import!RunRecord, run' = [run EXCEPT ![p] = new],
         new.at = run[p].at, new.seen = run[p].seen, new.last = run[p].last, new.done = run[p].done,
         new.pc \in InStore, new.pc # "look" => key'[Import!Current(p)] # "none",
         new.pc \in {"mark", "answer"} => event'[Import!Current(p)] = "settled"
  PROVE  RunInv(p)' /\ Import!Current(p)' = Import!Current(p)
<1>1. run'[p] = new
  BY RunTypes
<1>2. Import!Current(p)' = Import!Current(p)
  BY <1>1 DEF Import!Current
<1>3. Imported(file, run[p].last)'
  <2> DEFINE n == run[p].last
  <2>1. n \in 0..Len(file) /\ Imported(file, n)
    BY RunTypes DEF RunInv
  <2>2. PICK m \in 0..Len(file) : m = n /\ Imported(file, m)
    BY <2>1
  <2>3. Imported(file, m)'
    BY <2>2, StillImported
  <2>4. new.last = m
    BY <2>2
  <2>5. QED
    BY <1>1, <2>3, <2>4 DEF Imported
<1>4. QED
  BY <1>1, <1>2, <1>3, RunTypes DEF RunInv, InStore

LEMMA ReadLineStep ==
  ASSUME ImportInv, NEW p \in Importers, Import!ReadLine(p)
  PROVE  ImportInv'
<1>0. PICK r : r = [run[p] EXCEPT !.at = run[p].at + 1]
  OBVIOUS
<1> DEFINE t == file[r.at]
<1>1. /\ run[p].pc = "line" /\ run[p].at < Len(file)
      /\ \/ t = Malformed /\ Import!FailLine(p, r)
         \/ /\ t # Malformed
            /\ run' = [run EXCEPT ![p] = [r EXCEPT !.seen[t] = @ + 1, !.pc = "look"]]
            /\ UNCHANGED <<checkpoint, passed>>
      /\ UNCHANGED <<file, key, event, created, faults>>
  BY <1>0 DEF Import!ReadLine
<1>2. /\ run \in [Importers -> Import!RunRecord] /\ run[p] \in Import!RunRecord /\ RunInv(p) /\ Malformed \notin Texts
      /\ file \in Seq(Import!Line) /\ Len(file) <= MaxLines /\ Len(file) \in Nat /\ MaxLines \in Nat
  BY RunTypes, Importing DEF Import!ImportAssumption
<1>3. r \in Import!RunRecord /\ r.at = run[p].at + 1 /\ r.at \in 1..Len(file) /\ r.last = r.at - 1
      /\ r.done < r.at /\ r.seen = run[p].seen /\ r.last = run[p].last
  <2>1. /\ run[p].at + 1 \in 0..MaxLines /\ run[p].at \in Nat /\ run[p].done \in Nat
        /\ run[p].last = run[p].at /\ run[p].done <= run[p].at
    BY <1>1, <1>2 DEF Import!RunRecord, RunInv
  <2>2. r \in Import!RunRecord /\ r.at = run[p].at + 1 /\ r.last = run[p].last /\ r.done = run[p].done
        /\ r.seen = run[p].seen
    BY <1>0, <1>2, <2>1 DEF Import!RunRecord
  <2>3. QED
    BY <1>1, <1>2, <2>1, <2>2
<1>4. Imported(file, r.last)
  BY <1>2, <1>3 DEF RunInv
<1>5. \A u \in Texts : Met(file, r.at, u) = IF t = u THEN r.seen[u] + 1 ELSE r.seen[u]
  <2>1. \A u \in Texts : r.seen[u] = Met(file, run[p].at, u)
    BY <1>2, <1>3 DEF RunInv
  <2>2. run[p].at \in Nat
    BY <1>2 DEF Import!RunRecord
  <2>3. \A u \in Texts : Met(file, run[p].at + 1, u) =
          IF file[run[p].at + 1] = u THEN Met(file, run[p].at, u) + 1 ELSE Met(file, run[p].at, u)
    BY <2>2, MetNext
  <2>4. QED
    BY <1>3, <2>1, <2>3
<1>6. t \in Import!Line
  BY <1>2, <1>3
<1>7. ASSUME NEW u \in Texts PROVE Met(file, r.at, u) \in 0..MaxLines
  <2> DEFINE n == r.at
  <2>1. n \in Nat
    BY <1>3
  <2> HIDE DEF n
  <2>2. Met(file, n, u) \in 0..n
    BY <2>1, MetNext
  <2> USE DEF n
  <2>3. QED
    BY <1>2, <1>3, <2>2
<1>8. CASE t = Malformed
  <2>1. Import!FailLine(p, r)
    BY <1>1, <1>8
  <2>2. r.done <= r.at /\ \A u \in Texts : r.seen[u] = Met(file, r.at, u)
    <3>1. r.done <= r.at
      BY <1>3 DEF Import!RunRecord
    <3>2. QED
      BY <1>2, <1>5, <1>8, <3>1
  <2> DEFINE new == run'[p]
  <2>3. /\ run' = [run EXCEPT ![p] = new] /\ new \in Import!RunRecord
        /\ new.pc \in {"idle", "line"} /\ RunInv(p)'
        /\ passed \subseteq passed' /\ passed' \subseteq Import!Identity
        /\ CheckpointType' /\ Import!CheckpointIsTrue'
    BY <1>1, <1>3, <1>4, <2>1, <2>2, FailLineStep
  <2>4. Grows
    BY <1>1, <2>3 DEF Grows
  <2>5. \A id : ~Holds(p, id)'
    BY <2>3 DEF Holds
  <2> HIDE DEF new
  <2>6. StoreInv'
    BY <1>1, <2>3, <2>4, <2>5, OthersHold, StoreStays
  <2>7. QED
    BY <1>1, <2>3, <2>4, <2>6, OneRuns DEF ImportInv, ImportTypes
<1>9. CASE t # Malformed
  <2>1. t \in Texts
    BY <1>6, <1>9 DEF Import!Line
  <2> DEFINE seen == [r.seen EXCEPT ![t] = r.seen[t] + 1]
  <2>0. PICK new : new = [r EXCEPT !.seen = seen, !.pc = "look"]
    OBVIOUS
  <2>2. run' = [run EXCEPT ![p] = new] /\ UNCHANGED <<checkpoint, passed>>
    BY <1>1, <1>9, <2>0
  <2>3. \A u \in Texts : seen[u] = Met(file, r.at, u)
    BY <1>3, <1>5, <2>1 DEF Import!RunRecord
  <2>4. seen \in [Texts -> 0..MaxLines]
    <3>1. r.seen \in [Texts -> 0..MaxLines]
      BY <1>3 DEF Import!RunRecord
    <3>2. r.seen[t] + 1 \in 0..MaxLines
      BY <1>7, <2>1, <2>3, <3>1
    <3>3. QED
      BY <3>1, <3>2
  <2>5. new \in Import!RunRecord /\ new.pc = "look" /\ new.at = r.at /\ new.last = r.last /\ new.seen = seen
        /\ new.done = r.done
    <3> HIDE DEF seen
    <3> QED
      BY <1>3, <2>0, <2>4 DEF Import!RunRecord
  <2> HIDE DEF seen
  <2>6. run'[p] = new
    BY <1>2, <2>2
  <2>7. Grows
    BY <1>1, <2>2 DEF Grows
  <2>8. Imported(file, r.last)'
    <3>1. r.last \in 0..Len(file)
      BY <1>2, <1>3
    <3>2. QED
      BY <1>1, <1>4, <2>7, <3>1, StillImported
  <2>9. RunInv(p)'
    <3>1. file'[new.at] \in Texts /\ file' = file
      BY <1>1, <2>1, <2>5
    <3>2. Imported(file, new.last)'
      BY <2>5, <2>8
    <3>3. QED
      BY <1>2, <1>3, <2>3, <2>5, <2>6, <3>1, <3>2 DEF RunInv, InStore
  <2>10. \A id : ~Holds(p, id)'
    BY <2>5, <2>6 DEF Holds
  <2>11. StoreInv'
    BY <1>1, <2>2, <2>7, <2>10, OthersHold, StoreStays
  <2>12. QED
    BY <1>1, <2>2, <2>5, <2>7, <2>9, <2>11, CheckpointStays, OneRuns DEF ImportInv, ImportTypes
<1>10. QED
  BY <1>8, <1>9

LEMMA LineFinishStep ==
  ASSUME ImportInv, NEW p \in Importers, Import!Finish(p)
  PROVE  ImportInv'
<1>1. /\ run[p].pc = "line" /\ Import!WriteCheckpoint(run[p].last) /\ run' = [run EXCEPT ![p] = Import!Idle]
      /\ UNCHANGED <<file, key, event, created, passed, faults>>
  BY DEF Import!Finish
<1>2. Grows /\ run'[p] = Import!Idle /\ \A id : ~Holds(p, id)'
  BY <1>1, RunTypes DEF Grows, Holds, Import!Idle
<1>3. RunInv(p)' /\ StoreInv'
  BY <1>1, <1>2, RunTypes, IdleRun, OthersHold, StoreStays
<1>4. CheckpointType' /\ Import!CheckpointIsTrue'
  <2>1. PICK n \in 0..Len(file) : n = run[p].last
    BY <1>1, RunTypes
  <2>2. Imported(file, n)'
    BY <1>1, <1>2, <2>1, RunTypes, StillImported DEF RunInv
  <2>3. QED
    BY <1>1, <2>1, <2>2, CheckpointWritten
<1>5. QED
  BY <1>1, <1>2, <1>3, <1>4, IdleTyped, OneRuns DEF ImportInv, ImportTypes

LEMMA LineCrashStep ==
  ASSUME ImportInv, NEW p \in Importers, Import!Crash(p)
  PROVE  ImportInv'
<1>1. /\ run' = [run EXCEPT ![p] = Import!Idle] /\ faults' \in 0..MaxFaults
      /\ UNCHANGED <<file, key, event, created, checkpoint, passed>>
  BY Importing DEF Import!Crash, ImportInv, ImportTypes, Import!ImportAssumption
<1>2. Grows /\ run'[p] = Import!Idle /\ \A id : ~Holds(p, id)'
  BY <1>1, RunTypes DEF Grows, Holds, Import!Idle
<1>3. RunInv(p)' /\ StoreInv'
  BY <1>1, <1>2, RunTypes, IdleRun, OthersHold, StoreStays
<1>4. QED
  BY <1>1, <1>2, <1>3, IdleTyped, CheckpointStays, OneRuns DEF ImportInv, ImportTypes

LEMMA LookStep ==
  ASSUME ImportInv, NEW p \in Importers, Import!Look(p)
  PROVE  ImportInv'
<1>1. PICK id : id = Import!Current(p)
  OBVIOUS
<1>2. PICK new : new = [run[p] EXCEPT !.pc = IF event[id] = "none" THEN "append" ELSE "assemble",
                                      !.fresh = FALSE]
  OBVIOUS
<1>3. /\ run[p].pc = "look" /\ key' = [key EXCEPT ![id] = IF @ = "none" THEN "reserved" ELSE @]
      /\ run' = [run EXCEPT ![p] = new]
      /\ UNCHANGED <<file, event, created, checkpoint, passed, faults>>
  BY <1>1, <1>2 DEF Import!Look
<1>4. id \in Import!Identity /\ run[p].pc \in InStore
  BY <1>1, <1>3, CurrentIs DEF InStore
<1>5. /\ new \in Import!RunRecord /\ new.pc \in {"append", "assemble"} /\ new.fresh = FALSE
      /\ new.at = run[p].at /\ new.seen = run[p].seen /\ new.last = run[p].last /\ new.done = run[p].done
  BY <1>2, RunTypes DEF Import!RunRecord
<1>6. /\ key' \in [Import!Identity -> {"none", "reserved", "failed", "committed"}]
      /\ key'[id] # "none" /\ \A d \in Import!Identity : key'[d] = key[d] \/ key'[d] = "reserved"
  BY <1>3, <1>4 DEF ImportInv, ImportTypes
<1>7. Grows /\ run'[p] = new
  BY <1>3, <1>6, RunTypes DEF Grows
<1>8. RunInv(p)'
  BY <1>1, <1>3, <1>4, <1>5, <1>6, <1>7, StaysAt DEF InStore
<1>9. \A d : ~Holds(p, d)'
  BY <1>5, <1>7 DEF Holds
<1>10. StoreInv'
  BY <1>3, <1>6, <1>7, <1>9, OthersHold, StoreStays
<1>11. QED
  BY <1>3, <1>5, <1>6, <1>7, <1>8, <1>10, CheckpointStays, OneRuns DEF ImportInv, ImportTypes

LEMMA AppendRawStep ==
  ASSUME ImportInv, NEW p \in Importers, Import!AppendRaw(p)
  PROVE  ImportInv'
<1>1. PICK id : id = Import!Current(p)
  OBVIOUS
<1>2. PICK fresh \in BOOLEAN : fresh = Import!Appended(id)
  BY DEF Import!Appended
<1>3. PICK new : new = [run[p] EXCEPT !.pc = "assemble", !.fresh = fresh]
  OBVIOUS
<1>4. /\ run[p].pc = "append" /\ event' = [event EXCEPT ![id] = IF @ = "none" THEN "raw" ELSE @]
      /\ run' = [run EXCEPT ![p] = new]
      /\ UNCHANGED <<file, key, created, checkpoint, passed, faults>>
  BY <1>1, <1>2, <1>3 DEF Import!AppendRaw
<1>5. id \in Import!Identity /\ run[p].pc \in InStore /\ key[id] # "none"
  BY <1>1, <1>4, CurrentIs, RunTypes DEF InStore, RunInv
<1>6. /\ new \in Import!RunRecord /\ new.pc = "assemble" /\ new.fresh = fresh
      /\ new.at = run[p].at /\ new.seen = run[p].seen /\ new.last = run[p].last /\ new.done = run[p].done
  BY <1>3, RunTypes DEF Import!RunRecord
<1>7. /\ event' \in [Import!Identity -> {"none", "raw", "settled"}] /\ event'[id] # "none"
      /\ \A d \in Import!Identity : event'[d] = event[d] \/ (d = id /\ event[d] = "none" /\ event'[d] = "raw")
  BY <1>4, <1>5 DEF ImportInv, ImportTypes
<1>8. Grows /\ run'[p] = new
  BY <1>4, <1>7, RunTypes DEF Grows
<1>9. RunInv(p)' /\ Import!Current(p)' = id
  BY <1>1, <1>4, <1>5, <1>6, <1>8, StaysAt DEF InStore
<1>10. StoreInv'
  <2>1. \A q \in Importers \ {p} : \A d : Holds(q, d)' <=> Holds(q, d)
    BY <1>4, <1>8, OthersHold
  <2>2. \A d : Holds(p, d)' => d = id /\ event[id] = "none"
    BY <1>2, <1>6, <1>8, <1>9 DEF Holds, Import!Appended
  <2>3. \A d \in Import!Identity : ClaimInv(d)'
    <3> SUFFICES ASSUME NEW d \in Import!Identity PROVE ClaimInv(d)'
      OBVIOUS
    <3>1. ClaimInv(d)
      BY DEF ImportInv, StoreInv
    <3>2. ASSUME NEW q \in Importers, Holds(q, d)'
          PROVE  event'[d] # "none" /\ created[d] = 0 /\ \A o \in Importers : Holds(o, d)' => o = q
      BY <1>7, <2>1, <2>2, <3>1, <3>2 DEF ClaimInv
    <3>3. created'[d] <= 1 /\ (event'[d] = "none" => created'[d] = 0)
      BY <1>4, <1>7, <3>1 DEF ClaimInv
    <3>4. QED
      BY <1>4, <3>2, <3>3 DEF ClaimInv
  <2>4. (\A d \in Import!Identity : event[d] # "none" => key[d] # "none")'
    BY <1>4, <1>5, <1>7 DEF ImportInv, StoreInv
  <2>5. Import!CommittedIsSettled'
    BY <1>4, <1>7 DEF ImportInv, StoreInv, Import!CommittedIsSettled
  <2>6. QED
    BY <2>3, <2>4, <2>5 DEF StoreInv
<1>11. QED
  BY <1>4, <1>6, <1>7, <1>8, <1>9, <1>10, CheckpointStays, OneRuns DEF ImportInv, ImportTypes

LEMMA AssembleStep ==
  ASSUME ImportInv, NEW p \in Importers, Import!Assemble(p)
  PROVE  ImportInv'
<1>1. PICK id : id = Import!Current(p)
  OBVIOUS
<1>2. PICK new : new = [run[p] EXCEPT !.pc = "mark"]
  OBVIOUS
<1>3. /\ run[p].pc = "assemble" /\ event' = [event EXCEPT ![id] = "settled"]
      /\ run' = [run EXCEPT ![p] = new]
      /\ UNCHANGED <<file, key, created, checkpoint, passed, faults>>
  BY <1>1, <1>2 DEF Import!Assemble, Import!Assembled
<1>4. id \in Import!Identity /\ run[p].pc \in InStore /\ key[id] # "none"
  BY <1>1, <1>3, CurrentIs, RunTypes DEF InStore, RunInv
<1>5. /\ new \in Import!RunRecord /\ new.pc = "mark" /\ new.fresh = run[p].fresh
      /\ new.at = run[p].at /\ new.seen = run[p].seen /\ new.last = run[p].last /\ new.done = run[p].done
  BY <1>2, RunTypes DEF Import!RunRecord
<1>6. /\ event' \in [Import!Identity -> {"none", "raw", "settled"}] /\ event'[id] = "settled"
      /\ \A d \in Import!Identity \ {id} : event'[d] = event[d]
  BY <1>3, <1>4 DEF ImportInv, ImportTypes
<1>7. Grows /\ run'[p] = new
  BY <1>3, <1>4, <1>6, RunTypes DEF Grows
<1>8. RunInv(p)' /\ Import!Current(p)' = id
  BY <1>1, <1>3, <1>4, <1>5, <1>6, <1>7, StaysAt DEF InStore
<1>9. StoreInv'
  <2>1. \A q \in Importers : \A d : Holds(q, d)' <=> Holds(q, d)
    <3>1. \A q \in Importers \ {p} : \A d : Holds(q, d)' <=> Holds(q, d)
      BY <1>3, <1>7, OthersHold
    <3>2. \A d : Holds(p, d)' <=> Holds(p, d)
      BY <1>1, <1>3, <1>5, <1>7, <1>8 DEF Holds
    <3>3. QED
      BY <3>1, <3>2
  <2>2. \A d \in Import!Identity : ClaimInv(d)'
    BY <1>3, <1>6, <2>1 DEF ImportInv, StoreInv, ClaimInv
  <2>3. (\A d \in Import!Identity : event[d] # "none" => key[d] # "none")'
    BY <1>3, <1>4, <1>6 DEF ImportInv, StoreInv
  <2>4. Import!CommittedIsSettled'
    BY <1>3, <1>6 DEF ImportInv, StoreInv, Import!CommittedIsSettled
  <2>5. QED
    BY <2>2, <2>3, <2>4 DEF StoreInv
<1>10. QED
  BY <1>3, <1>5, <1>6, <1>7, <1>8, <1>9, CheckpointStays, OneRuns DEF ImportInv, ImportTypes

LEMMA MarkStep ==
  ASSUME ImportInv, NEW p \in Importers, Import!Mark(p)
  PROVE  ImportInv'
<1>1. PICK id : id = Import!Current(p)
  OBVIOUS
<1>2. PICK new : new = [run[p] EXCEPT !.pc = "answer"]
  OBVIOUS
<1>3. /\ run[p].pc = "mark" /\ key' = [key EXCEPT ![id] = "committed"]
      /\ run' = [run EXCEPT ![p] = new]
      /\ UNCHANGED <<file, event, created, checkpoint, passed, faults>>
  BY <1>1, <1>2 DEF Import!Mark
<1>4. id \in Import!Identity /\ run[p].pc \in InStore /\ event[id] = "settled"
  BY <1>1, <1>3, CurrentIs, RunTypes DEF InStore, RunInv
<1>5. /\ new \in Import!RunRecord /\ new.pc = "answer" /\ new.fresh = run[p].fresh
      /\ new.at = run[p].at /\ new.seen = run[p].seen /\ new.last = run[p].last /\ new.done = run[p].done
  BY <1>2, RunTypes DEF Import!RunRecord
<1>6. /\ key' \in [Import!Identity -> {"none", "reserved", "failed", "committed"}] /\ key'[id] = "committed"
      /\ \A d \in Import!Identity \ {id} : key'[d] = key[d]
  BY <1>3, <1>4 DEF ImportInv, ImportTypes
<1>7. Grows /\ run'[p] = new
  BY <1>3, <1>4, <1>6, RunTypes DEF Grows
<1>8. RunInv(p)' /\ Import!Current(p)' = id
  BY <1>1, <1>3, <1>4, <1>5, <1>6, <1>7, StaysAt DEF InStore
<1>9. StoreInv'
  <2>1. \A q \in Importers : \A d : Holds(q, d)' <=> Holds(q, d)
    <3>1. \A q \in Importers \ {p} : \A d : Holds(q, d)' <=> Holds(q, d)
      BY <1>3, <1>7, OthersHold
    <3>2. \A d : Holds(p, d)' <=> Holds(p, d)
      BY <1>1, <1>3, <1>5, <1>7, <1>8 DEF Holds
    <3>3. QED
      BY <3>1, <3>2
  <2>2. \A d \in Import!Identity : ClaimInv(d)'
    BY <1>3, <2>1 DEF ImportInv, StoreInv, ClaimInv
  <2>3. (\A d \in Import!Identity : event[d] # "none" => key[d] # "none")'
    BY <1>3, <1>6 DEF ImportInv, StoreInv
  <2>4. Import!CommittedIsSettled'
    BY <1>3, <1>4, <1>6 DEF ImportInv, StoreInv, Import!CommittedIsSettled
  <2>5. QED
    BY <2>2, <2>3, <2>4 DEF StoreInv
<1>10. QED
  BY <1>3, <1>5, <1>6, <1>7, <1>8, <1>9, CheckpointStays, OneRuns DEF ImportInv, ImportTypes

LEMMA LineAnswerStep ==
  ASSUME ImportInv, NEW p \in Importers, Import!Answer(p)
  PROVE  ImportInv'
<1>1. PICK id : id = Import!Current(p)
  OBVIOUS
<1>2. PICK at : at = run[p].at
  OBVIOUS
<1>3. PICK new : new = [run[p] EXCEPT !.pc = "line", !.last = at, !.done = run[p].done + 1]
  OBVIOUS
<1>4. /\ run[p].pc = "answer"
      /\ created' = [created EXCEPT ![id] = IF run[p].fresh THEN @ + 1 ELSE @]
      /\ run' = [run EXCEPT ![p] = new]
      /\ Import!WriteCheckpoint(at) \/ UNCHANGED checkpoint
      /\ UNCHANGED <<file, key, event, passed, faults>>
  BY <1>1, <1>2, <1>3 DEF Import!Answer
<1>5. /\ id \in Import!Identity /\ run[p].pc \in InStore /\ event[id] = "settled"
      /\ at \in 1..Len(file) /\ id = Import!IdentityOf(file, at)
  BY <1>1, <1>2, <1>4, CurrentIs, RunTypes DEF InStore, RunInv
<1>6. /\ new \in Import!RunRecord /\ new.pc = "line" /\ new.done <= at
      /\ new.at = at /\ new.seen = run[p].seen /\ new.last = at
  <2>1. run[p].done \in Nat /\ run[p].done < at /\ at \in Nat /\ at <= MaxLines
    BY <1>2, <1>5, RunTypes DEF RunInv, Import!RunRecord
  <2>2. run[p].done + 1 \in 0..MaxLines /\ at \in 0..MaxLines /\ run[p].done + 1 <= at
    BY <2>1, RunTypes
  <2>3. QED
    BY <1>2, <1>3, <2>2, RunTypes DEF Import!RunRecord
<1>7. Grows /\ run'[p] = new
  BY <1>4, RunTypes DEF Grows
<1>8. Imported(file, at)'
  <2>1. PICK n \in 0..Len(file) : n = run[p].last /\ n = at - 1
    BY <1>2, <1>5, RunTypes DEF RunInv
  <2>2. Imported(file, n)'
    BY <1>4, <1>7, <2>1, RunTypes, StillImported DEF RunInv
  <2>3. ASSUME NEW i \in 1..at PROVE i \in 1..n \/ i = at
    BY <1>5, <2>1, RunTypes
  <2>4. QED
    BY <1>4, <1>5, <2>2, <2>3 DEF Imported
<1>9. RunInv(p)'
  <2>1. \A t \in Texts : new.seen[t] = Met(file, at, t)
    BY <1>2, <1>6, RunTypes DEF RunInv
  <2>2. at <= Len(file)
    BY <1>5
  <2>3. QED
    BY <1>4, <1>6, <1>7, <1>8, <2>1, <2>2 DEF RunInv, InStore
<1>10. CheckpointType' /\ Import!CheckpointIsTrue'
  <2>1. CASE Import!WriteCheckpoint(at)
    <3>1. at \in 0..Len(file)
      BY <1>5
    <3>2. QED
      BY <1>4, <1>8, <2>1, <3>1, CheckpointWritten
  <2>2. CASE UNCHANGED checkpoint
    BY <1>7, <2>2, CheckpointStays
  <2>3. QED
    BY <1>4, <2>1, <2>2
<1>11. StoreInv' /\ created' \in [Import!Identity -> Nat]
  <2>1. \A q \in Importers \ {p} : \A d : Holds(q, d)' <=> Holds(q, d)
    BY <1>4, <1>7, OthersHold
  <2>2. \A d : ~Holds(p, d)'
    BY <1>6, <1>7 DEF Holds
  <2>3. created \in [Import!Identity -> Nat] /\ \A d \in Import!Identity : ClaimInv(d)
    BY DEF ImportInv, ImportTypes, StoreInv
  <2>4. \A d \in Import!Identity \ {id} : created'[d] = created[d]
    BY <1>4, <2>3
  <2>5. CASE run[p].fresh
    <3>1. Holds(p, id)
      BY <1>1, <1>4, <2>5 DEF Holds
    <3>2. created[id] = 0 /\ \A q \in Importers : Holds(q, id) => q = p
      BY <1>5, <2>3, <3>1 DEF ClaimInv
    <3>3. created' \in [Import!Identity -> Nat] /\ created'[id] = 1
      BY <1>4, <1>5, <2>3, <2>5, <3>2
    <3>4. \A q \in Importers : ~Holds(q, id)'
      BY <2>1, <2>2, <3>2
    <3>5. ClaimInv(id)'
      BY <1>4, <1>5, <3>3, <3>4 DEF ClaimInv
    <3>6. \A d \in Import!Identity \ {id} : ClaimInv(d)'
      BY <1>4, <2>1, <2>2, <2>3, <2>4 DEF ClaimInv
    <3>7. \A d \in Import!Identity : ClaimInv(d)'
      BY <3>5, <3>6
    <3>8. QED
      BY <1>4, <3>3, <3>7 DEF ImportInv, StoreInv, Import!CommittedIsSettled
  <2>6. CASE ~run[p].fresh
    <3>1. created' = created
      BY <1>4, <1>5, <2>3, <2>6
    <3>2. \A d \in Import!Identity : ClaimInv(d)'
      BY <1>4, <2>1, <2>2, <2>3, <3>1 DEF ClaimInv
    <3>3. QED
      BY <1>4, <2>3, <3>1, <3>2 DEF ImportInv, StoreInv, Import!CommittedIsSettled
  <2>7. QED
    BY <2>5, <2>6
<1>12. QED
  BY <1>4, <1>6, <1>7, <1>9, <1>10, <1>11, OneRuns DEF ImportInv, ImportTypes

LEMMA ThrowStep ==
  ASSUME ImportInv, NEW p \in Importers, Import!Throw(p)
  PROVE  ImportInv'
<1>1. PICK id : id = Import!Current(p)
  OBVIOUS
<1>2. PICK r : r = run[p]
  OBVIOUS
<1>3. /\ r.pc \in {"append", "assemble"} /\ faults' \in 0..MaxFaults /\ Import!FailLine(p, r)
      /\ key' = [key EXCEPT ![id] = "failed"] /\ UNCHANGED <<file, event, created>>
  BY <1>1, <1>2, Importing DEF Import!Throw, ImportInv, ImportTypes, Import!ImportAssumption
<1>4. /\ r \in Import!RunRecord /\ r.at \in 1..Len(file) /\ r.last = r.at - 1 /\ r.done <= r.at
      /\ (\A t \in Texts : r.seen[t] = Met(file, r.at, t)) /\ Imported(file, r.last) /\ id \in Import!Identity
  BY <1>1, <1>2, <1>3, CurrentIs, RunTypes DEF RunInv, InStore, Import!RunRecord
<1>5. PICK new : new = run'[p]
  OBVIOUS
<1>6. /\ run' = [run EXCEPT ![p] = new] /\ new \in Import!RunRecord
      /\ new.pc \in {"idle", "line"} /\ RunInv(p)'
      /\ passed \subseteq passed' /\ passed' \subseteq Import!Identity
      /\ CheckpointType' /\ Import!CheckpointIsTrue'
  BY <1>3, <1>4, <1>5, FailLineStep
<1>7. /\ key' \in [Import!Identity -> {"none", "reserved", "failed", "committed"}]
      /\ \A d \in Import!Identity : key'[d] = key[d] \/ key'[d] = "failed"
  BY <1>3, <1>4 DEF ImportInv, ImportTypes
<1>8. Grows /\ \A d : ~Holds(p, d)'
  BY <1>3, <1>5, <1>6, <1>7 DEF Grows, Holds
<1>9. StoreInv'
  BY <1>3, <1>6, <1>7, <1>8, OthersHold, StoreStays
<1>10. QED
  BY <1>3, <1>6, <1>7, <1>8, <1>9, OneRuns DEF ImportInv, ImportTypes

-----------------------------------------------------------------------------
(* The file.                                                                 *)

\* The file changes and nobody notices.
LEMMA FileStep ==
  ASSUME ImportInv, file' \in Seq(Import!Line), Len(file') <= MaxLines, faults' \in 0..MaxFaults,
         UNCHANGED <<key, event, created, checkpoint, run, passed>>,
         \A p \in Importers : RunInv(p)' /\ \A id : Holds(p, id)' <=> Holds(p, id)
  PROVE  ImportInv'
<1>1. Grows
  BY DEF Grows
<1>2. CheckpointType' /\ Import!CheckpointIsTrue'
  BY <1>1, CheckpointStays
<1>3. StoreInv'
  BY DEF ImportInv, StoreInv, ClaimInv, Import!CommittedIsSettled
<1>4. ImportTypes'
  BY <1>2 DEF ImportInv, ImportTypes
<1>5. QED
  BY <1>2, <1>3, <1>4 DEF ImportInv

LEMMA GrowStep ==
  ASSUME ImportInv, Import!Grow
  PROVE  ImportInv'
<1>1. PICK l \in Import!Line : file' = Append(file, l)
  BY DEF Import!Grow
<1>2. /\ file \in Seq(Import!Line) /\ Len(file) < MaxLines /\ MaxLines \in Nat /\ faults' \in 0..MaxFaults
      /\ UNCHANGED <<key, event, created, checkpoint, run, passed>>
  BY Importing DEF Import!Grow, ImportInv, ImportTypes, Import!ImportAssumption
<1>3. ReadOn /\ file' \in Seq(Import!Line) /\ Len(file') <= MaxLines
  BY <1>1, <1>2 DEF ReadOn
<1>4. Grows /\ \A p \in Importers : run'[p] = run[p]
  BY <1>2 DEF Grows
<1>5. QED
  BY <1>2, <1>3, <1>4, OthersRun, FileStep

LEMMA FileTyped ==
  ASSUME NEW f \in UNION {[1..n -> Import!Line] : n \in 1..MaxLines}
  PROVE  f \in Seq(Import!Line) /\ Len(f) <= MaxLines
<1>1. PICK n \in 1..MaxLines : f \in [1..n -> Import!Line]
  OBVIOUS
<1>2. n \in Nat /\ n <= MaxLines
  BY Importing DEF Import!ImportAssumption
<1>3. f \in Seq(Import!Line) /\ Len(f) = n
  BY <1>1, <1>2
<1>4. QED
  BY <1>2, <1>3

LEMMA ReplaceStep ==
  ASSUME ImportInv, Import!Replace
  PROVE  ImportInv'
<1>1. /\ file' \in Seq(Import!Line) /\ Len(file') <= MaxLines /\ faults' \in 0..MaxFaults
      /\ UNCHANGED <<key, event, created, checkpoint, run, passed>>
  BY FileTyped, Importing DEF Import!Replace, ImportInv, ImportTypes, Import!ImportAssumption
<1>2. \A p \in Importers : run'[p] = Import!Idle /\ run[p] = Import!Idle
  BY DEF Import!Replace, ImportInv, RunInv
<1>3. \A p \in Importers : RunInv(p)'
  BY <1>1, <1>2, IdleRun
<1>4. \A p \in Importers : \A id : ~Holds(p, id) /\ ~Holds(p, id)'
  <2>1. Import!Idle.pc = "idle"
    BY DEF Import!Idle
  <2>2. QED
    BY <1>2, <2>1 DEF Holds
<1>5. QED
  BY <1>1, <1>3, <1>4, FileStep

LEMMA ImportInit == Import!Init => ImportInv
<1> SUFFICES ASSUME Import!Init PROVE ImportInv
  OBVIOUS
<1>1. file \in Seq(Import!Line) /\ Len(file) <= MaxLines
  BY FileTyped DEF Import!Init
<1>2. ImportTypes
  BY <1>1, IdleTyped, Importing DEF Import!Init, ImportTypes, CheckpointType, Import!ImportAssumption
<1>3. StoreInv
  BY DEF Import!Init, StoreInv, ClaimInv, Import!CommittedIsSettled, Holds, Import!Idle
<1>4. Import!CheckpointIsTrue
  BY DEF Import!Init, Import!CheckpointIsTrue
<1>5. ASSUME NEW p \in Importers PROVE RunInv(p)
  <2>1. run[p] = Import!Idle
    BY DEF Import!Init
  <2>2. (\A t \in Texts : Met(file, 0, t) = 0) /\ Imported(file, 0) /\ Len(file) \in Nat
    BY <1>1, MetNone DEF Imported
  <2>3. QED
    BY <2>1, <2>2 DEF RunInv, Import!Idle, InStore
<1>6. QED
  BY <1>2, <1>3, <1>4, <1>5 DEF ImportInv

LEMMA ImportNext == ImportInv /\ [Import!Next]_(Import!vars) => ImportInv'
<1> SUFFICES ASSUME ImportInv, [Import!Next]_(Import!vars) PROVE ImportInv'
  OBVIOUS
<1>1. CASE UNCHANGED Import!vars
  <2>1. /\ UNCHANGED <<key, event, created, checkpoint, run, passed, faults>> /\ file' = file
        /\ file' \in Seq(Import!Line) /\ Len(file') <= MaxLines /\ faults' \in 0..MaxFaults
    BY <1>1 DEF Import!vars, ImportInv, ImportTypes
  <2>2. Grows /\ ReadOn
    BY <2>1 DEF Grows, ReadOn
  <2>3. QED
    BY <2>1, <2>2, OthersRun, FileStep
<1>2. ASSUME NEW p \in Importers,
             \/ Import!ReadLine(p) \/ Import!Finish(p) \/ Import!Look(p) \/ Import!AppendRaw(p)
             \/ Import!Assemble(p) \/ Import!Mark(p) \/ Import!Answer(p) \/ Import!Throw(p) \/ Import!Crash(p)
             \/ \E resume, skip \in BOOLEAN : Import!Start(p, resume, skip)
      PROVE  ImportInv'
  BY <1>2, StartStep, ReadLineStep, LineFinishStep, LookStep, AppendRawStep, AssembleStep, MarkStep,
     LineAnswerStep, ThrowStep, LineCrashStep
<1>3. QED
  BY <1>1, <1>2, GrowStep, ReplaceStep DEF Import!Next

\* A checkpoint lets a resumed run skip what is imported or was passed over, one answer
\* alone says "created", and a committed key is one of an assembled turn, whatever crashes,
\* fails, overlaps or is replaced (the import command, appendEpisodeMessageAsync).
THEOREM ImportHolds == Import!Spec => [](Import!CheckpointIsTrue /\ Import!CreatedOnce /\ Import!CommittedIsSettled)
<1>1. ImportInv => Import!CheckpointIsTrue /\ Import!CreatedOnce /\ Import!CommittedIsSettled
  BY DEF ImportInv, StoreInv, ClaimInv, Import!CreatedOnce
<1>2. QED
  BY <1>1, ImportInit, ImportNext, PTL DEF Import!Spec

\* Every variable of the import keeps its type.
THEOREM ImportTyped == Import!Spec => []Import!TypeOK
<1>1. ImportInv => Import!TypeOK
  <2> SUFFICES ASSUME ImportInv PROVE Import!TypeOK
    OBVIOUS
  <2>1. \A p \in Importers : run[p].last <= run[p].at /\ run[p].at <= Len(file)
    <3> SUFFICES ASSUME NEW p \in Importers PROVE run[p].last <= run[p].at /\ run[p].at <= Len(file)
      OBVIOUS
    <3>1. run[p] \in Import!RunRecord /\ RunInv(p)
      BY RunTypes
    <3>2. run[p].pc \in {"idle", "line"} \cup InStore /\ run[p].at \in Nat
      BY <3>1 DEF Import!RunRecord, InStore
    <3>3. QED
      BY <3>1, <3>2 DEF RunInv, Import!Idle
  <2>2. QED
    BY <2>1 DEF Import!TypeOK, ImportInv, ImportTypes, StoreInv, CheckpointType
<1>2. QED
  BY <1>1, ImportInit, ImportNext, PTL DEF Import!Spec

-----------------------------------------------------------------------------
(* The import of a transcript.                                              *)

ReadRecord == [pc : {"idle", "look", "append", "await", "ingest", "mark", "cursor", "offline", "seal"},
               reindex : BOOLEAN, window : SUBSET Messages, snap : Seq(Messages),
               pending : SUBSET Nat, todo : SUBSET Nat, waiting : SUBSET Nat]

AnchorAt(r, i) == <<Source!HashOf(r.snap, i), i, Source!Ordinal(r.snap, r.window, i)>>

\* The raw event of a record is in an episode, or was set aside.
Settles(r, i) == Source!EventsOf(AnchorAt(r, i)) \cap settled # {}

\* What a run has behind it: nothing is ingested before all is settled, and nothing is
\* marked before all is ingested.
ReaderInv(r) ==
  /\ Len(r.snap) <= Len(source) /\ \A i \in 1..Len(r.snap) : r.snap[i] = source[i]
  /\ r.pending \subseteq 1..Len(r.snap) /\ r.todo \cup r.waiting \subseteq r.pending
  /\ r.pc # "idle" => r.window \in Windows
  /\ r.pc \in {"look", "append", "ingest", "mark"} => r.todo # {}
  /\ r.pc = "await" => r.pending # {}
  /\ r.reindex => r.pc \notin {"ingest", "mark"}
  /\ ~r.reindex =>
       /\ r.pc \in {"look", "append", "await"} =>
            /\ \A i \in r.pending \ (r.todo \cup r.waiting) : Settles(r, i)
            /\ \A i \in r.waiting : Source!EventsOf(AnchorAt(r, i)) # {}
       /\ r.pc = "await" => r.todo = {}
       /\ r.pc \in {"ingest", "mark"} => \A i \in r.pending : Settles(r, i)
       /\ r.pc = "ingest" => \A i \in r.pending \ r.todo : r.snap[i] \in neurons
       /\ r.pc = "mark" => \A i \in r.pending : r.snap[i] \in neurons

SourceTypes ==
  /\ source \in Seq(Messages) /\ Source!IsInjective(source)
  /\ events \subseteq Source!Anchor \X (Nat \ {0}) /\ settled \subseteq events
  /\ neurons \subseteq Messages /\ consolidated \subseteq neurons
  /\ rows \subseteq Source!Hash \X Windows
  /\ \A r, s \in rows : r[1] = s[1] => r = s
  /\ reader \in [Importers -> ReadRecord]
  /\ sfaults \in 0..MaxStops

SourceInv == SourceTypes /\ Source!MarkedIsImported /\ \A p \in Importers : ReaderInv(reader[p])

-----------------------------------------------------------------------------
(* Records.                                                                  *)

LEMMA SourceNatOrder == \A T \in SUBSET Nat : T # {} => \E b \in T : \A x \in T : ~(x < b)
<1> DEFINE R == OpToRel(<, Nat)
<1>1. IsWellFoundedOn(R, Nat)
  BY NatLessThanWellFounded
<1>2. \A x, y \in Nat : x < y => <<x, y>> \in R
  BY DEF OpToRel
<1> HIDE DEF R
<1>3. ASSUME NEW T \in SUBSET Nat, T # {} PROVE \E b \in T : \A x \in T : ~(x < b)
  <2>1. PICK b \in T : \A y \in T : <<y, b>> \notin R
    BY <1>1, <1>3, WFMin
  <2>2. QED
    BY <1>2, <2>1
<1>4. QED
  BY <1>3

LEMMA LeastIs ==
  ASSUME NEW p, reader[p].todo \in SUBSET Nat, reader[p].todo # {}
  PROVE  Source!First(p) \in reader[p].todo
<1> DEFINE T == reader[p].todo
<1>1. PICK b \in T : \A x \in T : ~(x < b)
  BY SourceNatOrder
<1>2. \A x \in T : b <= x
  BY <1>1
<1>3. QED
  BY <1>2 DEF Source!First

LEMMA Counted == \A n \in Nat : Cardinality(1..n) = n
<1> SUFFICES ASSUME NEW n \in Nat PROVE Cardinality(1..n) = n
  OBVIOUS
<1>1. 1 \in Int /\ n \in Int
  OBVIOUS
<1>2. Cardinality(1..n) = IF 1 > n THEN 0 ELSE n - 1 + 1
  BY <1>1, FS_Interval
<1>3. QED
  BY <1>2

\* A file holds no more lines than there are messages.
LEMMA FileFits ==
  ASSUME SourceTypes
  PROVE  Len(source) \in Source!Line /\ Len(source) \in Nat /\ Cardinality(Messages) \in Nat
<1>1. Cardinality(Messages) \in Nat /\ IsFiniteSet(Messages)
  BY Sourcing, SourceFinite, FS_CardinalityType DEF Source!ImportAssumption
<1>2. source \in Seq(Messages) /\ Source!IsInjective(source)
  BY Zenon DEF SourceTypes
<1>3. PICK n \in Nat : n = Len(source) /\ source \in [1..n -> Messages] /\ DOMAIN source = 1..n
  BY <1>2
<1>4. \A a, b \in 1..n : source[a] = source[b] => a = b
  BY <1>2, <1>3, Zenon DEF Source!IsInjective
<1>5. source \in Injection(1..n, Messages)
  BY <1>3, <1>4 DEF Injection, IsInjective
<1>6. Cardinality(1..n) <= Cardinality(Messages)
  BY <1>1, <1>5, FS_Injection
<1>7. n <= Cardinality(Messages)
  BY <1>6, Counted
<1>8. QED
  BY <1>1, <1>3, <1>7, SourceCount DEF Source!Line

LEMMA OrdinalTyped ==
  ASSUME NEW lines \in Seq(Messages), NEW w, NEW i \in Nat
  PROVE  Source!Ordinal(lines, w, i) \in 0..i
<1> DEFINE S == {j \in Source!Records(lines, w) :
                   j <= i /\ \A k \in Source!Records(lines, w) : j < k /\ k <= i => lines[k] \notin Users}
<1>1. S \in SUBSET (1..i)
  BY DEF Source!Records
<1>2. IsFiniteSet(1..i) /\ Cardinality(1..i) = i
  BY FS_Interval
<1> HIDE DEF S
<1>3. IsFiniteSet(S) /\ Cardinality(S) <= i
  BY <1>1, <1>2, FS_Subset
<1>4. Cardinality(S) \in 0..i
  BY <1>3, FS_CardinalityType
<1>5. QED
  BY <1>4, SourceCount DEF Source!Ordinal, S

\* The ordinal depends on the lines up to the record's own.
LEMMA OrdinalSame ==
  ASSUME NEW lines \in Seq(Messages), NEW others \in Seq(Messages), NEW w, NEW i \in Nat,
         i <= Len(lines), i <= Len(others), \A j \in 1..i : others[j] = lines[j]
  PROVE  Source!Ordinal(others, w, i) = Source!Ordinal(lines, w, i)
<1>1. \A j \in Nat : j <= i => (j \in Source!Records(lines, w) <=> j \in Source!Records(others, w))
  BY DEF Source!Records
<1>2. Source!Records(lines, w) \subseteq Nat /\ Source!Records(others, w) \subseteq Nat
  BY DEF Source!Records
<1>3. \A k \in Source!Records(lines, w) : k <= i => others[k] = lines[k]
  BY DEF Source!Records
<1>4. {j \in Source!Records(lines, w) :
         j <= i /\ \A k \in Source!Records(lines, w) : j < k /\ k <= i => lines[k] \notin Users}
      = {j \in Source!Records(others, w) :
         j <= i /\ \A k \in Source!Records(others, w) : j < k /\ k <= i => others[k] \notin Users}
  BY <1>1, <1>2, <1>3
<1>5. QED
  BY <1>4 DEF Source!Ordinal

\* The anchor of a record that is read.
LEMMA AnchorTyped ==
  ASSUME SourceTypes, NEW r \in ReadRecord, ReaderInv(r), NEW i \in 1..Len(r.snap)
  PROVE  /\ AnchorAt(r, i) \in Source!Anchor /\ AnchorAt(r, i)[1] = Source!HashOf(r.snap, i)
         /\ Source!HashOf(r.snap, i) \in Source!Hash /\ Source!HashOf(r.snap, i)[1] = r.snap[i] /\ r.snap[i] \in Messages
<1>1. Len(source) \in Source!Line /\ Cardinality(Messages) \in Nat
  BY FileFits
<1>2. r.snap \in Seq(Messages) /\ Len(r.snap) <= Len(source) /\ Len(r.snap) \in Nat /\ i \in Nat
  BY DEF ReadRecord, ReaderInv
<1>3. i \in Source!Line /\ Len(r.snap) \in Source!Line /\ 0 \in Source!Line
  BY <1>1, <1>2, SourceCount DEF Source!Line
<1>4. Source!Ordinal(r.snap, r.window, i) \in Source!Line
  <2>1. Source!Ordinal(r.snap, r.window, i) \in 0..i
    BY <1>2, OrdinalTyped
  <2>2. QED
    BY <1>1, <1>3, <2>1, SourceCount DEF Source!Line
<1>5. Source!HashOf(r.snap, i) \in Source!Hash /\ Source!HashOf(r.snap, i)[1] = r.snap[i] /\ r.snap[i] \in Messages
  BY <1>2, <1>3 DEF Source!HashOf, Source!Hash
<1>6. QED
  BY <1>3, <1>4, <1>5 DEF AnchorAt, Source!Anchor

-----------------------------------------------------------------------------
(* What every step keeps.                                                    *)

\* Nothing that was stored goes.
Adds == events \subseteq events' /\ settled \subseteq settled' /\ neurons \subseteq neurons'

\* The file is read, or written on.
ReadsOn == /\ source' \in Seq(Messages) /\ Len(source) <= Len(source')
           /\ \A i \in 1..Len(source) : source'[i] = source[i]

LEMMA SettlesStays ==
  ASSUME Adds, NEW r, NEW i
  PROVE  /\ Settles(r, i) => Settles(r, i)'
         /\ Source!EventsOf(AnchorAt(r, i)) # {} => Source!EventsOf(AnchorAt(r, i))' # {}
<1>1. Source!EventsOf(AnchorAt(r, i)) \subseteq Source!EventsOf(AnchorAt(r, i))'
  BY DEF Adds, Source!EventsOf, AnchorAt, Source!HashOf, Source!Ordinal, Source!Records
<1>2. QED
  BY <1>1 DEF Adds, Settles

\* What a run has behind it stays there.
LEMMA ReaderStays ==
  ASSUME NEW r \in ReadRecord, ReaderInv(r), Adds, ReadsOn, source \in Seq(Messages)
  PROVE  ReaderInv(r)'
<1>1. \A i : Settles(r, i) => Settles(r, i)'
  BY SettlesStays
<1>2. \A i : Source!EventsOf(AnchorAt(r, i)) # {} => Source!EventsOf(AnchorAt(r, i))' # {}
  BY SettlesStays
<1>3. Len(r.snap) <= Len(source') /\ \A i \in 1..Len(r.snap) : r.snap[i] = source'[i]
  <2>1. r.snap \in Seq(Messages) /\ Len(r.snap) \in Nat /\ Len(source) \in Nat /\ Len(source') \in Nat
    BY DEF ReadRecord, ReadsOn
  <2>2. QED
    BY <2>1 DEF ReaderInv, ReadsOn
<1>4. QED
  BY <1>1, <1>2, <1>3 DEF ReaderInv, Adds

\* Rows that are not touched stay true.
LEMMA MarkedStays ==
  ASSUME Source!MarkedIsImported, Adds, UNCHANGED rows
  PROVE  Source!MarkedIsImported'
  BY DEF Source!MarkedIsImported, Adds

\* One run moves.
LEMMA OneReads ==
  ASSUME SourceInv, NEW p \in Importers, NEW new \in ReadRecord, Source!Step(p, new), Adds, UNCHANGED source,
         ReaderInv(new)', Source!MarkedIsImported',
         events' \subseteq Source!Anchor \X (Nat \ {0}), settled' \subseteq events',
         neurons' \subseteq Messages, consolidated' \subseteq neurons',
         rows' \subseteq Source!Hash \X Windows, \A r, s \in rows' : r[1] = s[1] => r = s,
         sfaults' \in 0..MaxStops
  PROVE  SourceInv'
<1>1. source \in Seq(Messages) /\ Source!IsInjective(source) /\ reader \in [Importers -> ReadRecord]
  BY DEF SourceInv, SourceTypes
<1>2. reader' = [reader EXCEPT ![p] = new] /\ reader' \in [Importers -> ReadRecord]
  BY <1>1 DEF Source!Step
<1>3. ReadsOn
  BY <1>1 DEF ReadsOn
<1>4. ASSUME NEW q \in Importers PROVE ReaderInv(reader[q])'
  <2>1. CASE q = p
    <3>1. reader'[q] = new
      BY <1>1, <1>2, <2>1
    <3>2. QED
      BY <3>1 DEF ReaderInv, Settles, AnchorAt
  <2>2. CASE q # p
    <3>1. PICK r \in ReadRecord : r = reader[q]
      BY <1>1
    <3>2. ReaderInv(r)
      BY <3>1 DEF SourceInv
    <3>3. ReaderInv(r)'
      BY <1>1, <1>3, <3>2, ReaderStays
    <3>4. reader'[q] = r
      BY <1>1, <1>2, <2>2, <3>1
    <3>5. QED
      BY <3>3, <3>4 DEF ReaderInv, Settles, AnchorAt
  <2>3. QED
    BY <2>1, <2>2
<1>5. SourceTypes'
  <2>1. Source!IsInjective(source)'
    BY <1>1 DEF Source!IsInjective
  <2>2. QED
    BY <1>1, <1>2, <2>1 DEF SourceTypes
<1>6. QED
  BY <1>4, <1>5 DEF SourceInv

LEMMA ReaderTypes ==
  ASSUME SourceInv, NEW p \in Importers
  PROVE  /\ reader[p] \in ReadRecord /\ ReaderInv(reader[p]) /\ source \in Seq(Messages) /\ SourceTypes
         /\ reader[p].todo # {} => Source!First(p) \in reader[p].todo
         /\ \A i : Source!AnchorOf(p, i) = AnchorAt(reader[p], i)
<1>1. reader[p] \in ReadRecord /\ ReaderInv(reader[p]) /\ source \in Seq(Messages) /\ SourceTypes
  BY DEF SourceInv, SourceTypes
<1>2. reader[p].todo \in SUBSET Nat
  BY <1>1 DEF ReadRecord
<1>3. QED
  BY <1>1, <1>2, LeastIs DEF Source!First, Source!AnchorOf, AnchorAt

\* Records of the same lines and window have the same anchors.
LEMMA SameAnchors ==
  ASSUME NEW r, NEW new, new.snap = r.snap, new.window = r.window
  PROVE  \A i : /\ AnchorAt(new, i) = AnchorAt(r, i)
                /\ Settles(new, i) = Settles(r, i) /\ Settles(new, i)' = Settles(r, i)'
<1>1. \A i : AnchorAt(new, i) = AnchorAt(r, i)
  BY DEF AnchorAt
<1>2. QED
  BY <1>1 DEF Settles, Source!EventsOf

Places == {"idle", "look", "append", "await", "ingest", "mark", "cursor", "offline", "seal"}

\* The same run, elsewhere.
Moved(r, pc, todo, waiting) == [r EXCEPT !.pc = pc, !.todo = todo, !.waiting = waiting]

\* What a move leaves alone: the lines, hence the anchors.
Moves(r, new, pc, todo, waiting) ==
  /\ new \in ReadRecord
  /\ new.pc = pc /\ new.todo = todo /\ new.waiting = waiting /\ new.snap = r.snap
  /\ new.window = r.window /\ new.reindex = r.reindex /\ new.pending = r.pending
  /\ \A j : AnchorAt(new, j) = AnchorAt(r, j) /\ (Settles(new, j)' <=> Settles(r, j)')
  /\ \A j : Source!EventsOf(AnchorAt(new, j))' = Source!EventsOf(AnchorAt(r, j))'

LEMMA MovedTyped ==
  ASSUME NEW r \in ReadRecord, NEW pc \in Places, NEW todo \in SUBSET Nat,
         NEW waiting \in SUBSET Nat, NEW new, new = Moved(r, pc, todo, waiting)
  PROVE  Moves(r, new, pc, todo, waiting)
<1>1. /\ new.pc = pc /\ new.todo = todo /\ new.waiting = waiting /\ new.snap = r.snap
      /\ new.window = r.window /\ new.reindex = r.reindex /\ new.pending = r.pending
  BY DEF ReadRecord, Moved
<1>2. new \in ReadRecord
  BY DEF ReadRecord, Moved, Places
<1>3. \A j : AnchorAt(new, j) = AnchorAt(r, j) /\ (Settles(new, j)' <=> Settles(r, j)')
  BY <1>1, SameAnchors
<1>4. \A j : Source!EventsOf(AnchorAt(new, j))' = Source!EventsOf(AnchorAt(r, j))'
  BY <1>3 DEF Source!EventsOf
<1>5. QED
  BY <1>1, <1>2, <1>3, <1>4 DEF Moves

\* The event of a record is found or written, and its assembly is over or starts.
LEMMA RecordedMoves ==
  ASSUME SourceInv, NEW p \in Importers, NEW r \in ReadRecord, r = reader[p], ReaderInv(r)',
         r.pc \in {"look", "append"}, NEW i \in r.todo, NEW assemble \in BOOLEAN,
         Source!EventsOf(AnchorAt(r, i))' # {}, ~assemble => Settles(r, i)', Source!Recorded(p, i, assemble)
  PROVE  \E new \in ReadRecord : Source!Step(p, new) /\ ReaderInv(new)'
<1> DEFINE todo    == r.todo \ {i}
           waiting == IF assemble THEN r.waiting \cup {i} ELSE r.waiting
           pc      == CASE r.reindex /\ waiting # {} -> "await"
                        [] ~(r.reindex /\ waiting # {}) /\ todo # {} -> "look"
                        [] ~r.reindex /\ todo = {} -> "await"
                        [] r.reindex /\ waiting = {} /\ todo = {} -> "seal"
<1>1. PICK new : new = Moved(r, pc, todo, waiting)
  OBVIOUS
<1>2. Source!Step(p, new)
  BY <1>1 DEF Source!Recorded, Moved
<1>3. /\ todo \subseteq r.todo /\ i \notin todo /\ waiting \subseteq r.waiting \cup {i}
      /\ r.waiting \subseteq waiting /\ (assemble => i \in waiting)
      /\ r.todo \subseteq todo \cup {i}
  OBVIOUS
<1>4. /\ pc \in {"await", "look", "seal"} /\ (pc = "look" => todo # {})
      /\ ~r.reindex => pc \in {"look", "await"} /\ (pc = "await" => todo = {})
  BY DEF ReadRecord
<1> HIDE DEF todo, waiting, pc
<1>5. r.todo \in SUBSET Nat /\ r.waiting \in SUBSET Nat /\ i \in Nat
  BY DEF ReadRecord
<1>6. waiting \in SUBSET Nat /\ todo \in SUBSET Nat /\ pc \in Places
  <2>1. waiting \in SUBSET Nat
    BY <1>3, <1>5
  <2>2. todo \in SUBSET Nat
    BY <1>3, <1>5
  <2>3. pc \in Places
    BY <1>4 DEF Places
  <2>4. QED
    BY <2>1, <2>2, <2>3
<1>7. Moves(r, new, pc, todo, waiting)
  BY <1>1, <1>6, MovedTyped
<1>8. /\ Len(r.snap) <= Len(source') /\ \A j \in 1..Len(r.snap) : r.snap[j] = source'[j]
      /\ r.pending \subseteq 1..Len(r.snap) /\ r.window \in Windows /\ r.pending # {}
      /\ r.todo \cup r.waiting \subseteq r.pending
      /\ ~r.reindex => \A j \in r.pending \ (r.todo \cup r.waiting) : Settles(r, j)'
      /\ ~r.reindex => \A j \in r.waiting : Source!EventsOf(AnchorAt(r, j))' # {}
  BY DEF ReaderInv
<1>9. todo \cup waiting \subseteq r.pending
  BY <1>3, <1>8
<1>10. /\ ~r.reindex => \A j \in r.pending \ (todo \cup waiting) : Settles(r, j)'
       /\ ~r.reindex => \A j \in waiting : Source!EventsOf(AnchorAt(r, j))' # {}
  <2>1. ASSUME ~r.reindex, NEW j \in r.pending \ (todo \cup waiting) PROVE Settles(r, j)'
    <3>1. CASE j = i
      <4>1. ~assemble
        BY <1>3, <2>1, <3>1
      <4>2. QED
        BY <3>1, <4>1
    <3>2. CASE j # i
      <4>1. j \in r.pending \ (r.todo \cup r.waiting)
        BY <1>3, <2>1, <3>2
      <4>2. QED
        BY <1>8, <2>1, <4>1
    <3>3. QED
      BY <3>1, <3>2
  <2>2. ASSUME ~r.reindex, NEW j \in waiting PROVE Source!EventsOf(AnchorAt(r, j))' # {}
    <3>1. j = i \/ j \in r.waiting
      BY <1>3
    <3>2. QED
      BY <1>8, <2>2, <3>1
  <2>3. QED
    BY <2>1, <2>2
<1>11. ReaderInv(new)'
  BY <1>4, <1>7, <1>8, <1>9, <1>10 DEF ReaderInv, Moves
<1>12. QED
  BY <1>2, <1>7, <1>11 DEF Moves

-----------------------------------------------------------------------------
(* The actions.                                                              *)

LEMMA SourceKeepsReader ==
  ASSUME SourceInv, NEW p \in Importers, Adds, UNCHANGED source
  PROVE  \E r \in ReadRecord : /\ r = reader[p] /\ ReaderInv(r) /\ ReaderInv(r)'
                               /\ \A i : Source!AnchorOf(p, i) = AnchorAt(r, i)
                               /\ r.todo # {} => Source!First(p) \in r.todo
<1>1. PICK r \in ReadRecord : r = reader[p]
  BY ReaderTypes
<1>2. source \in Seq(Messages) /\ ReaderInv(r)
  BY <1>1, ReaderTypes
<1>3. ReadsOn
  BY <1>2 DEF ReadsOn
<1>4. ReaderInv(r)'
  BY <1>2, <1>3, ReaderStays
<1>5. QED
  BY <1>1, <1>2, <1>4, ReaderTypes

LEMMA SourceStartStep ==
  ASSUME SourceInv, NEW p \in Importers, NEW w \in Windows, NEW reindex \in BOOLEAN,
         Source!Start(p, w, reindex)
  PROVE  SourceInv'
<1> DEFINE fresh == {i \in Source!Records(source, w) : Source!HashOf(source, i) \notin Source!Seen(w)}
           todo  == IF reindex THEN Source!Records(source, w) ELSE fresh
           pc    == CASE todo # {} -> "look" [] todo = {} /\ reindex -> "seal"
                      [] todo = {} /\ ~reindex -> "cursor"
<1>1. PICK new : new = [pc |-> pc, reindex |-> reindex, window |-> w, snap |-> source,
                        pending |-> todo, todo |-> todo, waiting |-> {}]
  OBVIOUS
<1>2. Source!Step(p, new) /\ UNCHANGED <<source, events, settled, neurons, rows, consolidated, sfaults>>
  BY <1>1 DEF Source!Start
<1>3. source \in Seq(Messages) /\ Adds
  BY <1>2 DEF SourceInv, SourceTypes, Adds
<1>4. todo \subseteq 1..Len(source)
  BY <1>3 DEF Source!Records
<1>5. pc \in {"look", "seal", "cursor"} /\ (pc = "look" => todo # {})
  OBVIOUS
<1> HIDE DEF fresh, todo, pc
<1>6. w \in SUBSET Messages
  BY Sourcing DEF Source!ImportAssumption
<1>7. todo \in SUBSET Nat
  BY <1>4
<1>8. new \in ReadRecord
  BY <1>1, <1>3, <1>5, <1>6, <1>7 DEF ReadRecord
<1>9. /\ new.pc = pc /\ new.todo = todo /\ new.waiting = {} /\ new.snap = source
      /\ new.window = w /\ new.reindex = reindex /\ new.pending = todo
  BY <1>1
<1>10. Len(source) \in Nat /\ source' = source
  BY <1>2, <1>3
<1>11. ReaderInv(new)'
  BY <1>4, <1>5, <1>9, <1>10 DEF ReaderInv
<1>12. Source!MarkedIsImported'
  BY <1>2, <1>3, MarkedStays DEF SourceInv
<1>13. SourceTypes
  BY DEF SourceInv
<1>14. QED
  BY <1>2, <1>3, <1>8, <1>11, <1>12, <1>13, OneReads DEF SourceTypes

LEMMA SourceLookStep ==
  ASSUME SourceInv, NEW p \in Importers, Source!Look(p)
  PROVE  SourceInv'
<1>1. UNCHANGED <<source, events, settled, neurons, rows, consolidated, sfaults>>
  BY DEF Source!Look
<1>2. Adds
  BY <1>1 DEF Adds
<1>3. PICK r \in ReadRecord : /\ r = reader[p] /\ ReaderInv(r) /\ ReaderInv(r)'
                              /\ \A i : Source!AnchorOf(p, i) = AnchorAt(r, i)
                              /\ r.todo # {} => Source!First(p) \in r.todo
  BY <1>1, <1>2, SourceKeepsReader
<1>4. r.pc = "look" /\ Source!First(p) \in r.todo
  BY <1>3 DEF Source!Look, ReaderInv
<1>5. \E new \in ReadRecord : Source!Step(p, new) /\ ReaderInv(new)'
  <2>1. CASE Source!EventsOf(Source!AnchorOf(p, Source!First(p))) # {}
    <3>1. Source!Recorded(p, Source!First(p), Source!EventsOf(Source!AnchorOf(p, Source!First(p))) \cap settled = {})
      BY <2>1 DEF Source!Look
    <3>2. PICK i \in r.todo : i = Source!First(p)
      BY <1>4
    <3>3. PICK assemble : assemble = (Source!EventsOf(Source!AnchorOf(p, Source!First(p))) \cap settled = {})
      OBVIOUS
    <3>4. Source!EventsOf(AnchorAt(r, i))' # {}
      BY <1>1, <1>3, <2>1, <3>2 DEF Source!EventsOf
    <3>5. ~assemble => Settles(r, i)'
      BY <1>1, <1>3, <3>2, <3>3 DEF Source!EventsOf, Settles
    <3>6. Source!Recorded(p, i, assemble)
      BY <3>1, <3>2, <3>3
    <3>7. assemble \in BOOLEAN
      BY <3>3
    <3>8. QED
      BY <1>3, <1>4, <3>4, <3>5, <3>6, <3>7, RecordedMoves
  <2>2. CASE Source!EventsOf(Source!AnchorOf(p, Source!First(p))) = {}
    <3>1. PICK pc, new : pc \in Places /\ pc = "append" /\ new = Moved(r, pc, r.todo, r.waiting)
      BY DEF Places
    <3>2. new = [r EXCEPT !.pc = "append"]
      BY <3>1 DEF Moved, ReadRecord
    <3>3. Source!Step(p, new)
      BY <1>3, <2>2, <3>2 DEF Source!Look
    <3>4. r.todo \in SUBSET Nat /\ r.waiting \in SUBSET Nat
      BY DEF ReadRecord
    <3>5. Moves(r, new, pc, r.todo, r.waiting)
      BY <3>1, <3>4, MovedTyped
    <3>6. ReaderInv(new)'
      BY <1>3, <1>4, <3>1, <3>5 DEF ReaderInv, Moves
    <3>7. QED
      BY <3>3, <3>5, <3>6 DEF Moves
  <2>3. QED
    BY <2>1, <2>2
<1>6. Source!MarkedIsImported'
  BY <1>1, <1>2, MarkedStays DEF SourceInv
<1>7. SourceTypes
  BY DEF SourceInv
<1>8. QED
  BY <1>1, <1>2, <1>5, <1>6, <1>7, OneReads DEF SourceTypes

LEMMA SourceAppendRawStep ==
  ASSUME SourceInv, NEW p \in Importers, Source!AppendRaw(p)
  PROVE  SourceInv'
<1>1. UNCHANGED <<source, settled, neurons, rows, consolidated, sfaults>>
  BY DEF Source!AppendRaw
<1>2. PICK a : a = Source!AnchorOf(p, Source!First(p))
  OBVIOUS
<1>3. events' = Source!Appended(a) /\ events \subseteq events' /\ events' \subseteq events \cup {<<a, 1>>}
  BY <1>2 DEF Source!AppendRaw, Source!Appended
<1>4. \E e \in events' : e[1] = a
  <2>1. CASE Source!EventsOf(a) = {}
    <3>1. <<a, 1>> \in events' /\ <<a, 1>>[1] = a
      BY <1>3, <2>1 DEF Source!Appended
    <3>2. QED
      BY <3>1
  <2>2. CASE Source!EventsOf(a) # {}
    BY <1>3, <2>2 DEF Source!EventsOf
  <2>3. QED
    BY <2>1, <2>2
<1>5. Adds
  BY <1>1, <1>3 DEF Adds
<1>6. PICK r \in ReadRecord : /\ r = reader[p] /\ ReaderInv(r) /\ ReaderInv(r)'
                              /\ \A i : Source!AnchorOf(p, i) = AnchorAt(r, i)
                              /\ r.todo # {} => Source!First(p) \in r.todo
  BY <1>1, <1>5, SourceKeepsReader
<1>7. r.pc = "append" /\ Source!First(p) \in r.todo
  BY <1>6 DEF Source!AppendRaw, ReaderInv
<1>8. PICK i \in r.todo : i = Source!First(p)
  BY <1>7
<1>9. a = AnchorAt(r, i)
  BY <1>2, <1>6, <1>8
<1>10. Source!EventsOf(AnchorAt(r, i))' # {}
  BY <1>4, <1>9 DEF Source!EventsOf
<1>11. \E new \in ReadRecord : Source!Step(p, new) /\ ReaderInv(new)'
  <2>1. Source!Recorded(p, i, TRUE)
    BY <1>8 DEF Source!AppendRaw
  <2>2. QED
    BY <1>6, <1>7, <1>10, <2>1, RecordedMoves
<1>12. a \in Source!Anchor
  <2>1. i \in 1..Len(r.snap)
    BY <1>6 DEF ReaderInv
  <2>2. QED
    BY <1>6, <1>9, <2>1, AnchorTyped DEF SourceInv
<1>13. events' \subseteq Source!Anchor \X (Nat \ {0}) /\ settled \subseteq events'
  BY <1>3, <1>12 DEF SourceInv, SourceTypes
<1>14. Source!MarkedIsImported'
  BY <1>1, <1>5, MarkedStays DEF SourceInv
<1>15. SourceTypes
  BY DEF SourceInv
<1>16. QED
  BY <1>1, <1>5, <1>11, <1>13, <1>14, <1>15, OneReads DEF SourceTypes

\* A run whose assemblies settled is ingested, or goes on.
LEMMA AwaitMoves ==
  ASSUME SourceInv, NEW p \in Importers, NEW r \in ReadRecord, r = reader[p], ReaderInv(r)',
         r.pc = "await", NEW waiting \in SUBSET r.waiting,
         ~r.reindex => \A i \in r.waiting \ waiting : Settles(r, i)'
  PROVE  \E new \in ReadRecord : new = Source!AfterAwait(p, waiting) /\ ReaderInv(new)'
<1>1. r.waiting \in SUBSET Nat /\ r.pending \in SUBSET Nat
  BY DEF ReadRecord
<1>2. PICK new : new = Source!AfterAwait(p, waiting)
  OBVIOUS
<1>3. /\ Len(r.snap) <= Len(source') /\ \A j \in 1..Len(r.snap) : r.snap[j] = source'[j]
      /\ r.pending \subseteq 1..Len(r.snap) /\ r.window \in Windows /\ r.pending # {}
      /\ r.todo \cup r.waiting \subseteq r.pending
      /\ ~r.reindex => r.todo = {}
      /\ ~r.reindex => \A i \in r.pending \ r.waiting : Settles(r, i)'
      /\ ~r.reindex => \A i \in r.waiting : Source!EventsOf(AnchorAt(r, i))' # {}
  BY DEF ReaderInv
<1>4. r.todo \in SUBSET Nat /\ waiting \in SUBSET Nat /\ {} \in SUBSET Nat /\ waiting \subseteq r.waiting
  BY <1>1 DEF ReadRecord
<1>5. new \in ReadRecord /\ ReaderInv(new)'
  <2>1. CASE waiting # {}
    <3>1. PICK pc \in Places : pc = "await"
      BY DEF Places
    <3>2. new = Moved(r, pc, r.todo, waiting)
      BY <1>2, <2>1, <3>1 DEF Source!AfterAwait, ReadRecord, Moved
    <3>3. Moves(r, new, pc, r.todo, waiting)
      BY <1>4, <3>2, MovedTyped
    <3>4. ~r.reindex => \A i \in r.pending \ waiting : Settles(r, i)'
      BY <1>3
    <3>5. QED
      BY <1>3, <1>4, <3>1, <3>3, <3>4 DEF ReaderInv, Moves
  <2>2. CASE waiting = {} /\ ~r.reindex
    <3>1. PICK pc \in Places : pc = "ingest"
      BY DEF Places
    <3>2. new = Moved(r, pc, r.pending, {})
      BY <1>2, <2>2, <3>1 DEF Source!AfterAwait, ReadRecord, Moved
    <3>3. Moves(r, new, pc, r.pending, {})
      BY <1>1, <1>4, <3>2, MovedTyped
    <3>4. \A i \in r.pending : Settles(r, i)'
      BY <1>3, <2>2
    <3>5. QED
      BY <1>3, <2>2, <3>1, <3>3, <3>4 DEF ReaderInv, Moves
  <2>3. CASE waiting = {} /\ r.reindex
    <3>1. PICK pc \in Places : pc = IF r.todo = {} THEN "seal" ELSE "look"
      BY DEF Places
    <3>2. new = Moved(r, pc, r.todo, {})
      BY <1>2, <2>3, <3>1 DEF Source!AfterAwait, ReadRecord, Moved
    <3>3. Moves(r, new, pc, r.todo, {})
      BY <1>4, <3>2, MovedTyped
    <3>4. pc \in {"seal", "look"} /\ (pc = "look" => r.todo # {})
      BY <3>1
    <3>5. QED
      BY <1>3, <2>3, <3>3, <3>4 DEF ReaderInv, Moves
  <2>4. QED
    BY <2>1, <2>2, <2>3
<1>6. QED
  BY <1>2, <1>5

LEMMA SourceAssembleStep ==
  ASSUME SourceInv, NEW p \in Importers, Source!Assemble(p)
  PROVE  SourceInv'
<1>1. UNCHANGED <<source, events, neurons, rows, consolidated, sfaults>>
  BY DEF Source!Assemble
<1>2. SourceTypes
  BY DEF SourceInv
<1>3. PICK waiting : /\ waiting \subseteq reader[p].waiting /\ Source!Step(p, Source!AfterAwait(p, waiting))
                     /\ settled \subseteq settled' /\ settled' \subseteq events
                     /\ \A i \in reader[p].waiting \ waiting : Source!EventsOf(Source!AnchorOf(p, i)) \subseteq settled'
  <2>1. ASSUME NEW i \in reader[p].waiting, settled' = settled \cup Source!EventsOf(Source!AnchorOf(p, i)),
               Source!Step(p, Source!AfterAwait(p, reader[p].waiting \ {i}))
        PROVE  \E waiting : /\ waiting \subseteq reader[p].waiting /\ Source!Step(p, Source!AfterAwait(p, waiting))
                            /\ settled \subseteq settled' /\ settled' \subseteq events
                            /\ \A j \in reader[p].waiting \ waiting :
                                 Source!EventsOf(Source!AnchorOf(p, j)) \subseteq settled'
    <3>1. Source!EventsOf(Source!AnchorOf(p, i)) \subseteq events /\ settled \subseteq events
      BY <1>2 DEF Source!EventsOf, SourceTypes
    <3>2. PICK waiting : waiting = reader[p].waiting \ {i}
      OBVIOUS
    <3>3. /\ waiting \subseteq reader[p].waiting
          /\ \A j \in reader[p].waiting \ waiting : Source!EventsOf(Source!AnchorOf(p, j)) \subseteq settled'
      BY <2>1, <3>2
    <3>4. QED
      BY <2>1, <3>1, <3>2, <3>3
  <2>2. ASSUME reader[p].waiting = {}, Source!Step(p, Source!AfterAwait(p, {})), UNCHANGED settled
        PROVE  \E waiting : /\ waiting \subseteq reader[p].waiting /\ Source!Step(p, Source!AfterAwait(p, waiting))
                            /\ settled \subseteq settled' /\ settled' \subseteq events
                            /\ \A j \in reader[p].waiting \ waiting :
                                 Source!EventsOf(Source!AnchorOf(p, j)) \subseteq settled'
    BY <1>2, <2>2 DEF SourceTypes
  <2>3. QED
    BY <2>1, <2>2 DEF Source!Assemble
<1>4. Adds
  BY <1>1, <1>3 DEF Adds
<1>5. PICK r \in ReadRecord : /\ r = reader[p] /\ ReaderInv(r) /\ ReaderInv(r)'
                              /\ \A i : Source!AnchorOf(p, i) = AnchorAt(r, i)
                              /\ r.todo # {} => Source!First(p) \in r.todo
  BY <1>1, <1>4, SourceKeepsReader
<1>6. r.pc = "await" /\ waiting \in SUBSET r.waiting
  BY <1>3, <1>5 DEF Source!Assemble
<1>7. ~r.reindex => \A i \in r.waiting \ waiting : Settles(r, i)'
  <2>1. ASSUME ~r.reindex, NEW i \in r.waiting \ waiting PROVE Settles(r, i)'
    <3>1. Source!EventsOf(AnchorAt(r, i)) # {}
      BY <1>5, <1>6, <2>1 DEF ReaderInv
    <3>2. Source!EventsOf(AnchorAt(r, i)) \subseteq settled'
      BY <1>3, <1>5, <2>1
    <3>3. Source!EventsOf(AnchorAt(r, i))' = Source!EventsOf(AnchorAt(r, i))
      BY <1>1 DEF Source!EventsOf, AnchorAt, Source!HashOf, Source!Ordinal, Source!Records
    <3>4. QED
      BY <3>1, <3>2, <3>3 DEF Settles
  <2>2. QED
    BY <2>1
<1>8. \E new \in ReadRecord : new = Source!AfterAwait(p, waiting) /\ ReaderInv(new)'
  BY <1>5, <1>6, <1>7, AwaitMoves
<1>9. Source!MarkedIsImported'
  BY <1>1, <1>4, MarkedStays DEF SourceInv
<1>10. QED
  BY <1>1, <1>2, <1>3, <1>4, <1>8, <1>9, OneReads DEF SourceTypes

LEMMA IngestStep ==
  ASSUME SourceInv, NEW p \in Importers, Source!Ingest(p)
  PROVE  SourceInv'
<1>1. UNCHANGED <<source, events, settled, rows, consolidated, sfaults>>
  BY DEF Source!Ingest, Source!MarkedNow
<1>2. SourceTypes
  BY DEF SourceInv
<1>3. neurons' = neurons \cup {reader[p].snap[Source!First(p)]}
  BY DEF Source!Ingest
<1>4. Adds
  BY <1>1, <1>3 DEF Adds
<1>5. PICK r \in ReadRecord : /\ r = reader[p] /\ ReaderInv(r) /\ ReaderInv(r)'
                              /\ \A i : Source!AnchorOf(p, i) = AnchorAt(r, i)
                              /\ r.todo # {} => Source!First(p) \in r.todo
  BY <1>1, <1>4, SourceKeepsReader
<1>6. r.pc = "ingest" /\ Source!First(p) \in r.todo /\ ~r.reindex
  BY <1>5 DEF Source!Ingest, ReaderInv
<1>7. PICK i \in r.todo : i = Source!First(p)
  BY <1>6
<1>8. PICK todo : todo = r.todo \ {i}
  OBVIOUS
<1>9. /\ Len(r.snap) <= Len(source') /\ \A j \in 1..Len(r.snap) : r.snap[j] = source'[j]
      /\ r.pending \subseteq 1..Len(r.snap) /\ r.window \in Windows /\ r.pending # {}
      /\ r.todo \cup r.waiting \subseteq r.pending
      /\ \A j \in r.pending : Settles(r, j)'
      /\ \A j \in r.pending \ r.todo : r.snap[j] \in neurons'
  BY <1>5, <1>6 DEF ReaderInv
<1>10. /\ \A j \in r.pending \ todo : r.snap[j] \in neurons'
       /\ todo \subseteq r.pending
  BY <1>3, <1>5, <1>7, <1>8, <1>9
<1>11. r.todo \in SUBSET Nat /\ r.pending \in SUBSET Nat /\ r.waiting \in SUBSET Nat
       /\ todo \in SUBSET Nat
  BY <1>8 DEF ReadRecord
<1>12. r.snap[i] \in Messages
  BY <1>2, <1>5, <1>9, AnchorTyped
<1>13. \E new \in ReadRecord : Source!Step(p, new) /\ ReaderInv(new)'
  <2>1. CASE todo # {}
    <3>1. PICK pc, new : pc \in Places /\ pc = "ingest" /\ new = Moved(r, pc, todo, r.waiting)
      BY DEF Places
    <3>2. Source!Step(p, new)
      BY <1>5, <1>6, <1>7, <1>8, <2>1, <3>1 DEF Source!Ingest, Moved, ReadRecord
    <3>3. Moves(r, new, pc, todo, r.waiting)
      BY <1>11, <3>1, MovedTyped
    <3>4. ReaderInv(new)'
      BY <1>6, <1>9, <1>10, <2>1, <3>1, <3>3 DEF ReaderInv, Moves
    <3>5. QED
      BY <3>2, <3>3, <3>4 DEF Moves
  <2>2. CASE todo = {}
    <3>1. PICK pc, new : pc \in Places /\ pc = "mark" /\ new = Moved(r, pc, r.pending, r.waiting)
      BY DEF Places
    <3>2. Source!Step(p, new)
      BY <1>5, <1>6, <1>7, <1>8, <2>2, <3>1 DEF Source!Ingest, Moved, ReadRecord
    <3>3. Moves(r, new, pc, r.pending, r.waiting)
      BY <1>11, <3>1, MovedTyped
    <3>4. ReaderInv(new)'
      BY <1>6, <1>9, <1>10, <2>2, <3>1, <3>3 DEF ReaderInv, Moves
    <3>5. QED
      BY <3>2, <3>3, <3>4 DEF Moves
  <2>3. QED
    BY <2>1, <2>2
<1>14. Source!MarkedIsImported'
  BY <1>1, <1>4, MarkedStays DEF SourceInv
<1>15. neurons' \subseteq Messages /\ consolidated' \subseteq neurons'
  BY <1>1, <1>2, <1>3, <1>5, <1>7, <1>12 DEF SourceTypes
<1>16. QED
  BY <1>1, <1>2, <1>4, <1>13, <1>14, <1>15, OneReads DEF SourceTypes

LEMMA SourceMarkStep ==
  ASSUME SourceInv, NEW p \in Importers, Source!Mark(p)
  PROVE  SourceInv'
<1>1. UNCHANGED <<source, events, settled, neurons, consolidated, sfaults>>
  BY DEF Source!Mark
<1>2. SourceTypes
  BY DEF SourceInv
<1>3. Adds
  BY <1>1 DEF Adds
<1>4. PICK r \in ReadRecord : /\ r = reader[p] /\ ReaderInv(r) /\ ReaderInv(r)'
                              /\ \A i : Source!AnchorOf(p, i) = AnchorAt(r, i)
                              /\ r.todo # {} => Source!First(p) \in r.todo
  BY <1>1, <1>3, SourceKeepsReader
<1>5. r.pc = "mark" /\ Source!First(p) \in r.todo /\ ~r.reindex
  BY <1>4 DEF Source!Mark, ReaderInv
<1>6. PICK i \in r.todo : i = Source!First(p)
  BY <1>5
<1>7. PICK todo : todo = r.todo \ {i}
  OBVIOUS
<1>8. /\ Len(r.snap) <= Len(source') /\ \A j \in 1..Len(r.snap) : r.snap[j] = source'[j]
      /\ r.pending \subseteq 1..Len(r.snap) /\ r.window \in Windows /\ r.pending # {}
      /\ r.todo \cup r.waiting \subseteq r.pending
      /\ \A j \in r.pending : Settles(r, j)' /\ Settles(r, j)
      /\ \A j \in r.pending : r.snap[j] \in neurons
  BY <1>4, <1>5 DEF ReaderInv
<1>9. r.todo \in SUBSET Nat /\ r.pending \in SUBSET Nat /\ r.waiting \in SUBSET Nat
      /\ todo \in SUBSET Nat /\ todo \subseteq r.pending
  BY <1>7, <1>8 DEF ReadRecord
<1>10. \E new \in ReadRecord : Source!Step(p, new) /\ ReaderInv(new)'
  <2>1. PICK pc, new : /\ pc \in Places
                       /\ pc = IF todo = {} THEN "cursor" ELSE "mark"
                       /\ new = Moved(r, pc, todo, r.waiting)
    BY DEF Places
  <2>2. Source!Step(p, new)
    BY <1>4, <1>6, <1>7, <2>1 DEF Source!Mark, Moved, ReadRecord
  <2>3. Moves(r, new, pc, todo, r.waiting)
    BY <1>9, <2>1, MovedTyped
  <2>4. pc \in {"cursor", "mark"} /\ (pc = "mark" => todo # {})
    BY <2>1
  <2>5. \A j \in r.pending : r.snap[j] \in neurons'
    BY <1>1, <1>8
  <2>6. ReaderInv(new)'
    BY <1>5, <1>8, <1>9, <2>3, <2>4, <2>5 DEF ReaderInv, Moves
  <2>7. QED
    BY <2>2, <2>3, <2>6 DEF Moves
<1>11. PICK h : h = Source!HashOf(r.snap, i)
  OBVIOUS
<1>12. i \in 1..Len(r.snap) /\ i \in r.pending
  BY <1>8
<1>13. h \in Source!Hash /\ h[1] = r.snap[i] /\ AnchorAt(r, i)[1] = h
  BY <1>2, <1>4, <1>11, <1>12, AnchorTyped
<1>14. rows' = {q \in rows : q[1] # h} \cup {<<h, r.window>>}
  BY <1>4, <1>6, <1>11 DEF Source!Mark, Source!Marked
<1>15. rows' \subseteq Source!Hash \X Windows /\ \A q, s \in rows' : q[1] = s[1] => q = s
  BY <1>2, <1>8, <1>13, <1>14 DEF SourceTypes
<1>16. PICK e \in settled : e[1] = AnchorAt(r, i)
  BY <1>8, <1>12 DEF Settles, Source!EventsOf
<1>17. h[1] \in neurons /\ e[1][1] = h
  BY <1>8, <1>12, <1>13, <1>16
<1>18. Source!MarkedIsImported'
  <2>1. ASSUME NEW q \in rows' PROVE q[1][1] \in neurons' /\ \E f \in settled' : f[1][1] = q[1]
    <3>1. CASE q \in rows
      BY <1>1, <3>1 DEF SourceInv, Source!MarkedIsImported
    <3>2. CASE q = <<h, r.window>>
      <4>1. q[1] = h
        BY <3>2
      <4>2. QED
        BY <1>1, <1>17, <4>1
    <3>3. QED
      BY <1>14, <2>1, <3>1, <3>2
  <2>2. QED
    BY <2>1 DEF Source!MarkedIsImported
<1>19. QED
  BY <1>1, <1>2, <1>3, <1>10, <1>15, <1>18, OneReads DEF SourceTypes

\* What is left once all is marked: to consolidate, and to end.
LEMMA RestMoves ==
  ASSUME SourceInv, NEW p \in Importers, NEW pc \in {"offline", "seal"}, NEW r \in ReadRecord,
         r.pc # "idle", ReaderInv(r)'
  PROVE  \E new \in ReadRecord : new = [r EXCEPT !.pc = pc] /\ ReaderInv(new)'
<1>1. PICK q, new : q \in Places /\ q = pc /\ new = Moved(r, q, r.todo, r.waiting)
  BY DEF Places
<1>2. r.todo \in SUBSET Nat /\ r.waiting \in SUBSET Nat
  BY DEF ReadRecord
<1>3. Moves(r, new, q, r.todo, r.waiting)
  BY <1>1, <1>2, MovedTyped
<1>4. new = [r EXCEPT !.pc = pc]
  BY <1>1 DEF Moved, ReadRecord
<1>5. ReaderInv(new)'
  BY <1>1, <1>3 DEF ReaderInv, Moves
<1>6. QED
  BY <1>3, <1>4, <1>5 DEF Moves

LEMMA CursorStep ==
  ASSUME SourceInv, NEW p \in Importers, Source!Cursor(p)
  PROVE  SourceInv'
<1>1. UNCHANGED <<source, events, settled, neurons, rows, consolidated, sfaults>>
  BY DEF Source!Cursor
<1>2. Adds /\ SourceTypes
  BY <1>1 DEF Adds, SourceInv
<1>3. PICK r \in ReadRecord : /\ r = reader[p] /\ ReaderInv(r) /\ ReaderInv(r)'
                              /\ \A i : Source!AnchorOf(p, i) = AnchorAt(r, i)
                              /\ r.todo # {} => Source!First(p) \in r.todo
  BY <1>1, <1>2, SourceKeepsReader
<1>4. PICK pc \in {"offline", "seal"} : pc = IF r.pending # {} THEN "offline" ELSE "seal"
  OBVIOUS
<1>5. Source!Step(p, [r EXCEPT !.pc = pc]) /\ r.pc # "idle"
  BY <1>3, <1>4 DEF Source!Cursor
<1>6. \E new \in ReadRecord : Source!Step(p, new) /\ ReaderInv(new)'
  BY <1>3, <1>5, RestMoves
<1>7. Source!MarkedIsImported'
  BY <1>1, <1>2, MarkedStays DEF SourceInv
<1>8. QED
  BY <1>1, <1>2, <1>6, <1>7, OneReads DEF SourceTypes

LEMMA OfflineStep ==
  ASSUME SourceInv, NEW p \in Importers, Source!Offline(p)
  PROVE  SourceInv'
<1>1. /\ UNCHANGED <<source, events, settled, neurons, rows, sfaults>>
      /\ consolidated' = consolidated \cup (neurons \cap reader[p].window)
  BY DEF Source!Offline
<1>2. Adds /\ SourceTypes
  BY <1>1 DEF Adds, SourceInv
<1>3. PICK r \in ReadRecord : /\ r = reader[p] /\ ReaderInv(r) /\ ReaderInv(r)'
                              /\ \A i : Source!AnchorOf(p, i) = AnchorAt(r, i)
                              /\ r.todo # {} => Source!First(p) \in r.todo
  BY <1>1, <1>2, SourceKeepsReader
<1>4. Source!Step(p, [r EXCEPT !.pc = "seal"]) /\ r.pc # "idle"
  BY <1>3 DEF Source!Offline
<1>5. \E new \in ReadRecord : Source!Step(p, new) /\ ReaderInv(new)'
  BY <1>3, <1>4, RestMoves
<1>6. Source!MarkedIsImported'
  BY <1>1, <1>2, MarkedStays DEF SourceInv
<1>7. consolidated' \subseteq neurons'
  BY <1>1, <1>2 DEF SourceTypes
<1>8. QED
  BY <1>1, <1>2, <1>5, <1>6, <1>7, OneReads DEF SourceTypes

LEMMA IdleIs == Source!Idle \in ReadRecord /\ Source!Idle.pc = "idle" /\ (source' \in Seq(Messages) => ReaderInv(Source!Idle)')
<1>1. Source!Idle \in ReadRecord
  BY DEF Source!Idle, ReadRecord
<1>2. /\ Source!Idle.pc = "idle" /\ Source!Idle.snap = <<>> /\ Source!Idle.todo = {} /\ Source!Idle.waiting = {}
      /\ Source!Idle.pending = {} /\ Source!Idle.reindex = FALSE
  BY DEF Source!Idle
<1>3. ASSUME source' \in Seq(Messages) PROVE ReaderInv(Source!Idle)'
  <2>1. Len(<<>>) = 0 /\ Len(source') \in Nat
    BY <1>3
  <2>2. QED
    BY <1>2, <2>1 DEF ReaderInv
<1>4. QED
  BY <1>1, <1>2, <1>3

\* A run ends, or is ended.
LEMMA SourceFinishStep ==
  ASSUME SourceInv, NEW p \in Importers, Source!Finish(p)
  PROVE  SourceInv'
<1>1. UNCHANGED <<source, events, settled, neurons, rows, consolidated, sfaults>> /\ Source!Step(p, Source!Idle)
  BY DEF Source!Finish
<1>2. Adds /\ SourceTypes /\ source' \in Seq(Messages)
  BY <1>1 DEF Adds, SourceInv, SourceTypes
<1>3. Source!MarkedIsImported'
  BY <1>1, <1>2, MarkedStays DEF SourceInv
<1>4. Source!Idle \in ReadRecord /\ ReaderInv(Source!Idle)'
  BY <1>2, IdleIs
<1>5. QED
  BY <1>1, <1>2, <1>3, <1>4, OneReads DEF SourceTypes

LEMMA StopStep ==
  ASSUME SourceInv, NEW p \in Importers, Source!Stop(p)
  PROVE  SourceInv'
<1>1. UNCHANGED <<source, events, neurons, rows, consolidated>> /\ Source!Step(p, Source!Idle)
  BY DEF Source!Stop
<1>2. SourceTypes
  BY DEF SourceInv
<1>3. settled \subseteq settled' /\ settled' \subseteq events
  <2>1. \A i : Source!EventsOf(Source!AnchorOf(p, i)) \subseteq events
    BY DEF Source!EventsOf
  <2>2. PICK overdue : settled' = settled \cup UNION {Source!EventsOf(Source!AnchorOf(p, i)) : i \in overdue}
    BY DEF Source!Stop
  <2>3. QED
    BY <1>2, <2>1, <2>2 DEF SourceTypes
<1>4. sfaults' \in 0..MaxStops
  BY <1>2, Sourcing DEF Source!Stop, SourceTypes, Source!ImportAssumption
<1>5. Adds /\ source' \in Seq(Messages)
  BY <1>1, <1>2, <1>3 DEF Adds, SourceTypes
<1>6. Source!MarkedIsImported'
  BY <1>1, <1>5, MarkedStays DEF SourceInv
<1>7. Source!Idle \in ReadRecord /\ ReaderInv(Source!Idle)'
  BY <1>5, IdleIs
<1>8. QED
  BY <1>1, <1>2, <1>3, <1>4, <1>5, <1>6, <1>7, OneReads DEF SourceTypes

\* What a line more leaves of a file.
LEMMA Grown ==
  ASSUME source \in Seq(Messages), Source!IsInjective(source), NEW t \in Messages, Source!Grow(t)
  PROVE  ReadsOn /\ Source!IsInjective(source)' /\ Len(source') = Len(source) + 1
<1>1. source' = Append(source, t) /\ \A i \in 1..Len(source) : source[i] # t
  BY DEF Source!Grow, Source!Range
<1>2. /\ source' \in Seq(Messages) /\ Len(source) \in Nat /\ Len(source') = Len(source) + 1
      /\ \A i \in 1..Len(source) : source'[i] = source[i]
      /\ source'[Len(source) + 1] = t
  BY <1>1
<1>3. \A i, j \in 1..Len(source) : source[i] = source[j] => i = j
  BY DEF Source!IsInjective
<1>4. \A i, j \in 1..Len(source') : source'[i] = source'[j] => i = j
  <2>1. \A i \in 1..Len(source') : i \in 1..Len(source) \/ i = Len(source) + 1
    BY <1>2
  <2>2. QED
    BY <1>1, <1>2, <1>3, <2>1
<1>5. Source!IsInjective(source')
  BY <1>2, <1>4 DEF Source!IsInjective
<1>6. QED
  BY <1>2, <1>5 DEF ReadsOn, Source!IsInjective

LEMMA SourceGrowStep ==
  ASSUME SourceInv, NEW t \in Messages, Source!Grow(t)
  PROVE  SourceInv'
<1>1. UNCHANGED <<events, settled, neurons, rows, consolidated, reader, sfaults>>
  BY DEF Source!Grow
<1>2. SourceTypes
  BY DEF SourceInv
<1>3. ReadsOn /\ Source!IsInjective(source)' /\ Adds
  BY <1>1, <1>2, Grown DEF Adds, SourceTypes
<1>4. ASSUME NEW p \in Importers PROVE ReaderInv(reader[p])'
  <2>1. PICK r \in ReadRecord : r = reader[p]
    BY <1>2 DEF SourceTypes
  <2>2. ReaderInv(r) /\ source \in Seq(Messages)
    BY <1>2, <2>1 DEF SourceInv, SourceTypes
  <2>3. ReaderInv(r)'
    BY <1>3, <2>2, ReaderStays
  <2>4. reader'[p] = r
    BY <1>1, <2>1
  <2>5. QED
    BY <2>3, <2>4 DEF ReaderInv, Settles, AnchorAt
<1>5. Source!MarkedIsImported'
  BY <1>1, <1>3, MarkedStays DEF SourceInv
<1>6. SourceTypes'
  BY <1>1, <1>2, <1>3 DEF SourceTypes, ReadsOn
<1>7. QED
  BY <1>4, <1>5, <1>6 DEF SourceInv

-----------------------------------------------------------------------------
(* The theorems.                                                             *)

LEMMA SourceInit == Source!Init => SourceInv
<1> SUFFICES ASSUME Source!Init PROVE SourceInv
  OBVIOUS
<1>1. PICK t \in Messages : source = <<t>>
  BY DEF Source!Init
<1>2. source \in Seq(Messages) /\ Len(source) = 1 /\ Source!IsInjective(source)
  BY <1>1 DEF Source!IsInjective
<1>3. Source!Idle \in ReadRecord
  BY IdleIs
<1>4. reader \in [Importers -> ReadRecord] /\ \A p \in Importers : reader[p] = Source!Idle
  BY <1>3 DEF Source!Init
<1>5. sfaults \in 0..MaxStops
  BY Sourcing DEF Source!Init, Source!ImportAssumption
<1>6. SourceTypes
  BY <1>2, <1>4, <1>5 DEF SourceTypes, Source!Init
<1>7. ReaderInv(Source!Idle)
  <2>1. /\ Source!Idle.pc = "idle" /\ Source!Idle.snap = <<>> /\ Source!Idle.todo = {} /\ Source!Idle.waiting = {}
        /\ Source!Idle.pending = {} /\ Source!Idle.reindex = FALSE
    BY DEF Source!Idle
  <2>2. QED
    BY <1>2, <2>1 DEF ReaderInv
<1>8. \A p \in Importers : ReaderInv(reader[p])
  BY <1>4, <1>7
<1>9. QED
  BY <1>6, <1>8 DEF SourceInv, Source!MarkedIsImported, Source!Init

LEMMA SourceNext == SourceInv /\ [Source!Next]_(Source!vars) => SourceInv'
<1> SUFFICES ASSUME SourceInv, [Source!Next]_(Source!vars) PROVE SourceInv'
  OBVIOUS
<1>1. ASSUME NEW t \in Messages, Source!Grow(t) PROVE SourceInv'
  BY <1>1, SourceGrowStep
<1>2. ASSUME NEW p \in Importers, NEW w \in Windows, NEW reindex \in BOOLEAN, Source!Start(p, w, reindex)
      PROVE  SourceInv'
  BY <1>2, SourceStartStep
<1>3. ASSUME NEW p \in Importers,
             \/ Source!Look(p) \/ Source!AppendRaw(p) \/ Source!Assemble(p) \/ Source!Ingest(p) \/ Source!Mark(p)
             \/ Source!Cursor(p) \/ Source!Offline(p) \/ Source!Finish(p) \/ Source!Stop(p)
      PROVE  SourceInv'
  BY <1>3, SourceLookStep, SourceAppendRawStep, SourceAssembleStep, IngestStep, SourceMarkStep, CursorStep, OfflineStep,
     SourceFinishStep, StopStep
<1>4. CASE UNCHANGED Source!vars
  <2>1. Source!MarkedIsImported' /\ SourceTypes'
    <3>1. UNCHANGED <<source, events, settled, neurons, rows, consolidated, reader, sfaults>>
      BY <1>4 DEF Source!vars
    <3>2. QED
      BY <3>1 DEF SourceInv, Source!MarkedIsImported, SourceTypes, Source!IsInjective
  <2>2. ASSUME NEW p \in Importers PROVE ReaderInv(reader[p])'
    <3>1. source \in Seq(Messages) /\ Adds /\ UNCHANGED <<source, reader>>
      BY <1>4 DEF Source!vars, SourceInv, SourceTypes, Adds
    <3>2. ReadsOn
      BY <3>1 DEF ReadsOn
    <3>3. PICK r \in ReadRecord : r = reader[p]
      BY DEF SourceInv, SourceTypes
    <3>4. ReaderInv(r)
      BY <3>3 DEF SourceInv
    <3>5. ReaderInv(r)'
      BY <3>1, <3>2, <3>4, ReaderStays
    <3>6. reader'[p] = r
      BY <3>1, <3>3
    <3>7. QED
      BY <3>5, <3>6 DEF ReaderInv, Settles, AnchorAt
  <2>3. QED
    BY <2>1, <2>2 DEF SourceInv
<1>5. QED
  BY <1>1, <1>2, <1>3, <1>4 DEF Source!Next

THEOREM SourceHolds == Source!Spec => []SourceInv
  BY SourceInit, SourceNext, PTL DEF Source!Spec

\* A record that later runs skip was imported to the end, wherever earlier runs failed
\* (BatchIngestor, markRecordProcessed).
THEOREM MarkedHolds == Source!Spec => []Source!MarkedIsImported
<1>1. SourceInv => Source!MarkedIsImported
  BY DEF SourceInv
<1>2. QED
  BY <1>1, SourceHolds, PTL

\* Every variable keeps its type; what a run read is how the file began.
LEMMA SourcePrefixIs ==
  ASSUME NEW s \in Seq(Messages), NEW t \in Seq(Messages), Len(s) <= Len(t),
         \A i \in 1..Len(s) : s[i] = t[i]
  PROVE  s = SubSeq(t, 1, Len(s))
<1>1. Len(s) \in Nat /\ Len(t) \in Nat
  OBVIOUS
<1>2. SubSeq(s, 1, Len(s)) = [i \in 1..Len(s) |-> s[i]]
  BY <1>1
<1>3. SubSeq(t, 1, Len(s)) = [i \in 1..Len(s) |-> t[i]]
  BY <1>1
<1>4. QED
  BY <1>1, <1>3

THEOREM SourceTyped == Source!Spec => []Source!TypeOK
<1>1. SourceInv => Source!TypeOK
  <2> SUFFICES ASSUME SourceInv PROVE Source!TypeOK
    OBVIOUS
  <2>1. ASSUME NEW p \in Importers
        PROVE  /\ reader[p].pc \in Places /\ reader[p].todo \cup reader[p].waiting \subseteq reader[p].pending
               /\ reader[p].pending \subseteq DOMAIN reader[p].snap /\ reader[p].snap = SubSeq(source, 1, Len(reader[p].snap))
    <3>1. PICK r \in ReadRecord : r = reader[p]
      BY DEF SourceInv, SourceTypes
    <3>2. ReaderInv(r) /\ source \in Seq(Messages)
      BY <3>1 DEF SourceInv, SourceTypes
    <3>3. r.pc \in Places /\ r.snap \in Seq(Messages)
      BY DEF ReadRecord, Places
    <3>4. r.snap = SubSeq(source, 1, Len(r.snap))
      BY <3>2, <3>3, SourcePrefixIs DEF ReaderInv
    <3>5. r.pending \subseteq DOMAIN r.snap /\ r.todo \cup r.waiting \subseteq r.pending
      BY <3>2, <3>3 DEF ReaderInv
    <3>6. QED
      BY <3>1, <3>3, <3>4, <3>5
  <2>2. {neurons, consolidated} \subseteq SUBSET Messages
    BY DEF SourceInv, SourceTypes
  <2>3. QED
    BY <2>1, <2>2 DEF SourceInv, SourceTypes, Source!TypeOK, Places
<1>2. QED
  BY <1>1, SourceHolds, PTL

-----------------------------------------------------------------------------
(* Messages with a time, read by runs over one window.                       *)

\* The one event a dated line can become: neither the mtime nor the part of the file
\* that was read is in its anchor.
EventAt(lines, w, i) == <<<<Source!HashOf(lines, i), i, Source!Ordinal(lines, w, i)>>, 1>>

DatedInv(w) ==
  /\ \A e \in events : e[1][1][1] \notin Undated =>
       \E i \in 1..Len(source) : e = EventAt(source, w, i) /\ e[1][1][1] = source[i]
  /\ \A p \in Importers : reader[p].pc # "idle" => reader[p].window = w

LEMMA EventStays ==
  ASSUME NEW lines \in Seq(Messages), NEW others \in Seq(Messages), NEW w, NEW i \in 1..Len(lines),
         Len(lines) <= Len(others), \A j \in 1..Len(lines) : lines[j] = others[j],
         lines[i] \notin Undated
  PROVE  EventAt(others, w, i) = EventAt(lines, w, i) /\ others[i] = lines[i]
<1>1. Source!HashOf(others, i) = Source!HashOf(lines, i) /\ others[i] = lines[i]
  BY DEF Source!HashOf
<1>2. i \in Nat /\ i <= Len(lines) /\ i <= Len(others) /\ \A j \in 1..i : others[j] = lines[j]
  <2>1. Len(lines) \in Nat /\ Len(others) \in Nat
    OBVIOUS
  <2>2. QED
    BY <2>1
<1>3. Source!Ordinal(others, w, i) = Source!Ordinal(lines, w, i)
  BY <1>2, OrdinalSame
<1>4. QED
  BY <1>1, <1>3 DEF EventAt

LEMMA DatedGrow ==
  ASSUME SourceInv, NEW w, DatedInv(w), NEW t \in Messages, Source!Grow(t)
  PROVE  DatedInv(w)'
<1>1. source \in Seq(Messages) /\ Source!IsInjective(source)
  BY DEF SourceInv, SourceTypes
<1>2. ReadsOn /\ UNCHANGED <<events, reader>>
  BY <1>1, Grown DEF Source!Grow
<1>3. ASSUME NEW e \in events, e[1][1][1] \notin Undated
      PROVE  \E i \in 1..Len(source') : e = EventAt(source', w, i) /\ e[1][1][1] = source'[i]
  <2>1. PICK i \in 1..Len(source) : e = EventAt(source, w, i) /\ e[1][1][1] = source[i]
    BY <1>3 DEF DatedInv
  <2>2. EventAt(source', w, i) = EventAt(source, w, i) /\ source'[i] = source[i]
    BY <1>1, <1>2, <1>3, <2>1, EventStays DEF ReadsOn
  <2>3. i \in 1..Len(source')
    BY <1>1, <1>2 DEF ReadsOn
  <2>4. QED
    BY <2>1, <2>2, <2>3
<1>4. QED
  BY <1>2, <1>3 DEF DatedInv

LEMMA DatedAppend ==
  ASSUME SourceInv, NEW w, DatedInv(w), NEW p \in Importers, Source!AppendRaw(p)
  PROVE  \A e \in events' : e[1][1][1] \notin Undated =>
           \E i \in 1..Len(source) : e = EventAt(source, w, i) /\ e[1][1][1] = source[i]
<1>1. PICK r \in ReadRecord : /\ r = reader[p] /\ ReaderInv(r) /\ r.pc = "append"
                              /\ \A i : Source!AnchorOf(p, i) = AnchorAt(r, i)
                              /\ r.todo # {} => Source!First(p) \in r.todo
  BY ReaderTypes DEF Source!AppendRaw
<1>2. PICK i \in 1..Len(r.snap) : i = Source!First(p)
  BY <1>1 DEF ReaderInv
<1>3. events' \subseteq events \cup {<<AnchorAt(r, i), 1>>} /\ r.window = w
  BY <1>1, <1>2 DEF Source!AppendRaw, Source!Appended, DatedInv
<1>4. /\ source \in Seq(Messages) /\ r.snap \in Seq(Messages) /\ Len(r.snap) <= Len(source)
      /\ \A j \in 1..Len(r.snap) : r.snap[j] = source[j]
  BY <1>1 DEF SourceInv, SourceTypes, ReaderInv, ReadRecord
<1>5. <<AnchorAt(r, i), 1>> = EventAt(r.snap, w, i)
  BY <1>3 DEF AnchorAt, EventAt
<1>6. AnchorAt(r, i)[1][1] = r.snap[i]
  BY <1>1, AnchorTyped DEF SourceInv
<1>7. i \in 1..Len(source)
  BY <1>4
<1>8. ASSUME r.snap[i] \notin Undated
      PROVE  EventAt(source, w, i) = EventAt(r.snap, w, i) /\ source[i] = r.snap[i]
  BY <1>4, <1>8, EventStays
<1>9. ASSUME NEW e \in events', e[1][1][1] \notin Undated
      PROVE  \E j \in 1..Len(source) : e = EventAt(source, w, j) /\ e[1][1][1] = source[j]
  <2>1. CASE e \in events
    BY <1>9, <2>1 DEF DatedInv
  <2>2. CASE e = <<AnchorAt(r, i), 1>>
    <3>1. e[1][1][1] = r.snap[i]
      BY <1>6, <2>2
    <3>2. QED
      BY <1>5, <1>7, <1>8, <1>9, <2>2, <3>1
  <2>3. QED
    BY <1>3, <2>1, <2>2
<1>10. QED
  BY <1>9

LEMMA DatedNext == \A w : SourceInv /\ DatedInv(w) /\ [Source!NextOver(w)]_(Source!vars) => DatedInv(w)'
<1> SUFFICES ASSUME NEW w, SourceInv, DatedInv(w), [Source!NextOver(w)]_(Source!vars) PROVE DatedInv(w)'
  OBVIOUS
<1>1. ASSUME NEW t \in Messages, Source!Grow(t) PROVE DatedInv(w)'
  BY <1>1, DatedGrow
<1>2. ASSUME UNCHANGED source, \A p \in Importers : reader'[p].pc # "idle" => reader'[p].window = w,
             \/ UNCHANGED events \/ \E p \in Importers : Source!AppendRaw(p)
      PROVE  DatedInv(w)'
  <2>1. \A e \in events' : e[1][1][1] \notin Undated =>
          \E i \in 1..Len(source) : e = EventAt(source, w, i) /\ e[1][1][1] = source[i]
    <3>1. CASE UNCHANGED events
      BY <3>1 DEF DatedInv
    <3>2. CASE \E p \in Importers : Source!AppendRaw(p)
      BY <3>2, DatedAppend
    <3>3. QED
      BY <1>2, <3>1, <3>2
  <2>2. QED
    BY <1>2, <2>1 DEF DatedInv
<1>3. CASE Source!NextOver(w)
  <2>1. \/ \E t \in Messages : Source!Grow(t)
        \/ UNCHANGED source /\ (UNCHANGED events \/ \E p \in Importers : Source!AppendRaw(p))
    BY <1>3 DEF Source!NextOver, Source!Next, Source!Start, Source!Look, Source!AppendRaw, Source!Assemble, Source!Ingest, Source!Mark, Source!Cursor, Source!Offline,
                Source!Finish, Source!Stop
  <2>2. QED
    BY <1>1, <1>2, <1>3, <2>1 DEF Source!NextOver
<1>4. CASE UNCHANGED Source!vars
  BY <1>2, <1>4 DEF Source!vars, DatedInv
<1>5. QED
  BY <1>3, <1>4

LEMMA DatedFollows == \A w : SourceInv /\ DatedInv(w) => Source!DatedOnce
<1> SUFFICES ASSUME NEW w, SourceInv, DatedInv(w), NEW t \in Messages \ Undated
             PROVE  Cardinality({e \in events : e[1][1][1] = t}) <= 1
  BY SourceCount DEF Source!DatedOnce
<1> DEFINE E == {e \in events : e[1][1][1] = t}
<1>1. \A a, b \in 1..Len(source) : source[a] = source[b] => a = b
  BY DEF SourceInv, SourceTypes, Source!IsInjective
<1>2. \A e \in E : \E i \in 1..Len(source) : e = EventAt(source, w, i) /\ source[i] = t
  BY DEF DatedInv
<1>3. \A e, f \in E : e = f
  BY <1>1, <1>2
<1> HIDE DEF E
<1>4. CASE E = {}
  BY <1>4, FS_EmptySet DEF E
<1>5. CASE E # {}
  <2>1. PICK e \in E : TRUE
    BY <1>5
  <2>2. E = {e}
    BY <1>3, <2>1
  <2>3. Cardinality({e}) = 1
    BY FS_Singleton
  <2>4. Cardinality(E) <= 1
    BY <2>2, <2>3
  <2>5. QED
    BY <2>4 DEF E
<1>6. QED
  BY <1>4, <1>5

\* A message in a line with a time is one raw event, however its file grew and whatever
\* was imported again, at once or cut short, when every run reads one window.
THEOREM DatedHolds == ASSUME NEW CONSTANT w PROVE Source!SpecOver(w) => []Source!DatedOnce
<1>1. Source!Init => SourceInv /\ DatedInv(w)
  <2>1. Source!Init => DatedInv(w)
    BY IdleIs DEF Source!Init, DatedInv
  <2>2. QED
    BY <2>1, SourceInit
<1>2. SourceInv /\ DatedInv(w) /\ [Source!NextOver(w)]_(Source!vars) => SourceInv' /\ DatedInv(w)'
  <2>1. [Source!NextOver(w)]_(Source!vars) => [Source!Next]_(Source!vars)
    BY DEF Source!NextOver
  <2>2. QED
    BY <2>1, SourceNext, DatedNext
<1>3. SourceInv /\ DatedInv(w) => Source!DatedOnce
  BY DatedFollows
<1>4. QED
  BY <1>1, <1>2, <1>3, PTL DEF Source!SpecOver

-----------------------------------------------------------------------------
(* The remember queue.                                                      *)

QueuePlaces == {"off", "recover", "lock", "stale", "open", "drain", "close"}

\* A line that is still to be tried, a file of them, and the records of the processes.
OpenLine == [job : Jobs, attempts : 0..MaxAttempts-1]
OpenFile == [there : BOOLEAN, lines : Seq(OpenLine), mtime : 0..MaxClock]
HostRec  == [pc : {"idle", "opened", "queued", "stale", "spawning"},
             job : Jobs \cup {Queue!Nobody}, at : {"queue", Queue!Nobody} \cup Drainers]
DrainRec == [pc : QueuePlaces, todo : Seq(OpenLine), rest : Seq(OpenLine),
             takes : Drainers \cup {Queue!Nobody}, parent : Hosts \cup {Queue!Nobody}]

LockRec  == [held : BOOLEAN, mtime : 0..MaxClock]

QueueTypes ==
  /\ queue \in OpenFile /\ processing \in [Drainers -> OpenFile]
  /\ dead \subseteq Queue!Line /\ \A l \in dead : l.attempts = MaxAttempts
  /\ ~queue.there => queue = Queue!NoFile
  /\ \A d \in Drainers : ~processing[d].there => processing[d] = Queue!NoFile
  /\ lock \in LockRec /\ spawnLock \in LockRec
  /\ host \in [Hosts -> HostRec] /\ drainer \in [Drainers -> DrainRec]
  /\ queued \subseteq Jobs /\ times \in [Jobs -> 0..2] /\ late \in BOOLEAN
  /\ deaths \in 0..MaxDeaths /\ torn \in 0..MaxTorn /\ clock \in 0..MaxClock

Before == {"recover", "lock", "stale", "open"}

\* What a drainer still has to do, and whose file another one has put back.
Held(r)  == Queue!JobsIn(r.todo) \cup Queue!JobsIn(r.rest)
Taken(f) == \E e \in Drainers : drainer[e].takes = f

\* Before it has renamed the queue a drainer has no file; an append that is under way
\* goes to a file that is there.
PlaceInv ==
  /\ \A d \in Drainers :
       /\ drainer[d].pc \in Before =>
            ~processing[d].there /\ ~Taken(d)
       /\ drainer[d].pc # "drain" => drainer[d].todo = <<>> /\ drainer[d].rest = <<>>
  /\ \A h \in Hosts : host[h].at \in Drainers => processing[host[h].at].there
  /\ \A h \in Hosts : host[h].pc = "opened" => torn > 0 /\ host[h].job \in Jobs

\* While the timeout has not gone by, who may spawn or was spawned is alone, under the
\* spawn lock.
SoleInv ==
  clock = 0 =>
    /\ \A h \in Hosts : host[h].pc # "stale" /\ (host[h].pc = "spawning" => spawnLock.held)
    /\ \A d \in Drainers : drainer[d].pc # "stale" /\ (drainer[d].pc # "off" => spawnLock.held)
    /\ \A h, g \in Hosts : host[h].pc = "spawning" /\ host[g].pc = "spawning" => h = g
    /\ \A d, e \in Drainers : drainer[d].pc # "off" /\ drainer[e].pc # "off" => d = e
    /\ \A h \in Hosts, d \in Drainers : host[h].pc = "spawning" => drainer[d].pc = "off"
    /\ \A d \in Drainers : drainer[d].pc \in {"open", "drain"} => lock.held

Distinct(lines) == \A a, b \in DOMAIN lines : lines[a].job = lines[b].job => a = b

\* In the ordinary run a turn is in one line, or was recorded, and not both.
OnceInv ==
  clock = 0 /\ deaths = 0 /\ ~late =>
    /\ Distinct(queue.lines) /\ Queue!JobsIn(queue.lines) \subseteq queued
    /\ \A d \in Drainers :
         /\ Distinct(drainer[d].todo) /\ Distinct(drainer[d].rest)
         /\ Queue!JobsIn(drainer[d].todo) \cap Queue!JobsIn(drainer[d].rest) = {}
         /\ Held(drainer[d]) \cap Queue!JobsIn(queue.lines) = {} /\ Held(drainer[d]) \subseteq queued
    /\ \A j \in Jobs :
         /\ times[j] <= 1
         /\ times[j] = 1 => /\ j \in queued /\ j \notin Queue!JobsIn(queue.lines)
                            /\ \A d \in Drainers : j \notin Held(drainer[d])
    /\ \A h, g \in Hosts : /\ host[h].job \notin queued
                           /\ host[h].job = host[g].job /\ host[h].job \in Jobs => h = g

\* Whose turns a processing file alone stands for: those its drainer has not done, unless
\* the file was put back into the queue and is about to be removed.
Owed(g) == {j \in Queue!JobsIn(processing[g].lines) :
              ~Taken(g) /\ (drainer[g].pc = "drain" => j \in Held(drainer[g]))}

Somewhere(j) == \/ times[j] > 0 \/ \E l \in dead : l.job = j
                \/ j \in Queue!JobsIn(queue.lines)
                \/ \E g \in Drainers : j \in Owed(g)

OwedInv == torn = 0 => \A j \in queued : Somewhere(j)

QueueInv == QueueTypes /\ PlaceInv /\ SoleInv /\ OnceInv /\ OwedInv

-----------------------------------------------------------------------------
(* Lines.                                                                    *)

LEMMA LinesJoined ==
  ASSUME NEW s \in Seq(OpenLine), NEW t \in Seq(OpenLine)
  PROVE  /\ s \o t \in Seq(OpenLine)
         /\ Queue!JobsIn(s \o t) = Queue!JobsIn(s) \cup Queue!JobsIn(t)
         /\ Distinct(s) /\ Distinct(t) /\ Queue!JobsIn(s) \cap Queue!JobsIn(t) = {} => Distinct(s \o t)
<1>1. /\ s \o t \in Seq(OpenLine) /\ Len(s) \in Nat /\ Len(t) \in Nat
      /\ Len(s \o t) = Len(s) + Len(t)
      /\ \A i \in 1..Len(s) : (s \o t)[i] = s[i]
      /\ \A i \in 1..Len(t) : (s \o t)[Len(s) + i] = t[i]
  OBVIOUS
<1> DEFINE u == s \o t
<1> HIDE DEF u
<1>2. \A i \in 1..Len(u) : i \in 1..Len(s) \/ \E k \in 1..Len(t) : i = Len(s) + k
  <2>1. ASSUME NEW i \in 1..Len(u), i \notin 1..Len(s) PROVE \E k \in 1..Len(t) : i = Len(s) + k
    <3>1. i - Len(s) \in 1..Len(t) /\ i = Len(s) + (i - Len(s))
      BY <1>1, <2>1 DEF u
    <3>2. QED
      BY <3>1
  <2>2. QED
    BY <2>1
<1>3. /\ \A i \in 1..Len(s) : i \in 1..Len(u)
      /\ \A k \in 1..Len(t) : Len(s) + k \in 1..Len(u)
  BY <1>1 DEF u
<1>4. Queue!JobsIn(u) = Queue!JobsIn(s) \cup Queue!JobsIn(t)
  <2>1. \A j : j \in Queue!JobsIn(u) <=> \E i \in 1..Len(u) : u[i].job = j
    BY <1>1 DEF Queue!JobsIn, u
  <2>2. \A j : j \in Queue!JobsIn(s) <=> \E i \in 1..Len(s) : s[i].job = j
    BY DEF Queue!JobsIn
  <2>3. \A j : j \in Queue!JobsIn(t) <=> \E i \in 1..Len(t) : t[i].job = j
    BY DEF Queue!JobsIn
  <2>4. /\ \A i \in 1..Len(s) : u[i] = s[i]
        /\ \A i \in 1..Len(t) : u[Len(s) + i] = t[i]
    BY <1>1 DEF u
  <2>5. \A j : j \in Queue!JobsIn(u) <=> j \in Queue!JobsIn(s) \/ j \in Queue!JobsIn(t)
    <3>1. ASSUME NEW j, j \in Queue!JobsIn(u) PROVE j \in Queue!JobsIn(s) \/ j \in Queue!JobsIn(t)
      <4>1. PICK i \in 1..Len(u) : u[i].job = j
        BY <2>1, <3>1
      <4>2. CASE i \in 1..Len(s)
        BY <2>2, <2>4, <4>1, <4>2
      <4>3. ASSUME NEW k \in 1..Len(t), i = Len(s) + k PROVE j \in Queue!JobsIn(t)
        BY <2>3, <2>4, <4>1, <4>3
      <4>4. QED
        BY <1>2, <4>2, <4>3
    <3>2. ASSUME NEW j, j \in Queue!JobsIn(s) \/ j \in Queue!JobsIn(t) PROVE j \in Queue!JobsIn(u)
      BY <1>3, <2>1, <2>2, <2>3, <2>4, <3>2
    <3>3. QED
      BY <3>1, <3>2
  <2>6. QED
    BY <2>5
<1>5. ASSUME Distinct(s), Distinct(t), Queue!JobsIn(s) \cap Queue!JobsIn(t) = {} PROVE Distinct(u)
  <2>1. /\ \A i \in 1..Len(s) : u[i] = s[i] /\ s[i].job \in Queue!JobsIn(s)
        /\ \A i \in 1..Len(t) : u[Len(s) + i] = t[i] /\ t[i].job \in Queue!JobsIn(t)
        /\ DOMAIN u = 1..Len(u)
    BY <1>1 DEF u, Queue!JobsIn
  <2>2. /\ \A a, b \in 1..Len(s) : s[a].job = s[b].job => a = b
        /\ \A a, b \in 1..Len(t) : t[a].job = t[b].job => a = b
    BY <1>5 DEF Distinct
  <2>3. ASSUME NEW a \in 1..Len(u), NEW b \in 1..Len(u), u[a].job = u[b].job PROVE a = b
    <3>1. CASE a \in 1..Len(s) /\ b \in 1..Len(s)
      BY <2>1, <2>2, <2>3, <3>1
    <3>2. CASE a \in 1..Len(s) /\ b \notin 1..Len(s)
      <4>1. PICK k \in 1..Len(t) : b = Len(s) + k
        BY <1>2, <3>2
      <4>2. s[a].job = t[k].job
        BY <2>1, <2>3, <3>2, <4>1
      <4>3. QED
        BY <1>5, <2>1, <3>2, <4>2
    <3>3. CASE a \notin 1..Len(s) /\ b \in 1..Len(s)
      <4>1. PICK k \in 1..Len(t) : a = Len(s) + k
        BY <1>2, <3>3
      <4>2. s[b].job = t[k].job
        BY <2>1, <2>3, <3>3, <4>1
      <4>3. QED
        BY <1>5, <2>1, <3>3, <4>2
    <3>4. CASE a \notin 1..Len(s) /\ b \notin 1..Len(s)
      <4>1. PICK k \in 1..Len(t) : a = Len(s) + k
        BY <1>2, <3>4
      <4>2. PICK m \in 1..Len(t) : b = Len(s) + m
        BY <1>2, <3>4
      <4>3. t[k].job = t[m].job
        BY <2>1, <2>3, <4>1, <4>2
      <4>4. QED
        BY <2>2, <4>1, <4>2, <4>3
    <3>5. QED
      BY <3>1, <3>2, <3>3, <3>4
  <2>4. QED
    BY <2>1, <2>3 DEF Distinct
<1>6. QED
  BY <1>1, <1>4, <1>5 DEF u

LEMMA OneLine ==
  ASSUME NEW x \in OpenLine
  PROVE  <<x>> \in Seq(OpenLine) /\ Queue!JobsIn(<<x>>) = {x.job} /\ Distinct(<<x>>)
<1>1. <<x>> \in Seq(OpenLine) /\ DOMAIN <<x>> = {1} /\ <<x>>[1] = x
  OBVIOUS
<1>2. QED
  BY <1>1 DEF Queue!JobsIn, Distinct

LEMMA NoLines == <<>> \in Seq(OpenLine) /\ Queue!JobsIn(<<>>) = {} /\ Distinct(<<>>)
<1>1. <<>> \in Seq(OpenLine) /\ DOMAIN <<>> = {}
  OBVIOUS
<1>2. QED
  BY <1>1 DEF Queue!JobsIn, Distinct

LEMMA FirstLine ==
  ASSUME NEW s \in Seq(OpenLine), s # <<>>
  PROVE  /\ Head(s) \in OpenLine /\ Tail(s) \in Seq(OpenLine)
         /\ Queue!JobsIn(s) = {Head(s).job} \cup Queue!JobsIn(Tail(s))
         /\ Distinct(s) => Distinct(Tail(s)) /\ Head(s).job \notin Queue!JobsIn(Tail(s))
<1>1. /\ Head(s) \in OpenLine /\ Head(s) = s[1] /\ Tail(s) \in Seq(OpenLine)
      /\ Len(s) \in Nat /\ Len(s) >= 1 /\ Len(Tail(s)) = Len(s) - 1
      /\ \A i \in 1..Len(Tail(s)) : Tail(s)[i] = s[i + 1]
  OBVIOUS
<1>2. PICK t \in Seq(OpenLine) : t = Tail(s)
  BY <1>1
<1>3. /\ \A i \in 1..Len(t) : t[i] = s[i + 1] /\ i + 1 \in 1..Len(s)
      /\ \A i \in 1..Len(s) : i = 1 \/ (i - 1 \in 1..Len(t) /\ t[i - 1] = s[i])
      /\ 1 \in 1..Len(s)
  BY <1>1, <1>2
<1>4. /\ \A j : j \in Queue!JobsIn(s) <=> \E i \in 1..Len(s) : s[i].job = j
      /\ \A j : j \in Queue!JobsIn(t) <=> \E i \in 1..Len(t) : t[i].job = j
  BY DEF Queue!JobsIn
<1>5. Queue!JobsIn(s) = {s[1].job} \cup Queue!JobsIn(t)
  <2>1. ASSUME NEW j, j \in Queue!JobsIn(s) PROVE j = s[1].job \/ j \in Queue!JobsIn(t)
    BY <1>3, <1>4, <2>1
  <2>2. ASSUME NEW j, j \in Queue!JobsIn(t) PROVE j \in Queue!JobsIn(s)
    BY <1>3, <1>4, <2>2
  <2>3. s[1].job \in Queue!JobsIn(s)
    BY <1>3, <1>4
  <2>4. QED
    BY <2>1, <2>2, <2>3
<1>6. ASSUME Distinct(s) PROVE Distinct(t) /\ s[1].job \notin Queue!JobsIn(t)
  <2>1. \A a, b \in 1..Len(s) : s[a].job = s[b].job => a = b
    BY <1>6 DEF Distinct
  <2>2. \A a, b \in 1..Len(t) : t[a].job = t[b].job => a = b
    <3>1. ASSUME NEW a \in 1..Len(t), NEW b \in 1..Len(t), t[a].job = t[b].job PROVE a = b
      <4>1. /\ a + 1 \in 1..Len(s) /\ b + 1 \in 1..Len(s)
            /\ t[a] = s[a + 1] /\ t[b] = s[b + 1]
        BY <1>3
      <4>2. s[a + 1].job = s[b + 1].job
        BY <3>1, <4>1
      <4>3. a + 1 = b + 1
        BY <2>1, <4>1, <4>2
      <4>4. QED
        BY <4>3
    <3>2. QED
      BY <3>1
  <2>3. ASSUME NEW i \in 1..Len(t), t[i].job = s[1].job PROVE FALSE
    <3>1. i + 1 = 1
      BY <1>3, <2>1, <2>3
    <3>2. QED
      BY <3>1
  <2>4. QED
    BY <1>4, <2>2, <2>3 DEF Distinct
<1>7. QED
  BY <1>1, <1>2, <1>5, <1>6

\* A batch is done, the rest deferred, and nothing is both.
LEMMA LinesSplit ==
  ASSUME NEW s \in Seq(OpenLine)
  PROVE  /\ Queue!Batch(s) \in Seq(OpenLine) /\ Queue!Deferred(s) \in Seq(OpenLine)
         /\ Queue!JobsIn(s) = Queue!JobsIn(Queue!Batch(s)) \cup Queue!JobsIn(Queue!Deferred(s))
         /\ Distinct(s) => /\ Distinct(Queue!Batch(s)) /\ Distinct(Queue!Deferred(s))
                           /\ Queue!JobsIn(Queue!Batch(s)) \cap Queue!JobsIn(Queue!Deferred(s)) = {}
<1>1. PICK n \in Nat : n = Len(s)
  OBVIOUS
<1>2. BatchSize \in Nat /\ BatchSize >= 1
  BY Queueing DEF Queue!QueueAssumption
<1>3. PICK k \in Nat : k = IF n < BatchSize THEN n ELSE BatchSize
  BY <1>2
<1>4. PICK b, t : b = Queue!Batch(s) /\ t = Queue!Deferred(s)
  OBVIOUS
<1>5. b = SubSeq(s, 1, k) /\ t = SubSeq(s, BatchSize + 1, n) /\ k <= n
  BY <1>1, <1>2, <1>3, <1>4 DEF Queue!Batch, Queue!Deferred
<1>6. /\ b \in Seq(OpenLine) /\ Len(b) = k /\ \A i \in 1..k : b[i] = s[i]
  <2>1. \A i \in 1..k : s[i] \in OpenLine
    BY <1>1, <1>5
  <2>2. k \in Int /\ 1 \in Int /\ k - 1 + 1 = k
    OBVIOUS
  <2>3. /\ SubSeq(s, 1, k) \in Seq(OpenLine)
        /\ Len(SubSeq(s, 1, k)) = IF 1 <= k THEN k - 1 + 1 ELSE 0
        /\ \A i \in 1..k - 1 + 1 : SubSeq(s, 1, k)[i] = s[1 + i - 1]
    BY <2>1, <2>2, SubSeqProperties
  <2>4. QED
    BY <1>5, <2>2, <2>3
<1>7. PICK m \in Nat : m = IF BatchSize + 1 <= n THEN n - BatchSize ELSE 0
  <2>1. (IF BatchSize + 1 <= n THEN n - BatchSize ELSE 0) \in Nat
    BY <1>2
  <2>2. QED
    BY <2>1
<1>8. t \in Seq(OpenLine) /\ Len(t) = m /\ \A i \in 1..m : t[i] = s[BatchSize + i]
  <2>1. \A i \in BatchSize + 1..n : s[i] \in OpenLine
    BY <1>1, <1>2
  <2>2. BatchSize + 1 \in Int /\ n \in Int
    BY <1>2
  <2>3. /\ SubSeq(s, BatchSize + 1, n) \in Seq(OpenLine)
        /\ Len(SubSeq(s, BatchSize + 1, n)) =
             IF BatchSize + 1 <= n THEN n - (BatchSize + 1) + 1 ELSE 0
        /\ \A i \in 1..n - (BatchSize + 1) + 1 :
             SubSeq(s, BatchSize + 1, n)[i] = s[BatchSize + 1 + i - 1]
    BY <2>1, <2>2, SubSeqProperties
  <2>4. m = IF BatchSize + 1 <= n THEN n - (BatchSize + 1) + 1 ELSE 0
    BY <1>2, <1>7
  <2>5. \A i \in 1..m : i \in 1..n - (BatchSize + 1) + 1 /\ BatchSize + 1 + i - 1 = BatchSize + i
    BY <1>2, <1>7
  <2>6. QED
    BY <1>5, <2>3, <2>4, <2>5
<1>9. /\ \A i \in 1..k : i \in 1..n
      /\ \A i \in 1..m : BatchSize + i \in 1..n
      /\ \A i \in 1..n : i \in 1..k \/ (i - BatchSize \in 1..m /\ BatchSize + (i - BatchSize) = i)
      /\ \A i \in 1..k, j \in 1..m : i # BatchSize + j
  <2>1. \/ n < BatchSize /\ k = n /\ m = 0
        \/ n >= BatchSize /\ k = BatchSize /\ m = n - BatchSize
    <3>1. CASE n < BatchSize
      BY <1>2, <1>3, <1>7, <3>1
    <3>2. CASE n >= BatchSize
      <4>1. k = BatchSize
        BY <1>2, <1>3, <3>2
      <4>2. m = n - BatchSize
        BY <1>2, <1>7, <3>2
      <4>3. QED
        BY <3>2, <4>1, <4>2
    <3>3. QED
      BY <1>2, <3>1, <3>2
  <2>2. \A i \in 1..k : i \in 1..n
    BY <1>2, <2>1
  <2>3. \A i \in 1..m : BatchSize + i \in 1..n
    BY <1>2, <2>1
  <2>4. \A i \in 1..n : i \in 1..k \/ (i - BatchSize \in 1..m /\ BatchSize + (i - BatchSize) = i)
    BY <1>2, <2>1
  <2>5. \A i \in 1..k, j \in 1..m : i # BatchSize + j
    BY <1>2, <2>1
  <2>6. QED
    BY <2>2, <2>3, <2>4, <2>5
<1>10. /\ \A j : j \in Queue!JobsIn(s) <=> \E i \in 1..n : s[i].job = j
       /\ \A j : j \in Queue!JobsIn(b) <=> \E i \in 1..k : b[i].job = j
       /\ \A j : j \in Queue!JobsIn(t) <=> \E i \in 1..m : t[i].job = j
  BY <1>1, <1>6, <1>8 DEF Queue!JobsIn
<1>11. Queue!JobsIn(s) = Queue!JobsIn(b) \cup Queue!JobsIn(t)
  <2>1. ASSUME NEW j, j \in Queue!JobsIn(s) PROVE j \in Queue!JobsIn(b) \/ j \in Queue!JobsIn(t)
    <3>1. PICK i \in 1..n : s[i].job = j
      BY <1>10, <2>1
    <3>2. CASE i \in 1..k
      BY <1>6, <1>10, <3>1, <3>2
    <3>3. CASE i - BatchSize \in 1..m /\ BatchSize + (i - BatchSize) = i
      <4>1. t[i - BatchSize] = s[i]
        BY <1>8, <3>3
      <4>2. QED
        BY <1>10, <3>1, <3>3, <4>1
    <3>4. QED
      BY <1>9, <3>2, <3>3
  <2>2. ASSUME NEW j, j \in Queue!JobsIn(b) PROVE j \in Queue!JobsIn(s)
    BY <1>6, <1>9, <1>10, <2>2
  <2>3. ASSUME NEW j, j \in Queue!JobsIn(t) PROVE j \in Queue!JobsIn(s)
    <3>1. PICK i \in 1..m : t[i].job = j
      BY <1>10, <2>3
    <3>2. BatchSize + i \in 1..n /\ s[BatchSize + i] = t[i]
      BY <1>8, <1>9
    <3>3. QED
      BY <1>10, <3>1, <3>2
  <2>4. QED
    BY <2>1, <2>2, <2>3
<1>12. ASSUME Distinct(s)
       PROVE  Distinct(b) /\ Distinct(t) /\ Queue!JobsIn(b) \cap Queue!JobsIn(t) = {}
  <2>1. \A x, y \in 1..n : s[x].job = s[y].job => x = y
    BY <1>1, <1>12 DEF Distinct
  <2>2. \A x, y \in 1..k : b[x].job = b[y].job => x = y
    BY <1>6, <1>9, <2>1
  <2>3. \A x, y \in 1..m : t[x].job = t[y].job => x = y
    <3>1. ASSUME NEW x \in 1..m, NEW y \in 1..m, t[x].job = t[y].job PROVE x = y
      <4>1. /\ BatchSize + x \in 1..n /\ BatchSize + y \in 1..n
            /\ t[x] = s[BatchSize + x] /\ t[y] = s[BatchSize + y]
        BY <1>8, <1>9
      <4>2. BatchSize + x = BatchSize + y
        BY <2>1, <3>1, <4>1
      <4>3. QED
        BY <1>2, <4>2
    <3>2. QED
      BY <3>1
  <2>4. ASSUME NEW x \in 1..k, NEW y \in 1..m PROVE b[x].job # t[y].job
    <3>1. /\ x \in 1..n /\ BatchSize + y \in 1..n /\ x # BatchSize + y
          /\ b[x] = s[x] /\ t[y] = s[BatchSize + y]
      BY <1>6, <1>8, <1>9
    <3>2. QED
      BY <2>1, <3>1
  <2>5. DOMAIN b = 1..k /\ DOMAIN t = 1..m
    BY <1>6, <1>8
  <2>6. Distinct(b) /\ Distinct(t)
    BY <2>2, <2>3, <2>5 DEF Distinct
  <2>7. Queue!JobsIn(b) \cap Queue!JobsIn(t) = {}
    BY <1>10, <2>4
  <2>8. QED
    BY <2>6, <2>7
<1>13. QED
  BY <1>4, <1>6, <1>8, <1>11, <1>12

-----------------------------------------------------------------------------
(* Records.                                                                  *)

LEMMA Clocks == QueueTypes => clock \in Nat /\ MaxClock \in Nat /\ deaths \in Nat /\ MaxDeaths \in Nat
  BY Queueing DEF QueueTypes, Queue!QueueAssumption

LEMMA NoneIs ==
  /\ Queue!Off \in DrainRec /\ Queue!Off.pc = "off" /\ Queue!Off.todo = <<>> /\ Queue!Off.rest = <<>> /\ Queue!Off.takes = Queue!Nobody
  /\ Queue!Idle \in HostRec /\ Queue!Idle.pc = "idle" /\ Queue!Idle.job = Queue!Nobody /\ Queue!Idle.at = Queue!Nobody
  /\ Queue!NoLock \in LockRec /\ Queue!NoLock.held = FALSE
  /\ Queue!NoFile \in OpenFile /\ Queue!NoFile.there = FALSE /\ Queue!NoFile.lines = <<>>
<1>1. MaxClock \in Nat /\ <<>> \in Seq(OpenLine)
  BY Queueing DEF Queue!QueueAssumption
<1>2. Queue!Off \in DrainRec /\ Queue!Off.pc = "off" /\ Queue!Off.todo = <<>> /\ Queue!Off.rest = <<>> /\ Queue!Off.takes = Queue!Nobody
  BY <1>1 DEF Queue!Off, DrainRec, QueuePlaces
<1>3. Queue!Idle \in HostRec /\ Queue!Idle.pc = "idle" /\ Queue!Idle.job = Queue!Nobody /\ Queue!Idle.at = Queue!Nobody
  BY DEF Queue!Idle, HostRec
<1>4. Queue!NoLock \in LockRec /\ Queue!NoLock.held = FALSE
  BY <1>1 DEF Queue!NoLock, LockRec
<1>5. Queue!NoFile \in OpenFile /\ Queue!NoFile.there = FALSE /\ Queue!NoFile.lines = <<>>
  BY <1>1 DEF Queue!NoFile, OpenFile
<1>6. QED
  BY <1>2, <1>3, <1>4, <1>5

LEMMA NowIs == QueueTypes => Queue!TakenNow \in LockRec /\ Queue!TakenNow.held = TRUE
  BY Clocks DEF Queue!TakenNow, LockRec, QueueTypes

LEMMA OneDrains ==
  ASSUME QueueTypes, NEW d \in Drainers, NEW new \in DrainRec, drainer' = [drainer EXCEPT ![d] = new]
  PROVE  /\ drainer' \in [Drainers -> DrainRec] /\ drainer'[d] = new
         /\ \A e \in Drainers \ {d} : drainer'[e] = drainer[e]
  BY DEF QueueTypes

LEMMA OneHosts ==
  ASSUME QueueTypes, NEW h \in Hosts, NEW new \in HostRec, host' = [host EXCEPT ![h] = new]
  PROVE  /\ host' \in [Hosts -> HostRec] /\ host'[h] = new
         /\ \A g \in Hosts \ {h} : host'[g] = host[g]
  BY DEF QueueTypes

-----------------------------------------------------------------------------
(* What steps leave.                                                         *)

\* Nothing is stale before the timeout first goes by.
LEMMA NothingStale ==
  ASSUME QueueTypes, clock = 0
  PROVE  /\ ~Queue!Stale(lock.mtime) /\ ~Queue!Stale(spawnLock.mtime)
         /\ \A d \in Drainers : ~Queue!Stale(processing[d].mtime)
<1>1. MaxClock \in Nat
  BY Clocks
<1>2. lock.mtime \in Nat /\ spawnLock.mtime \in Nat
  BY <1>1 DEF QueueTypes, LockRec
<1>3. \A d \in Drainers : processing[d].mtime \in Nat
  BY <1>1 DEF QueueTypes, OpenFile
<1>4. QED
  BY <1>2, <1>3 DEF Queue!Stale

\* A drainer moves: while the timeout has not gone by it is the only one, and no host
\* is about to spawn another.
LEMMA SoleMoves ==
  ASSUME QueueTypes, SoleInv, NEW d \in Drainers, UNCHANGED clock,
         drainer[d].pc # "off", drainer'[d].pc = "stale" => clock # 0,
         \A e \in Drainers \ {d} : drainer'[e].pc = drainer[e].pc,
         \A h \in Hosts : host'[h].pc = host[h].pc,
         spawnLock' = spawnLock \/ drainer'[d].pc = "off",
         drainer'[d].pc \in {"open", "drain"} => lock'.held
  PROVE  SoleInv'
<1> SUFFICES ASSUME clock = 0 PROVE SoleInv'
  BY DEF SoleInv
<1>1. /\ \A e \in Drainers \ {d} : drainer[e].pc = "off"
      /\ \A h \in Hosts : host[h].pc # "stale" /\ host[h].pc # "spawning"
      /\ spawnLock.held
  BY DEF SoleInv
<1>2. /\ \A e \in Drainers \ {d} : drainer'[e].pc = "off"
      /\ \A h \in Hosts : host'[h].pc # "stale" /\ host'[h].pc # "spawning"
  BY <1>1
<1>3. drainer'[d].pc # "stale" /\ (drainer'[d].pc # "off" => spawnLock'.held)
  BY <1>1
<1>4. QED
  BY <1>2, <1>3 DEF SoleInv

\* No one is spawned.
LEMMA SoleStays ==
  ASSUME QueueTypes, SoleInv, clock' \in Nat, clock <= clock', UNCHANGED <<lock, spawnLock>>,
         \A h \in Hosts : host'[h].pc \in {host[h].pc, "idle", "opened", "queued"},
         \A d \in Drainers : drainer'[d].pc = drainer[d].pc
  PROVE  SoleInv'
<1> SUFFICES ASSUME clock' = 0 PROVE SoleInv'
  BY DEF SoleInv
<1>1. clock = 0
  BY Clocks
<1>2. \A h \in Hosts : host'[h].pc \in {"stale", "spawning"} => host'[h].pc = host[h].pc
  OBVIOUS
<1>3. QED
  BY <1>1, <1>2 DEF SoleInv

\* Nothing moves in the files, drainers only let go, and hosts end no turn.
LetsGo(d) ==
  /\ drainer'[d].takes \in {drainer[d].takes, Queue!Nobody}
  /\ drainer'[d].pc \in Before => drainer[d].pc \in Before \/ (~processing[d].there /\ ~Taken(d))
  /\ \/ /\ drainer'[d].todo = drainer[d].todo /\ drainer'[d].rest = drainer[d].rest
        /\ drainer'[d].pc = drainer[d].pc
     \/ /\ drainer'[d].todo = <<>> /\ drainer'[d].rest = <<>>
        /\ drainer'[d].pc # "drain"

EndsNone(h) ==
  /\ host'[h].job \in {host[h].job, Queue!Nobody} /\ host'[h].at \in {host[h].at, Queue!Nobody}
  /\ host'[h].pc = "opened" => host[h].pc = "opened" /\ host'[h].job = host[h].job

Calm ==
  /\ UNCHANGED <<queue, processing, dead, queued, times, late, torn>>
  /\ clock' \in Nat /\ clock <= clock' /\ deaths' \in Nat /\ deaths <= deaths'
  /\ \A d \in Drainers : LetsGo(d)
  /\ \A h \in Hosts : EndsNone(h)

LEMMA CalmKeeps ==
  ASSUME QueueTypes, PlaceInv, OnceInv, OwedInv, Calm
  PROVE  PlaceInv' /\ OnceInv' /\ OwedInv'
<1>1. Queue!Nobody \notin Jobs /\ Queue!Nobody \notin Drainers
  BY Queueing DEF Queue!QueueAssumption
<1>2. \A f \in Drainers : Taken(f)' => Taken(f)
  BY <1>1 DEF Calm, LetsGo, Taken
<1>3. PlaceInv'
  <2>1. ASSUME NEW d \in Drainers
        PROVE  /\ drainer'[d].pc \in Before => ~processing'[d].there /\ ~Taken(d)'
               /\ drainer'[d].pc # "drain" => drainer'[d].todo = <<>> /\ drainer'[d].rest = <<>>
    <3>1. drainer'[d].pc \in Before => ~processing'[d].there /\ ~Taken(d)'
      BY <1>2 DEF Calm, LetsGo, PlaceInv
    <3>2. drainer'[d].pc # "drain" => drainer'[d].todo = <<>> /\ drainer'[d].rest = <<>>
      BY DEF Calm, LetsGo, PlaceInv
    <3>3. QED
      BY <3>1, <3>2
  <2>2. ASSUME NEW h \in Hosts
        PROVE  /\ host'[h].at \in Drainers => processing'[host'[h].at].there
               /\ host'[h].pc = "opened" => torn' > 0 /\ host'[h].job \in Jobs
    <3>1. /\ host'[h].at \in {host[h].at, Queue!Nobody}
          /\ host'[h].pc = "opened" => host[h].pc = "opened" /\ host'[h].job = host[h].job
          /\ UNCHANGED <<processing, torn>>
      BY DEF Calm, EndsNone
    <3>2. host[h].at \in Drainers => processing[host[h].at].there
      BY DEF PlaceInv
    <3>3. host[h].pc = "opened" => torn > 0 /\ host[h].job \in Jobs
      BY DEF PlaceInv
    <3>4. QED
      BY <1>1, <3>1, <3>2, <3>3
  <2>3. QED
    BY <2>1, <2>2 DEF PlaceInv
<1>4. \A d \in Drainers : Held(drainer'[d]) \subseteq Held(drainer[d])
  BY NoLines DEF Calm, LetsGo, Held
<1>5. OnceInv'
  <2> SUFFICES ASSUME clock' = 0, deaths' = 0, ~late' PROVE OnceInv'
    BY DEF OnceInv
  <2>1. clock = 0 /\ deaths = 0 /\ ~late
    BY Clocks DEF Calm
  <2>2. Distinct(queue'.lines) /\ Queue!JobsIn(queue'.lines) \subseteq queued'
    BY <2>1 DEF OnceInv, Calm
  <2>3. ASSUME NEW d \in Drainers
        PROVE  /\ Distinct(drainer'[d].todo) /\ Distinct(drainer'[d].rest)
               /\ Queue!JobsIn(drainer'[d].todo) \cap Queue!JobsIn(drainer'[d].rest) = {}
               /\ Held(drainer'[d]) \cap Queue!JobsIn(queue'.lines) = {} /\ Held(drainer'[d]) \subseteq queued'
    <3>1. /\ Distinct(drainer'[d].todo) /\ Distinct(drainer'[d].rest)
          /\ Queue!JobsIn(drainer'[d].todo) \cap Queue!JobsIn(drainer'[d].rest) = {}
      BY <2>1, NoLines DEF OnceInv, Calm, LetsGo
    <3>2. Held(drainer[d]) \cap Queue!JobsIn(queue.lines) = {} /\ Held(drainer[d]) \subseteq queued
      BY <2>1 DEF OnceInv
    <3>3. UNCHANGED <<queue, queued>>
      BY DEF Calm
    <3>4. QED
      BY <1>4, <3>1, <3>2, <3>3
  <2>4. ASSUME NEW j \in Jobs
        PROVE  /\ times'[j] <= 1
               /\ times'[j] = 1 => /\ j \in queued' /\ j \notin Queue!JobsIn(queue'.lines)
                                   /\ \A d \in Drainers : j \notin Held(drainer'[d])
    BY <1>4, <2>1 DEF OnceInv, Calm
  <2>5. ASSUME NEW h \in Hosts, NEW g \in Hosts
        PROVE  /\ host'[h].job \notin queued'
               /\ host'[h].job = host'[g].job /\ host'[h].job \in Jobs => h = g
    <3>1. queued \subseteq Jobs
      BY DEF QueueTypes
    <3>2. /\ host'[h].job \in {host[h].job, Queue!Nobody} /\ host'[g].job \in {host[g].job, Queue!Nobody}
          /\ UNCHANGED queued
      BY DEF Calm, EndsNone
    <3>3. host[h].job \notin queued /\ (host[h].job = host[g].job /\ host[h].job \in Jobs => h = g)
      BY <2>1 DEF OnceInv
    <3>4. QED
      BY <1>1, <3>1, <3>2, <3>3
  <2>6. QED
    BY <2>2, <2>3, <2>4, <2>5 DEF OnceInv
<1>6. OwedInv'
  <2>1. ASSUME NEW g \in Drainers PROVE Owed(g) \subseteq Owed(g)'
    <3>1. drainer'[g].pc = "drain" => drainer[g].pc = "drain" /\ Held(drainer'[g]) = Held(drainer[g])
      BY DEF Calm, LetsGo, Held
    <3>2. processing' = processing
      BY DEF Calm
    <3>3. QED
      BY <1>2, <3>1, <3>2 DEF Owed
  <2>2. ASSUME NEW j, Somewhere(j) PROVE Somewhere(j)'
    BY <2>1, <2>2 DEF Somewhere, Calm
  <2>3. QED
    BY <2>2 DEF OwedInv, Calm
<1>7. QED
  BY <1>3, <1>5, <1>6

\* A drainer waits for the lock, takes it, gives up or ends.
LEMMA CalmDrain ==
  ASSUME QueueInv, NEW d \in Drainers, NEW new \in DrainRec, drainer' = [drainer EXCEPT ![d] = new],
         new.takes \in {drainer[d].takes, Queue!Nobody}, new.pc # "drain", new.todo = <<>>, new.rest = <<>>,
         new.pc \in Before => drainer[d].pc \in Before, drainer[d].pc # "off",
         new.pc = "stale" => clock # 0, new.pc = "open" => lock'.held,
         UNCHANGED <<Queue!files, host, queued, times, late, torn, clock>>,
         deaths <= deaths', deaths' \in 0..MaxDeaths,
         lock' \in LockRec, spawnLock' \in LockRec, spawnLock' = spawnLock \/ new.pc = "off"
  PROVE  QueueInv'
<1>1. QueueTypes /\ PlaceInv /\ SoleInv /\ OnceInv /\ OwedInv
  BY DEF QueueInv
<1>2. /\ drainer' \in [Drainers -> DrainRec] /\ drainer'[d] = new
      /\ \A e \in Drainers \ {d} : drainer'[e] = drainer[e]
  BY <1>1, OneDrains
<1>3. QueueTypes'
  BY <1>1, <1>2 DEF QueueTypes, Queue!files
<1>4. SoleInv'
  BY <1>1, <1>2, SoleMoves
<1>5. Calm
  <2>1. /\ UNCHANGED <<queue, processing, dead, queued, times, late, torn>>
        /\ clock' \in Nat /\ clock <= clock' /\ deaths' \in Nat /\ deaths <= deaths'
    BY <1>1, Clocks DEF Queue!files
  <2>2. ASSUME NEW e \in Drainers PROVE LetsGo(e)
    BY <1>2 DEF LetsGo
  <2>3. ASSUME NEW g \in Hosts PROVE EndsNone(g)
    BY DEF EndsNone
  <2>4. QED
    BY <2>1, <2>2, <2>3 DEF Calm
<1>6. QED
  BY <1>1, <1>3, <1>4, <1>5, CalmKeeps DEF QueueInv

\* A host goes on with what it starts after its append.
LEMMA CalmHost ==
  ASSUME QueueInv, NEW h \in Hosts, NEW new \in HostRec, host' = [host EXCEPT ![h] = new],
         new.job \in {host[h].job, Queue!Nobody}, new.at \in {host[h].at, Queue!Nobody}, new.pc # "opened",
         UNCHANGED <<Queue!files, drainer, lock, queued, times, late, deaths, torn, clock>>,
         spawnLock' \in LockRec, SoleInv'
  PROVE  QueueInv'
<1>1. QueueTypes /\ PlaceInv /\ SoleInv /\ OnceInv /\ OwedInv
  BY DEF QueueInv
<1>2. /\ host' \in [Hosts -> HostRec] /\ host'[h] = new
      /\ \A g \in Hosts \ {h} : host'[g] = host[g]
  BY <1>1, OneHosts
<1>3. QueueTypes'
  BY <1>1, <1>2 DEF QueueTypes, Queue!files
<1>4. Calm
  <2>1. /\ UNCHANGED <<queue, processing, dead, queued, times, late, torn, drainer>>
        /\ clock' \in Nat /\ clock <= clock' /\ deaths' \in Nat /\ deaths <= deaths'
    BY <1>1, Clocks DEF Queue!files
  <2>2. ASSUME NEW g \in Hosts PROVE EndsNone(g)
    BY <1>2 DEF EndsNone
  <2>3. ASSUME NEW d \in Drainers PROVE LetsGo(d)
    BY <2>1 DEF LetsGo
  <2>4. QED
    BY <2>1, <2>2, <2>3 DEF Calm
<1>5. QED
  BY <1>1, <1>3, <1>4, CalmKeeps DEF QueueInv

-----------------------------------------------------------------------------
(* Steps that move no line.                                                  *)

LEMMA HeldLock ==
  ASSUME QueueTypes
  PROVE  /\ lock \in LockRec /\ spawnLock \in LockRec
         /\ \A h \in Hosts : host[h] \in HostRec
         /\ \A d \in Drainers : drainer[d] \in DrainRec
  BY DEF QueueTypes

LEMMA SkipSpawnStep ==
  ASSUME QueueInv, NEW h \in Hosts, Queue!SkipSpawn(h)
  PROVE  QueueInv'
<1>1. QueueTypes /\ SoleInv
  BY DEF QueueInv
<1>2. UNCHANGED <<Queue!files, lock, spawnLock, drainer, queued, times, late, deaths, torn, clock>>
  BY DEF Queue!SkipSpawn, Queue!counts
<1>3. PICK new \in HostRec : new = Queue!Idle
  BY NoneIs
<1>4. host' = [host EXCEPT ![h] = new] /\ new.job = Queue!Nobody /\ new.at = Queue!Nobody /\ new.pc = "idle"
  BY <1>3, NoneIs DEF Queue!SkipSpawn
<1>5. SoleInv'
  BY <1>1, <1>2, <1>4, SoleStays, OneHosts, Clocks
<1>6. QED
  BY <1>1, <1>2, <1>4, <1>5, CalmHost, HeldLock

\* A host holds the spawn lock, or is about to replace one that is stale.
LEMMA TakeSpawnLockStep ==
  ASSUME QueueInv, NEW h \in Hosts, Queue!TakeSpawnLock(h) \/ Queue!ReplaceSpawnLock(h)
  PROVE  QueueInv'
<1>1. QueueTypes /\ SoleInv
  BY DEF QueueInv
<1>2. UNCHANGED <<Queue!files, lock, drainer, queued, times, late, deaths, torn, clock>>
  BY DEF Queue!TakeSpawnLock, Queue!ReplaceSpawnLock, Queue!counts
<1>3. PICK pc \in {"stale", "spawning"} :
        /\ host' = [host EXCEPT ![h].pc = pc]
        /\ pc = "stale" => spawnLock.held /\ Queue!Stale(spawnLock.mtime) /\ UNCHANGED spawnLock
        /\ pc = "spawning" => /\ spawnLock' = Queue!TakenNow
                              /\ host[h].pc = "stale" \/ ~spawnLock.held
  BY DEF Queue!TakeSpawnLock, Queue!ReplaceSpawnLock
<1>4. PICK new : new = [host[h] EXCEPT !.pc = pc]
  OBVIOUS
<1>5. host[h] \in HostRec
  BY <1>1, HeldLock
<1>6. /\ new \in HostRec /\ new.pc = pc /\ new.job = host[h].job /\ new.at = host[h].at
      /\ host' = [host EXCEPT ![h] = new]
  BY <1>3, <1>4, <1>5 DEF HostRec
<1>7. spawnLock' \in LockRec
  BY <1>1, <1>3, NowIs, HeldLock
<1>8. SoleInv'
  <2> SUFFICES ASSUME clock' = 0 PROVE SoleInv'
    BY DEF SoleInv
  <2>1. clock = 0 /\ ~Queue!Stale(spawnLock.mtime) /\ host[h].pc # "stale"
    BY <1>1, <1>2, NothingStale DEF SoleInv
  <2>2. pc = "spawning" /\ spawnLock' = Queue!TakenNow /\ ~spawnLock.held
    BY <1>3, <2>1
  <2>3. /\ \A g \in Hosts : host[g].pc # "spawning" /\ host[g].pc # "stale"
        /\ \A d \in Drainers : drainer[d].pc = "off"
    BY <1>1, <2>1, <2>2 DEF SoleInv
  <2>4. host'[h].pc = "spawning" /\ \A g \in Hosts \ {h} : host'[g].pc \notin {"stale", "spawning"}
    BY <1>1, <1>6, <2>2, <2>3, OneHosts
  <2>5. \A d \in Drainers : drainer'[d].pc = "off"
    BY <1>2, <2>3
  <2>6. spawnLock'.held
    BY <1>1, <2>2, NowIs
  <2>7. QED
    BY <2>4, <2>5, <2>6 DEF SoleInv
<1>9. QED
  BY <1>2, <1>6, <1>7, <1>8, CalmHost

LEMMA SpawnStep ==
  ASSUME QueueInv, NEW h \in Hosts, NEW d \in Drainers, Queue!Spawn(h, d)
  PROVE  QueueInv'
<1>1. QueueTypes /\ PlaceInv /\ SoleInv /\ OnceInv /\ OwedInv
  BY DEF QueueInv
<1>2. UNCHANGED <<queue, processing, dead, lock, spawnLock, queued, times, late, deaths, torn, clock>>
  BY DEF Queue!Spawn, Queue!files, Queue!counts
<1>3. PICK new : new = [Queue!Off EXCEPT !.pc = "recover", !.parent = h]
  OBVIOUS
<1>4. /\ new \in DrainRec /\ new.pc = "recover" /\ new.todo = <<>> /\ new.rest = <<>>
      /\ new.takes = Queue!Nobody
  <2>1. <<>> \in Seq(OpenLine)
    OBVIOUS
  <2>2. QED
    BY <1>3, <2>1 DEF Queue!Off, DrainRec, QueuePlaces
<1>5. drainer' = [drainer EXCEPT ![d] = new] /\ host' = [host EXCEPT ![h] = Queue!Idle]
  BY <1>3 DEF Queue!Spawn
<1>6. /\ drainer' \in [Drainers -> DrainRec] /\ drainer'[d] = new
      /\ \A e \in Drainers \ {d} : drainer'[e] = drainer[e]
  BY <1>1, <1>4, <1>5, OneDrains
<1>7. /\ host' \in [Hosts -> HostRec] /\ host'[h] = Queue!Idle
      /\ \A g \in Hosts \ {h} : host'[g] = host[g]
  BY <1>1, <1>5, OneHosts, NoneIs
<1>8. QueueTypes'
  BY <1>1, <1>2, <1>6, <1>7 DEF QueueTypes
<1>9. Calm
  <2>1. /\ UNCHANGED <<queue, processing, dead, queued, times, late, torn>>
        /\ clock' \in Nat /\ clock <= clock' /\ deaths' \in Nat /\ deaths <= deaths'
    BY <1>1, <1>2, Clocks
  <2>2. ASSUME NEW e \in Drainers PROVE LetsGo(e)
    <3>1. ~processing[d].there /\ ~Taken(d)
      BY DEF Queue!Spawn, Taken
    <3>2. CASE e = d
      BY <1>4, <1>6, <3>1, <3>2 DEF LetsGo
    <3>3. CASE e # d
      BY <1>6, <3>3 DEF LetsGo
    <3>4. QED
      BY <3>2, <3>3
  <2>3. ASSUME NEW g \in Hosts PROVE EndsNone(g)
    BY <1>7, NoneIs DEF EndsNone
  <2>4. QED
    BY <2>1, <2>2, <2>3 DEF Calm
<1>10. SoleInv'
  <2> SUFFICES ASSUME clock' = 0 PROVE SoleInv'
    BY DEF SoleInv
  <2>1. clock = 0 /\ host[h].pc = "spawning"
    BY <1>2 DEF Queue!Spawn
  <2>2. /\ spawnLock.held
        /\ \A g \in Hosts \ {h} : host[g].pc # "spawning" /\ host[g].pc # "stale"
        /\ \A e \in Drainers : drainer[e].pc = "off"
    BY <1>1, <2>1 DEF SoleInv
  <2>3. \A g \in Hosts : host'[g].pc # "spawning" /\ host'[g].pc # "stale"
    BY <1>7, <2>2, NoneIs
  <2>4. drainer'[d].pc = "recover" /\ \A e \in Drainers \ {d} : drainer'[e].pc = "off"
    BY <1>4, <1>6, <2>2
  <2>5. spawnLock'.held
    BY <1>2, <2>2
  <2>6. QED
    BY <2>3, <2>4, <2>5 DEF SoleInv
<1>11. QED
  BY <1>1, <1>8, <1>9, <1>10, CalmKeeps DEF QueueInv

LEMMA QueueElapseStep ==
  ASSUME QueueInv, Queue!Elapse
  PROVE  QueueInv'
<1>1. QueueTypes /\ PlaceInv /\ SoleInv /\ OnceInv /\ OwedInv
  BY DEF QueueInv
<1>2. /\ UNCHANGED <<queue, processing, dead, lock, spawnLock, host, drainer, queued, times, late,
                     deaths, torn>>
      /\ clock' = clock + 1 /\ clock < MaxClock
  BY DEF Queue!Elapse, Queue!files
<1>3. clock' \in 0..MaxClock /\ clock' \in Nat /\ clock <= clock'
  BY <1>1, <1>2, Clocks
<1>4. QueueTypes'
  BY <1>1, <1>2, <1>3 DEF QueueTypes
<1>5. Calm
  <2>1. ASSUME NEW d \in Drainers PROVE LetsGo(d)
    BY <1>2 DEF LetsGo
  <2>2. ASSUME NEW g \in Hosts PROVE EndsNone(g)
    BY <1>2 DEF EndsNone
  <2>3. QED
    BY <1>1, <1>2, <1>3, <2>1, <2>2, Clocks DEF Calm
<1>6. SoleInv'
  BY <1>1, <1>2, <1>3, SoleStays
<1>7. QED
  BY <1>1, <1>4, <1>5, <1>6, CalmKeeps DEF QueueInv

LEMMA HostDiesStep ==
  ASSUME QueueInv, NEW h \in Hosts, Queue!HostDies(h)
  PROVE  QueueInv'
<1>1. QueueTypes /\ PlaceInv /\ SoleInv /\ OnceInv /\ OwedInv
  BY DEF QueueInv
<1>2. /\ UNCHANGED <<queue, processing, dead, lock, spawnLock, queued, times, late, torn, clock>>
      /\ deaths' = deaths + 1 /\ deaths < MaxDeaths
  BY DEF Queue!HostDies, Queue!files
<1>3. /\ host' \in [Hosts -> HostRec] /\ host'[h] = Queue!Idle
      /\ \A g \in Hosts \ {h} : host'[g] = host[g]
  BY <1>1, OneHosts, NoneIs DEF Queue!HostDies
<1>4. drainer' = [d \in Drainers |-> IF drainer[d].parent = h
                                      THEN [drainer[d] EXCEPT !.parent = Queue!Nobody] ELSE drainer[d]]
  BY DEF Queue!HostDies
<1>5. ASSUME NEW d \in Drainers
      PROVE  /\ drainer'[d] \in DrainRec
             /\ drainer'[d].takes = drainer[d].takes /\ drainer'[d].todo = drainer[d].todo
             /\ drainer'[d].rest = drainer[d].rest /\ drainer'[d].pc = drainer[d].pc
  <2>1. PICK r \in DrainRec : r = drainer[d]
    BY <1>1, HeldLock
  <2>2. drainer'[d] = IF r.parent = h THEN [r EXCEPT !.parent = Queue!Nobody] ELSE r
    BY <1>4, <2>1
  <2>3. QED
    BY <2>1, <2>2 DEF DrainRec
<1>6. drainer' \in [Drainers -> DrainRec]
  BY <1>4, <1>5
<1>7. deaths' \in 0..MaxDeaths /\ deaths' \in Nat /\ deaths <= deaths' /\ clock' \in Nat /\ clock <= clock'
  BY <1>1, <1>2, Clocks
<1>8. QueueTypes'
  BY <1>1, <1>2, <1>3, <1>6, <1>7 DEF QueueTypes
<1>9. Calm
  <2>1. ASSUME NEW g \in Hosts PROVE EndsNone(g)
    BY <1>3, NoneIs DEF EndsNone
  <2>2. ASSUME NEW d \in Drainers PROVE LetsGo(d)
    BY <1>5 DEF LetsGo
  <2>3. QED
    BY <1>2, <1>7, <2>1, <2>2 DEF Calm
<1>10. SoleInv'
  <2>1. \A g \in Hosts : host'[g].pc \in {host[g].pc, "idle", "opened", "queued"}
    BY <1>3, NoneIs
  <2>2. QED
    BY <1>1, <1>2, <1>5, <1>7, <2>1, SoleStays
<1>11. QED
  BY <1>1, <1>8, <1>9, <1>10, CalmKeeps DEF QueueInv

\* A drainer ends, and its parent sees it.
LEMMA ExitedIs ==
  ASSUME QueueInv, NEW d \in Drainers, drainer[d].pc # "off", Queue!Exited(d),
         UNCHANGED <<Queue!files, host, queued, times, late, torn, clock>>,
         deaths <= deaths', deaths' \in 0..MaxDeaths, lock' \in LockRec
  PROVE  QueueInv'
<1>1. QueueTypes
  BY DEF QueueInv
<1>2. PICK new \in DrainRec : new = Queue!Off
  BY NoneIs
<1>3. /\ drainer' = [drainer EXCEPT ![d] = new] /\ new.pc = "off" /\ new.todo = <<>>
      /\ new.rest = <<>> /\ new.takes = Queue!Nobody
  BY <1>2, NoneIs DEF Queue!Exited
<1>4. spawnLock' \in LockRec
  BY <1>1, NoneIs, HeldLock DEF Queue!Exited
<1>5. new.pc \notin Before
  BY <1>3 DEF Before
<1>6. QED
  BY <1>3, <1>4, <1>5, CalmDrain

LEMMA DrainerEndsStep ==
  ASSUME QueueInv, NEW d \in Drainers, Queue!OpenFails(d) \/ Queue!DrainerDies(d) \/ Queue!Close(d)
  PROVE  QueueInv'
<1>1. QueueTypes
  BY DEF QueueInv
<1>2. CASE Queue!OpenFails(d) \/ Queue!DrainerDies(d)
  <2>1. /\ Queue!Exited(d) /\ deaths' = deaths + 1 /\ deaths < MaxDeaths /\ drainer[d].pc # "off"
        /\ UNCHANGED <<Queue!files, lock, host, queued, times, late, torn, clock>>
    BY <1>2 DEF Queue!OpenFails, Queue!DrainerDies
  <2>2. deaths <= deaths' /\ deaths' \in 0..MaxDeaths
    BY <1>1, <2>1, Clocks
  <2>3. QED
    BY <1>1, <2>1, <2>2, ExitedIs, HeldLock
<1>3. CASE Queue!Close(d)
  <2>1. /\ Queue!Exited(d) /\ drainer[d].pc # "off" /\ lock' = Queue!NoLock
        /\ UNCHANGED <<Queue!files, host, queued, times, late, deaths, torn, clock>>
    BY <1>3 DEF Queue!Close, Queue!counts
  <2>2. deaths <= deaths' /\ deaths' \in 0..MaxDeaths
    BY <1>1, <2>1, Clocks DEF QueueTypes
  <2>3. QED
    BY <2>1, <2>2, ExitedIs, NoneIs
<1>4. QED
  BY <1>2, <1>3

\* A drainer goes on to the next wait.
LEMMA WaitsMoves ==
  ASSUME QueueInv, NEW d \in Drainers, NEW pc \in {"lock", "stale", "open", "close"},
         drainer[d].pc \in Before, drainer' = [drainer EXCEPT ![d].pc = pc],
         pc = "stale" => clock # 0, pc = "open" => lock'.held,
         UNCHANGED <<Queue!files, spawnLock, host, queued, times, late, deaths, torn, clock>>,
         lock' \in LockRec
  PROVE  QueueInv'
<1>1. QueueTypes /\ PlaceInv
  BY DEF QueueInv
<1>2. PICK r \in DrainRec : r = drainer[d]
  BY <1>1, HeldLock
<1>3. PICK new : new = [r EXCEPT !.pc = pc]
  OBVIOUS
<1>4. /\ new \in DrainRec /\ new.pc = pc /\ new.todo = r.todo /\ new.rest = r.rest
      /\ new.takes = r.takes
  BY <1>3 DEF DrainRec, QueuePlaces
<1>5. drainer' = [drainer EXCEPT ![d] = new]
  BY <1>2, <1>3
<1>6. r.todo = <<>> /\ r.rest = <<>> /\ r.pc # "off" /\ pc # "drain"
  BY <1>1, <1>2 DEF PlaceInv, Before
<1>7. deaths <= deaths' /\ deaths' \in 0..MaxDeaths /\ spawnLock' \in LockRec
  BY <1>1, HeldLock, Clocks DEF QueueTypes
<1>8. UNCHANGED <<Queue!files, host, queued, times, late, torn, clock>>
  OBVIOUS
<1>9. /\ new.takes \in {drainer[d].takes, Queue!Nobody} /\ new.pc # "drain" /\ new.todo = <<>>
      /\ new.rest = <<>> /\ drainer[d].pc # "off"
  BY <1>2, <1>4, <1>6
<1>10. QED
  BY <1>4, <1>5, <1>7, <1>8, <1>9, CalmDrain

LEMMA LockingStep ==
  ASSUME QueueInv, NEW d \in Drainers, Queue!Recovered(d) \/ Queue!TakeLock(d) \/ Queue!ReplaceLock(d)
  PROVE  QueueInv'
<1>1. QueueTypes /\ UNCHANGED <<Queue!files, host, queued, times, late, deaths, torn, clock>>
  BY DEF QueueInv, Queue!Recovered, Queue!TakeLock, Queue!ReplaceLock, Queue!counts
<1>2. /\ lock \in LockRec /\ Queue!TakenNow \in LockRec /\ Queue!TakenNow.held = TRUE
      /\ deaths <= deaths' /\ deaths' \in 0..MaxDeaths
  BY <1>1, HeldLock, NowIs, Clocks DEF QueueTypes
<1>3. drainer[d].pc \in Before /\ drainer[d].pc # "off"
  BY DEF Queue!Recovered, Queue!TakeLock, Queue!ReplaceLock, Before
<1>4. \/ Queue!Exited(d) /\ UNCHANGED lock
      \/ \E pc \in {"lock", "stale", "open", "close"} :
           /\ drainer' = [drainer EXCEPT ![d].pc = pc] /\ UNCHANGED spawnLock
           /\ pc = "stale" => clock # 0
           /\ pc = "open" => lock' = Queue!TakenNow
           /\ lock' \in {lock, Queue!TakenNow}
  <2>1. CASE Queue!Recovered(d)
    BY <2>1 DEF Queue!Recovered
  <2>2. CASE Queue!ReplaceLock(d)
    BY <2>2 DEF Queue!ReplaceLock
  <2>3. CASE Queue!TakeLock(d)
    <3>1. Queue!Stale(lock.mtime) => clock # 0
      BY <1>1, NothingStale
    <3>2. QED
      BY <2>3, <3>1 DEF Queue!TakeLock
  <2>4. QED
    BY <2>1, <2>2, <2>3
<1>5. QED
  BY <1>1, <1>2, <1>3, <1>4, ExitedIs, WaitsMoves

-----------------------------------------------------------------------------
(* Steps that move lines.                                                    *)

LEMMA AppendedIs ==
  ASSUME QueueTypes, NEW f \in OpenFile, NEW lines \in Seq(OpenLine)
  PROVE  /\ Queue!Appended(f, lines) \in OpenFile /\ Queue!Appended(f, lines).there = TRUE
         /\ Queue!JobsIn(Queue!Appended(f, lines).lines) = Queue!JobsIn(f.lines) \cup Queue!JobsIn(lines)
         /\ Distinct(f.lines) /\ Distinct(lines) /\ Queue!JobsIn(f.lines) \cap Queue!JobsIn(lines) = {}
              => Distinct(Queue!Appended(f, lines).lines)
<1>1. f.lines \in Seq(OpenLine) /\ clock \in 0..MaxClock
  BY DEF OpenFile, QueueTypes
<1>2. PICK s \in Seq(OpenLine) : s = f.lines \o lines
  BY <1>1, LinesJoined
<1>3. Queue!Appended(f, lines) = [there |-> TRUE, lines |-> s, mtime |-> clock]
  BY <1>2 DEF Queue!Appended
<1>4. /\ Queue!Appended(f, lines) \in OpenFile /\ Queue!Appended(f, lines).there = TRUE
      /\ Queue!Appended(f, lines).lines = s
  BY <1>1, <1>3 DEF OpenFile
<1>5. QED
  BY <1>1, <1>2, <1>4, LinesJoined

LEMMA FreshIs == \A j \in Jobs : Queue!Fresh(j) \in OpenLine /\ Queue!Fresh(j).job = j
  BY Queueing DEF Queue!Fresh, OpenLine, Queue!QueueAssumption

\* What stood for a turn stands for it still, or something else does.
LEMMA OwedStays ==
  ASSUME OwedInv, UNCHANGED torn,
         \A j \in queued' : j \in queued \/ j \in Queue!JobsIn(queue'.lines),
         \A j \in Jobs : times[j] > 0 => times'[j] > 0, dead \subseteq dead',
         \A j \in Queue!JobsIn(queue.lines) : Somewhere(j)',
         \A g \in Drainers : \A j \in Owed(g) : Somewhere(j)', queued \subseteq Jobs
  PROVE  OwedInv'
<1>1. ASSUME NEW j \in queued, Somewhere(j) PROVE Somewhere(j)'
  BY <1>1 DEF Somewhere
<1>2. QED
  BY <1>1 DEF OwedInv, Somewhere

LEMMA EnqueueStep ==
  ASSUME QueueInv, NEW h \in Hosts, NEW j \in Jobs, Queue!Enqueue(h, j)
  PROVE  QueueInv'
<1>1. QueueTypes /\ PlaceInv /\ SoleInv /\ OnceInv /\ OwedInv
  BY DEF QueueInv
<1>2. /\ UNCHANGED <<processing, dead, lock, spawnLock, drainer, times, late, deaths, torn, clock>>
      /\ queue' = Queue!Appended(queue, <<Queue!Fresh(j)>>) /\ queued' = queued \cup {j}
      /\ j \notin queued /\ \A g \in Hosts : host[g].job # j
  BY DEF Queue!Enqueue, Queue!counts, Queue!Ended
<1>3. PICK r \in HostRec : r = host[h]
  BY <1>1, HeldLock
<1>4. PICK new : new = [r EXCEPT !.pc = "queued"]
  OBVIOUS
<1>5. /\ new \in HostRec /\ new.pc = "queued" /\ new.job = r.job /\ new.at = r.at
      /\ host' = [host EXCEPT ![h] = new]
  BY <1>3, <1>4 DEF HostRec, Queue!Enqueue
<1>6. /\ host' \in [Hosts -> HostRec] /\ host'[h] = new
      /\ \A g \in Hosts \ {h} : host'[g] = host[g]
  BY <1>1, <1>5, OneHosts
<1>7. queue \in OpenFile /\ queued \subseteq Jobs
  BY <1>1 DEF QueueTypes
<1>8. /\ <<Queue!Fresh(j)>> \in Seq(OpenLine) /\ Queue!JobsIn(<<Queue!Fresh(j)>>) = {j} /\ Distinct(<<Queue!Fresh(j)>>)
  BY FreshIs, OneLine
<1>9. /\ queue' \in OpenFile /\ queue'.there /\ Queue!JobsIn(queue'.lines) = Queue!JobsIn(queue.lines) \cup {j}
      /\ Distinct(queue.lines) /\ j \notin Queue!JobsIn(queue.lines) => Distinct(queue'.lines)
  BY <1>1, <1>2, <1>7, <1>8, AppendedIs
<1>10. QueueTypes'
  BY <1>1, <1>2, <1>6, <1>9 DEF QueueTypes
<1>11. \A d \in Drainers : Taken(d)' = Taken(d)
  BY <1>2 DEF Taken
<1>12. PlaceInv'
  BY <1>1, <1>2, <1>3, <1>5, <1>6, <1>11 DEF PlaceInv
<1>13. SoleInv'
  BY <1>1, <1>2, <1>5, <1>6, SoleStays, Clocks
<1>14. OnceInv'
  <2> SUFFICES ASSUME clock' = 0, deaths' = 0, ~late' PROVE OnceInv'
    BY DEF OnceInv
  <2>1. clock = 0 /\ deaths = 0 /\ ~late
    BY <1>2
  <2>2. Distinct(queue'.lines) /\ Queue!JobsIn(queue'.lines) \subseteq queued'
    BY <1>1, <1>2, <1>9, <2>1 DEF OnceInv
  <2>3. ASSUME NEW d \in Drainers
        PROVE  /\ Distinct(drainer'[d].todo) /\ Distinct(drainer'[d].rest)
               /\ Queue!JobsIn(drainer'[d].todo) \cap Queue!JobsIn(drainer'[d].rest) = {}
               /\ Held(drainer'[d]) \cap Queue!JobsIn(queue'.lines) = {} /\ Held(drainer'[d]) \subseteq queued'
    BY <1>1, <1>2, <1>9, <2>1 DEF OnceInv
  <2>4. ASSUME NEW i \in Jobs
        PROVE  /\ times'[i] <= 1
               /\ times'[i] = 1 => /\ i \in queued' /\ i \notin Queue!JobsIn(queue'.lines)
                                   /\ \A d \in Drainers : i \notin Held(drainer'[d])
    BY <1>1, <1>2, <1>9, <2>1 DEF OnceInv
  <2>5. \A g \in Hosts : host'[g].job = host[g].job
    BY <1>3, <1>5, <1>6
  <2>6. ASSUME NEW g \in Hosts, NEW i \in Hosts
        PROVE  /\ host'[g].job \notin queued'
               /\ host'[g].job = host'[i].job /\ host'[g].job \in Jobs => g = i
    BY <1>1, <1>2, <2>1, <2>5 DEF OnceInv
  <2>7. QED
    BY <2>2, <2>3, <2>4, <2>6 DEF OnceInv
<1>15. OwedInv'
  <2>1. \A g \in Drainers : \A i \in Owed(g) : i \in Owed(g)'
    BY <1>2, <1>11 DEF Owed
  <2>2. QED
    BY <1>1, <1>2, <1>7, <1>9, <2>1, OwedStays DEF Somewhere
<1>16. QED
  BY <1>10, <1>12, <1>13, <1>14, <1>15 DEF QueueInv

\* The file is opened to be appended to, and is written later.
LEMMA OpenQueueStep ==
  ASSUME QueueInv, NEW h \in Hosts, NEW j \in Jobs, Queue!OpenQueue(h, j)
  PROVE  QueueInv'
<1>1. QueueTypes /\ PlaceInv /\ SoleInv /\ OnceInv
  BY DEF QueueInv
<1>2. /\ UNCHANGED <<processing, dead, lock, spawnLock, drainer, queued, times, late, deaths, clock>>
      /\ queue' = Queue!Appended(queue, <<>>) /\ torn' = torn + 1 /\ torn < MaxTorn
      /\ j \notin queued /\ \A g \in Hosts : host[g].job # j
  BY DEF Queue!OpenQueue, Queue!Ended
<1>3. PICK new \in HostRec : new.pc = "opened" /\ new.job = j /\ new.at = "queue"
                             /\ host' = [host EXCEPT ![h] = new]
  <2>1. PICK new : new = [pc |-> "opened", job |-> j, at |-> "queue"]
    OBVIOUS
  <2>2. new \in HostRec /\ new.pc = "opened" /\ new.job = j /\ new.at = "queue"
    BY <2>1 DEF HostRec
  <2>3. QED
    BY <2>1, <2>2 DEF Queue!OpenQueue
<1>4. /\ host' \in [Hosts -> HostRec] /\ host'[h] = new
      /\ \A g \in Hosts \ {h} : host'[g] = host[g]
  BY <1>1, <1>3, OneHosts
<1>5. queue \in OpenFile /\ torn \in Nat /\ MaxTorn \in Nat
  BY <1>1, Queueing DEF QueueTypes, Queue!QueueAssumption
<1>6. /\ queue' \in OpenFile /\ queue'.there /\ Queue!JobsIn(queue'.lines) = Queue!JobsIn(queue.lines)
      /\ Distinct(queue.lines) => Distinct(queue'.lines)
  <2>1. PICK none \in Seq(OpenLine) : none = <<>> /\ Queue!JobsIn(none) = {} /\ Distinct(none)
    BY NoLines
  <2>2. queue' = Queue!Appended(queue, none)
    BY <1>2, <2>1
  <2>3. /\ queue' \in OpenFile /\ queue'.there = TRUE
        /\ Queue!JobsIn(queue'.lines) = Queue!JobsIn(queue.lines) \cup Queue!JobsIn(none)
        /\ Distinct(queue.lines) /\ Distinct(none) /\ Queue!JobsIn(queue.lines) \cap Queue!JobsIn(none) = {}
             => Distinct(queue'.lines)
    BY <1>1, <1>5, <2>2, AppendedIs
  <2>4. QED
    BY <2>1, <2>3
<1>7. torn' \in 0..MaxTorn /\ torn' > 0
  BY <1>2, <1>5
<1>8. QueueTypes'
  BY <1>1, <1>2, <1>4, <1>6, <1>7 DEF QueueTypes
<1>9. PlaceInv'
  <2>1. \A d \in Drainers : Taken(d)' = Taken(d)
    BY <1>2 DEF Taken
  <2>2. "queue" \notin Drainers
    BY Queueing DEF Queue!QueueAssumption
  <2>3. ASSUME NEW g \in Hosts
        PROVE  /\ host'[g].at \in Drainers => processing'[host'[g].at].there
               /\ host'[g].pc = "opened" => torn' > 0 /\ host'[g].job \in Jobs
    BY <1>1, <1>2, <1>3, <1>4, <1>7, <2>2 DEF PlaceInv
  <2>4. QED
    BY <1>1, <1>2, <2>1, <2>3 DEF PlaceInv
<1>10. SoleInv'
  BY <1>1, <1>2, <1>3, <1>4, SoleStays, Clocks
<1>11. OnceInv'
  <2> SUFFICES ASSUME clock' = 0, deaths' = 0, ~late' PROVE OnceInv'
    BY DEF OnceInv
  <2>1. clock = 0 /\ deaths = 0 /\ ~late
    BY <1>2
  <2>2. Distinct(queue'.lines) /\ Queue!JobsIn(queue'.lines) \subseteq queued'
    BY <1>1, <1>2, <1>6, <2>1 DEF OnceInv
  <2>3. ASSUME NEW d \in Drainers
        PROVE  /\ Distinct(drainer'[d].todo) /\ Distinct(drainer'[d].rest)
               /\ Queue!JobsIn(drainer'[d].todo) \cap Queue!JobsIn(drainer'[d].rest) = {}
               /\ Held(drainer'[d]) \cap Queue!JobsIn(queue'.lines) = {} /\ Held(drainer'[d]) \subseteq queued'
    BY <1>1, <1>2, <1>6, <2>1 DEF OnceInv
  <2>4. ASSUME NEW i \in Jobs
        PROVE  /\ times'[i] <= 1
               /\ times'[i] = 1 => /\ i \in queued' /\ i \notin Queue!JobsIn(queue'.lines)
                                   /\ \A d \in Drainers : i \notin Held(drainer'[d])
    BY <1>1, <1>2, <1>6, <2>1 DEF OnceInv
  <2>5. /\ host'[h].job = j /\ \A g \in Hosts \ {h} : host'[g].job = host[g].job
        /\ j \notin queued /\ \A g \in Hosts : host[g].job # j
    BY <1>2, <1>3, <1>4
  <2>6. ASSUME NEW g \in Hosts, NEW i \in Hosts
        PROVE  /\ host'[g].job \notin queued'
               /\ host'[g].job = host'[i].job /\ host'[g].job \in Jobs => g = i
    BY <1>1, <1>2, <2>1, <2>5 DEF OnceInv
  <2>7. QED
    BY <2>2, <2>3, <2>4, <2>6 DEF OnceInv
<1>12. OwedInv'
  BY <1>7 DEF OwedInv
<1>13. QED
  BY <1>8, <1>9, <1>10, <1>11, <1>12 DEF QueueInv

LEMMA WriteJobStep ==
  ASSUME QueueInv, NEW h \in Hosts, Queue!WriteJob(h)
  PROVE  QueueInv'
<1>1. QueueTypes /\ PlaceInv /\ SoleInv /\ OnceInv
  BY DEF QueueInv
<1>2. host[h] \in HostRec /\ host[h].job \in Jobs /\ torn > 0
  BY <1>1, HeldLock DEF PlaceInv, Queue!WriteJob
<1>3. PICK j \in Jobs, at \in {"queue", Queue!Nobody} \cup Drainers : j = host[h].job /\ at = host[h].at
  BY <1>2 DEF HostRec
<1>4. PICK line \in Seq(OpenLine) : line = <<Queue!Fresh(j)>> /\ Queue!JobsIn(line) = {j} /\ Distinct(line)
  BY FreshIs, OneLine
<1>5. /\ UNCHANGED <<dead, lock, spawnLock, drainer, times, late, deaths, torn, clock>>
      /\ queue' = IF at = "queue" THEN Queue!Appended(queue, line) ELSE queue
      /\ processing' = [d \in Drainers |-> IF at = d THEN Queue!Appended(processing[d], line)
                                                     ELSE processing[d]]
      /\ queued' = queued \cup {j}
  BY <1>3, <1>4 DEF Queue!WriteJob, Queue!counts
<1>6. PICK new \in HostRec : /\ new.pc = "queued" /\ new.job = Queue!Nobody /\ new.at = Queue!Nobody
                             /\ host' = [host EXCEPT ![h] = new]
  <2>1. PICK r \in HostRec : r = Queue!Idle /\ r.job = Queue!Nobody /\ r.at = Queue!Nobody
    BY NoneIs
  <2>2. PICK new : new = [r EXCEPT !.pc = "queued"]
    OBVIOUS
  <2>3. new \in HostRec /\ new.pc = "queued" /\ new.job = Queue!Nobody /\ new.at = Queue!Nobody
    BY <2>1, <2>2 DEF HostRec
  <2>4. QED
    BY <2>1, <2>2, <2>3 DEF Queue!WriteJob
<1>7. /\ host' \in [Hosts -> HostRec] /\ host'[h] = new
      /\ \A g \in Hosts \ {h} : host'[g] = host[g]
  BY <1>1, <1>6, OneHosts
<1>8. queue \in OpenFile /\ queued \subseteq Jobs /\ \A d \in Drainers : processing[d] \in OpenFile
  BY <1>1 DEF QueueTypes
<1>9. /\ queue' \in OpenFile /\ (queue.there => queue'.there) /\ (~queue'.there => queue' = queue)
      /\ Queue!JobsIn(queue'.lines) \subseteq Queue!JobsIn(queue.lines) \cup {j}
      /\ Distinct(queue.lines) /\ j \notin Queue!JobsIn(queue.lines) => Distinct(queue'.lines)
  <2>1. /\ Queue!Appended(queue, line) \in OpenFile /\ Queue!Appended(queue, line).there
        /\ Queue!JobsIn(Queue!Appended(queue, line).lines) = Queue!JobsIn(queue.lines) \cup {j}
        /\ Distinct(queue.lines) /\ j \notin Queue!JobsIn(queue.lines) => Distinct(Queue!Appended(queue, line).lines)
    BY <1>1, <1>4, <1>8, AppendedIs
  <2>2. QED
    BY <1>5, <1>8, <2>1
<1>10. ASSUME NEW d \in Drainers
       PROVE  processing'[d] \in OpenFile /\ processing'[d].there = processing[d].there
              /\ (~processing'[d].there => processing'[d] = processing[d])
  <2>1. Queue!Appended(processing[d], line) \in OpenFile /\ Queue!Appended(processing[d], line).there = TRUE
    BY <1>1, <1>8, AppendedIs
  <2>2. at = d => processing[d].there
    BY <1>1, <1>3 DEF PlaceInv
  <2>3. processing[d].there \in BOOLEAN
    BY <1>8 DEF OpenFile
  <2>4. QED
    BY <1>5, <1>8, <2>1, <2>2, <2>3
<1>11. processing' \in [Drainers -> OpenFile]
  BY <1>5, <1>10
<1>12. QueueTypes'
  BY <1>1, <1>5, <1>7, <1>8, <1>9, <1>10, <1>11 DEF QueueTypes
<1>13. PlaceInv'
  <2>1. \A d \in Drainers : Taken(d)' = Taken(d)
    BY <1>5 DEF Taken
  <2>2. Queue!Nobody \notin Drainers
    BY Queueing DEF Queue!QueueAssumption
  <2>3. ASSUME NEW g \in Hosts
        PROVE  /\ host'[g].at \in Drainers => processing'[host'[g].at].there
               /\ host'[g].pc = "opened" => torn' > 0 /\ host'[g].job \in Jobs
    BY <1>1, <1>5, <1>6, <1>7, <1>10, <2>2 DEF PlaceInv
  <2>4. ASSUME NEW d \in Drainers
        PROVE  /\ drainer'[d].pc \in Before => ~processing'[d].there /\ ~Taken(d)'
               /\ drainer'[d].pc # "drain" => drainer'[d].todo = <<>> /\ drainer'[d].rest = <<>>
    BY <1>1, <1>5, <1>10, <2>1 DEF PlaceInv
  <2>5. QED
    BY <2>3, <2>4 DEF PlaceInv
<1>14. SoleInv'
  BY <1>1, <1>5, <1>6, <1>7, SoleStays, Clocks
<1>15. OnceInv'
  <2> SUFFICES ASSUME clock' = 0, deaths' = 0, ~late' PROVE OnceInv'
    BY DEF OnceInv
  <2>1. clock = 0 /\ deaths = 0 /\ ~late
    BY <1>5
  <2>2. j \notin queued /\ j \notin Queue!JobsIn(queue.lines) /\ \A g \in Hosts \ {h} : host[g].job # j
    BY <1>1, <1>3, <2>1 DEF OnceInv
  <2>3. Distinct(queue'.lines) /\ Queue!JobsIn(queue'.lines) \subseteq queued'
    BY <1>1, <1>5, <1>9, <2>1, <2>2 DEF OnceInv
  <2>4. ASSUME NEW d \in Drainers
        PROVE  /\ Distinct(drainer'[d].todo) /\ Distinct(drainer'[d].rest)
               /\ Queue!JobsIn(drainer'[d].todo) \cap Queue!JobsIn(drainer'[d].rest) = {}
               /\ Held(drainer'[d]) \cap Queue!JobsIn(queue'.lines) = {} /\ Held(drainer'[d]) \subseteq queued'
    BY <1>1, <1>5, <1>9, <2>1, <2>2 DEF OnceInv
  <2>5. ASSUME NEW i \in Jobs
        PROVE  /\ times'[i] <= 1
               /\ times'[i] = 1 => /\ i \in queued' /\ i \notin Queue!JobsIn(queue'.lines)
                                   /\ \A d \in Drainers : i \notin Held(drainer'[d])
    BY <1>1, <1>5, <1>9, <2>1, <2>2 DEF OnceInv
  <2>6. /\ host'[h].job = Queue!Nobody /\ Queue!Nobody \notin Jobs /\ Queue!Nobody \notin queued'
        /\ \A g \in Hosts \ {h} : host'[g].job = host[g].job
    BY <1>5, <1>6, <1>7, <1>8, Queueing DEF Queue!QueueAssumption
  <2>7. ASSUME NEW g \in Hosts, NEW i \in Hosts
        PROVE  /\ host'[g].job \notin queued'
               /\ host'[g].job = host'[i].job /\ host'[g].job \in Jobs => g = i
    BY <1>1, <1>5, <2>1, <2>2, <2>6 DEF OnceInv
  <2>8. QED
    BY <2>3, <2>4, <2>5, <2>7 DEF OnceInv
<1>16. OwedInv'
  BY <1>2, <1>5 DEF OwedInv
<1>17. QED
  BY <1>12, <1>13, <1>14, <1>15, <1>16 DEF QueueInv

-----------------------------------------------------------------------------
(* Steps of a drainer on the lines.                                          *)

\* While the timeout has not gone by a drainer is the only one with lines in hand.
LEMMA AloneHolds ==
  ASSUME QueueTypes, PlaceInv, SoleInv, clock = 0, NEW d \in Drainers, drainer[d].pc # "off"
  PROVE  \A e \in Drainers \ {d} : drainer[e].todo = <<>> /\ drainer[e].rest = <<>>
                                   /\ Held(drainer[e]) = {}
<1>1. \A e \in Drainers \ {d} : drainer[e].pc = "off"
  BY DEF SoleInv
<1>2. \A e \in Drainers \ {d} : drainer[e].todo = <<>> /\ drainer[e].rest = <<>>
  BY <1>1 DEF PlaceInv
<1>3. QED
  BY <1>2, NoLines DEF Held

\* One drainer's lines, those of the queue and the turns recorded stay apart.
Apart(r, lines) ==
  /\ Distinct(lines) /\ Queue!JobsIn(lines) \subseteq queued
  /\ Distinct(r.todo) /\ Distinct(r.rest) /\ Queue!JobsIn(r.todo) \cap Queue!JobsIn(r.rest) = {}
  /\ Held(r) \cap Queue!JobsIn(lines) = {} /\ Held(r) \subseteq queued
  /\ \A j \in Jobs : times[j] <= 1 /\ (times[j] = 1 => /\ j \in queued /\ j \notin Queue!JobsIn(lines)
                                                       /\ j \notin Held(r))

LEMMA ApartBefore ==
  ASSUME OnceInv, clock = 0, deaths = 0, ~late, NEW d \in Drainers
  PROVE  Apart(drainer[d], queue.lines)
  BY DEF OnceInv, Apart

LEMMA ApartAfter ==
  ASSUME QueueTypes, PlaceInv, SoleInv, OnceInv, NEW d \in Drainers, drainer[d].pc # "off",
         \A e \in Drainers \ {d} : drainer'[e] = drainer[e],
         \A h \in Hosts : host'[h].job = host[h].job,
         UNCHANGED <<queued, deaths, clock>>, late => late',
         clock = 0 /\ deaths = 0 /\ ~late' => Apart(drainer[d], queue.lines)'
  PROVE  OnceInv'
<1> SUFFICES ASSUME clock' = 0, deaths' = 0, ~late' PROVE OnceInv'
  BY DEF OnceInv
<1>1. clock = 0 /\ deaths = 0 /\ ~late
  OBVIOUS
<1>2. Apart(drainer[d], queue.lines)'
  BY <1>1
<1>3. \A e \in Drainers \ {d} : drainer'[e].todo = <<>> /\ drainer'[e].rest = <<>>
                                /\ Held(drainer'[e]) = {}
  BY <1>1, AloneHolds
<1>4. ASSUME NEW e \in Drainers
      PROVE  /\ Distinct(drainer'[e].todo) /\ Distinct(drainer'[e].rest)
             /\ Queue!JobsIn(drainer'[e].todo) \cap Queue!JobsIn(drainer'[e].rest) = {}
             /\ Held(drainer'[e]) \cap Queue!JobsIn(queue'.lines) = {} /\ Held(drainer'[e]) \subseteq queued'
  <2>1. CASE e = d
    BY <1>2, <2>1 DEF Apart
  <2>2. CASE e # d
    BY <1>3, <2>2, NoLines
  <2>3. QED
    BY <2>1, <2>2
<1>5. ASSUME NEW j \in Jobs
      PROVE  /\ times'[j] <= 1
             /\ times'[j] = 1 => /\ j \in queued' /\ j \notin Queue!JobsIn(queue'.lines)
                                 /\ \A e \in Drainers : j \notin Held(drainer'[e])
  BY <1>2, <1>3 DEF Apart
<1>6. ASSUME NEW g \in Hosts, NEW i \in Hosts
      PROVE  /\ host'[g].job \notin queued'
             /\ host'[g].job = host'[i].job /\ host'[g].job \in Jobs => g = i
  BY <1>1 DEF OnceInv
<1>7. QED
  BY <1>2, <1>4, <1>5, <1>6 DEF OnceInv, Apart

\* An append under way follows its file.
LEMMA MovedIs ==
  ASSUME QueueTypes, NEW from \in {"queue"} \cup Drainers, NEW to \in {Queue!Nobody} \cup Drainers,
         host' = Queue!Moved(from, to)
  PROVE  /\ host' \in [Hosts -> HostRec]
         /\ \A h \in Hosts : /\ host'[h].pc = host[h].pc /\ host'[h].job = host[h].job
                             /\ host'[h].at = IF host[h].at = from THEN to ELSE host[h].at
<1>1. ASSUME NEW h \in Hosts
      PROVE  /\ host'[h] \in HostRec /\ host'[h].pc = host[h].pc /\ host'[h].job = host[h].job
             /\ host'[h].at = IF host[h].at = from THEN to ELSE host[h].at
  <2>1. PICK r \in HostRec : r = host[h]
    BY HeldLock
  <2>2. host'[h] = IF r.at = from THEN [r EXCEPT !.at = to] ELSE r
    BY <2>1 DEF Queue!Moved
  <2>3. QED
    BY <2>1, <2>2 DEF HostRec
<1>2. QED
  BY <1>1 DEF Queue!Moved

\* The lines a drainer has in hand, and the job it comes to first.
LEMMA InHand ==
  ASSUME QueueTypes, NEW d \in Drainers, drainer[d].todo # <<>>, Queue!Done(d)
  PROVE  /\ drainer' \in [Drainers -> DrainRec] /\ drainer'[d].pc = drainer[d].pc
         /\ drainer'[d].takes = drainer[d].takes /\ drainer'[d].rest = drainer[d].rest
         /\ \A e \in Drainers \ {d} : drainer'[e] = drainer[e]
         /\ Head(drainer[d].todo) \in OpenLine
         /\ Queue!JobsIn(drainer[d].todo) = {Head(drainer[d].todo).job} \cup Queue!JobsIn(drainer'[d].todo)
         /\ Distinct(drainer[d].todo) =>
              Distinct(drainer'[d].todo) /\ Head(drainer[d].todo).job \notin Queue!JobsIn(drainer'[d].todo)
<1>1. PICK r \in DrainRec : r = drainer[d]
  BY HeldLock
<1>2. PICK new : new = [r EXCEPT !.todo = Tail(@)]
  OBVIOUS
<1>3. r.todo \in Seq(OpenLine) /\ r.todo # <<>>
  BY <1>1 DEF DrainRec
<1>4. PICK tail \in Seq(OpenLine) : tail = Tail(r.todo)
  BY <1>3, FirstLine
<1>5. /\ new \in DrainRec /\ new.pc = r.pc /\ new.takes = r.takes /\ new.rest = r.rest /\ new.todo = tail
  BY <1>2, <1>4 DEF DrainRec
<1>6. drainer' = [drainer EXCEPT ![d] = new]
  BY <1>1, <1>2 DEF Queue!Done
<1>7. /\ drainer' \in [Drainers -> DrainRec] /\ drainer'[d] = new
      /\ \A e \in Drainers \ {d} : drainer'[e] = drainer[e]
  BY <1>5, <1>6, OneDrains
<1>8. QED
  BY <1>1, <1>3, <1>4, <1>5, <1>7, FirstLine

LEMMA RememberStep ==
  ASSUME QueueInv, NEW d \in Drainers, Queue!Remember(d)
  PROVE  QueueInv'
<1>1. QueueTypes /\ PlaceInv /\ SoleInv /\ OnceInv /\ OwedInv
  BY DEF QueueInv
<1>2. /\ drainer[d].pc = "drain" /\ drainer[d].todo # <<>> /\ Queue!Done(d)
      /\ UNCHANGED <<queue, processing, dead, lock, spawnLock, host, queued, late, deaths, torn, clock>>
  BY DEF Queue!Remember, Queue!files
<1>3. PICK x \in OpenLine : x = Head(drainer[d].todo)
  BY <1>1, <1>2, InHand
<1>4. /\ drainer' \in [Drainers -> DrainRec] /\ drainer'[d].pc = "drain"
      /\ drainer'[d].takes = drainer[d].takes /\ drainer'[d].rest = drainer[d].rest
      /\ \A e \in Drainers \ {d} : drainer'[e] = drainer[e]
      /\ Queue!JobsIn(drainer[d].todo) = {x.job} \cup Queue!JobsIn(drainer'[d].todo)
      /\ Distinct(drainer[d].todo) => Distinct(drainer'[d].todo) /\ x.job \notin Queue!JobsIn(drainer'[d].todo)
  BY <1>1, <1>2, <1>3, InHand
<1>5. x.job \in Jobs /\ times \in [Jobs -> 0..2] /\ queued \subseteq Jobs
  BY <1>1 DEF OpenLine, QueueTypes
<1>6. times' = [times EXCEPT ![x.job] = IF times[x.job] < 2 THEN times[x.job] + 1 ELSE 2]
  BY <1>3 DEF Queue!Remember, Queue!Recorded
<1>7. /\ times' \in [Jobs -> 0..2] /\ times'[x.job] > 0
      /\ times[x.job] = 0 => times'[x.job] = 1
      /\ \A j \in Jobs \ {x.job} : times'[j] = times[j]
  BY <1>5, <1>6
<1>8. QueueTypes'
  BY <1>1, <1>2, <1>4, <1>7 DEF QueueTypes
<1>9. \A f \in Drainers : Taken(f)' = Taken(f)
  BY <1>4 DEF Taken
<1>10. PlaceInv'
  <2>1. ASSUME NEW e \in Drainers
        PROVE  /\ drainer'[e].pc \in Before => ~processing'[e].there /\ ~Taken(e)'
               /\ drainer'[e].pc # "drain" => drainer'[e].todo = <<>> /\ drainer'[e].rest = <<>>
    BY <1>1, <1>2, <1>4, <1>9 DEF PlaceInv, Before
  <2>2. QED
    BY <1>1, <1>2, <2>1 DEF PlaceInv
<1>11. SoleInv'
  BY <1>1, <1>2, <1>4, SoleStays, Clocks
<1>12. OnceInv'
  <2>1. ASSUME clock = 0, deaths = 0, ~late' PROVE Apart(drainer[d], queue.lines)'
    <3>1. Apart(drainer[d], queue.lines)
      BY <1>1, <1>2, <2>1, ApartBefore
    <3>2. x.job \in Held(drainer[d]) /\ x.job \notin Queue!JobsIn(queue.lines) /\ x.job \in queued
      BY <1>4, <3>1 DEF Apart, Held
    <3>3. times[x.job] = 0
      <4>1. times[x.job] # 1 /\ times[x.job] <= 1 /\ times[x.job] \in 0..2
        BY <1>5, <3>1, <3>2 DEF Apart
      <4>2. QED
        BY <4>1
    <3>4. Held(drainer'[d]) \subseteq Held(drainer[d])
      BY <1>4 DEF Held
    <3>5. x.job \notin Held(drainer'[d])
      BY <1>4, <3>1 DEF Held, Apart
    <3>6. /\ Distinct(queue'.lines) /\ Queue!JobsIn(queue'.lines) \subseteq queued'
          /\ Distinct(drainer'[d].todo) /\ Distinct(drainer'[d].rest)
          /\ Queue!JobsIn(drainer'[d].todo) \cap Queue!JobsIn(drainer'[d].rest) = {}
          /\ Held(drainer'[d]) \cap Queue!JobsIn(queue'.lines) = {} /\ Held(drainer'[d]) \subseteq queued'
      BY <1>2, <1>4, <3>1, <3>4 DEF Apart
    <3>7. ASSUME NEW j \in Jobs
          PROVE  times'[j] <= 1 /\ (times'[j] = 1 => /\ j \in queued' /\ j \notin Queue!JobsIn(queue'.lines)
                                                     /\ j \notin Held(drainer'[d]))
      <4>1. CASE j = x.job
        BY <1>2, <1>7, <3>2, <3>3, <3>5, <4>1
      <4>2. CASE j # x.job
        BY <1>2, <1>7, <3>1, <3>4, <4>2 DEF Apart
      <4>3. QED
        BY <4>1, <4>2
    <3>8. QED
      BY <3>6, <3>7 DEF Apart
  <2>2. QED
    BY <1>1, <1>2, <1>4, <2>1, ApartAfter
<1>13. OwedInv'
  <2>1. ASSUME NEW g \in Drainers, NEW j \in Owed(g) PROVE Somewhere(j)'
    <3>1. CASE g # d
      <4>1. j \in Owed(g)'
        BY <1>2, <1>4, <1>9, <2>1, <3>1 DEF Owed
      <4>2. QED
        BY <4>1 DEF Somewhere
    <3>2. CASE g = d /\ j # x.job
      <4>1. j \in Held(drainer'[d])
        BY <1>2, <1>4, <2>1, <3>2 DEF Owed, Held
      <4>2. j \in Owed(d)'
        BY <1>2, <1>4, <1>9, <2>1, <3>2, <4>1 DEF Owed
      <4>3. QED
        BY <4>2 DEF Somewhere
    <3>3. CASE j = x.job
      BY <1>7, <3>3 DEF Somewhere
    <3>4. QED
      BY <3>1, <3>2, <3>3
  <2>2. \A j \in Jobs : times[j] > 0 => times'[j] > 0
    BY <1>7
  <2>3. \A j \in Queue!JobsIn(queue.lines) : Somewhere(j)'
    BY <1>2 DEF Somewhere
  <2>4. QED
    BY <1>1, <1>2, <1>5, <2>1, <2>2, <2>3, OwedStays
<1>14. QED
  BY <1>8, <1>10, <1>11, <1>12, <1>13 DEF QueueInv

\* A line that was tried goes back with one attempt more, or is dead.
LEMMA TriedIs ==
  ASSUME NEW x \in OpenLine
  PROVE  /\ Queue!Tried(x).job = x.job
         /\ Queue!Retry(x) => Queue!Tried(x) \in OpenLine
         /\ ~Queue!Retry(x) => Queue!Tried(x) \in Queue!Line /\ Queue!Tried(x).attempts = MaxAttempts
<1>1. x.attempts \in 0..MaxAttempts - 1 /\ MaxAttempts \in Nat /\ x.job \in Jobs
  BY Queueing DEF OpenLine, Queue!QueueAssumption
<1>2. Queue!Tried(x) = [job |-> x.job, attempts |-> x.attempts + 1]
  BY DEF Queue!Tried, OpenLine
<1>3. QED
  BY <1>1, <1>2 DEF Queue!Retry, OpenLine, Queue!Line

LEMMA RememberFailsStep ==
  ASSUME QueueInv, NEW d \in Drainers, Queue!RememberFails(d)
  PROVE  QueueInv'
<1>1. QueueTypes /\ PlaceInv /\ SoleInv /\ OnceInv /\ OwedInv
  BY DEF QueueInv
<1>2. /\ drainer[d].pc = "drain" /\ drainer[d].todo # <<>> /\ Queue!Done(d)
      /\ UNCHANGED <<processing, lock, spawnLock, host, queued, deaths, torn, clock>>
  BY DEF Queue!RememberFails
<1>3. PICK x \in OpenLine : x = Head(drainer[d].todo)
  BY <1>1, <1>2, InHand
<1>4. /\ drainer' \in [Drainers -> DrainRec] /\ drainer'[d].pc = "drain"
      /\ drainer'[d].takes = drainer[d].takes /\ drainer'[d].rest = drainer[d].rest
      /\ \A e \in Drainers \ {d} : drainer'[e] = drainer[e]
      /\ Queue!JobsIn(drainer[d].todo) = {x.job} \cup Queue!JobsIn(drainer'[d].todo)
      /\ Distinct(drainer[d].todo) => Distinct(drainer'[d].todo) /\ x.job \notin Queue!JobsIn(drainer'[d].todo)
  BY <1>1, <1>2, <1>3, InHand
<1>5. /\ x.job \in Jobs /\ times \in [Jobs -> 0..2] /\ queued \subseteq Jobs /\ late \in BOOLEAN
      /\ queue \in OpenFile /\ dead \subseteq Queue!Line
  BY <1>1 DEF OpenLine, QueueTypes
<1>6. /\ \/ UNCHANGED <<times, late>>
         \/ times' = Queue!Recorded(x.job) /\ late' = TRUE
      /\ IF Queue!Retry(x) THEN queue' = Queue!Appended(queue, <<Queue!Tried(x)>>) /\ UNCHANGED dead
                     ELSE dead' = dead \cup {Queue!Tried(x)} /\ UNCHANGED queue
  BY <1>3 DEF Queue!RememberFails
<1>7. /\ times' \in [Jobs -> 0..2] /\ late' \in BOOLEAN /\ (late => late')
      /\ ~late' => times' = times
      /\ \A j \in Jobs : times[j] > 0 => times'[j] > 0
  <2>1. CASE UNCHANGED <<times, late>>
    BY <1>5, <2>1
  <2>2. CASE times' = Queue!Recorded(x.job) /\ late' = TRUE
    <3>1. times' = [times EXCEPT ![x.job] = IF times[x.job] < 2 THEN times[x.job] + 1 ELSE 2]
      BY <2>2 DEF Queue!Recorded
    <3>2. times' \in [Jobs -> 0..2] /\ \A j \in Jobs : times[j] > 0 => times'[j] > 0
      BY <1>5, <3>1
    <3>3. QED
      BY <2>2, <3>2
  <2>3. QED
    BY <1>6, <2>1, <2>2
<1>8. /\ queue' \in OpenFile /\ (~queue'.there => queue' = queue) /\ dead \subseteq dead'
      /\ dead' \subseteq Queue!Line /\ \A l \in dead' : l.attempts = MaxAttempts
      /\ Queue!JobsIn(queue'.lines) \subseteq Queue!JobsIn(queue.lines) \cup {x.job}
      /\ Queue!JobsIn(queue.lines) \subseteq Queue!JobsIn(queue'.lines)
      /\ x.job \in Queue!JobsIn(queue'.lines) \/ \E l \in dead' : l.job = x.job
      /\ Distinct(queue.lines) /\ x.job \notin Queue!JobsIn(queue.lines) => Distinct(queue'.lines)
  <2>1. CASE Queue!Retry(x)
    <3>1. PICK line \in Seq(OpenLine) :
            line = <<Queue!Tried(x)>> /\ Queue!JobsIn(line) = {x.job} /\ Distinct(line)
      BY <2>1, TriedIs, OneLine
    <3> queue' = Queue!Appended(queue, line)
      BY <1>6, <2>1, <3>1
    <3>2. /\ queue' \in OpenFile /\ queue'.there /\ Queue!JobsIn(queue'.lines) = Queue!JobsIn(queue.lines) \cup {x.job}
          /\ Distinct(queue.lines) /\ x.job \notin Queue!JobsIn(queue.lines) => Distinct(queue'.lines)
      BY <1>1, <1>5, <3>1, AppendedIs
    <3>3. QED
      BY <1>1, <1>6, <2>1, <3>2 DEF QueueTypes
  <2>2. CASE ~Queue!Retry(x)
    <3>1. Queue!Tried(x) \in Queue!Line /\ Queue!Tried(x).attempts = MaxAttempts /\ Queue!Tried(x).job = x.job
      BY <2>2, TriedIs
    <3>2. QED
      BY <1>1, <1>6, <2>2, <3>1 DEF QueueTypes
  <2>3. QED
    BY <2>1, <2>2
<1>9. QueueTypes'
  BY <1>1, <1>2, <1>4, <1>7, <1>8 DEF QueueTypes
<1>10. \A f \in Drainers : Taken(f)' = Taken(f)
  BY <1>4 DEF Taken
<1>11. PlaceInv'
  <2>1. ASSUME NEW e \in Drainers
        PROVE  /\ drainer'[e].pc \in Before => ~processing'[e].there /\ ~Taken(e)'
               /\ drainer'[e].pc # "drain" => drainer'[e].todo = <<>> /\ drainer'[e].rest = <<>>
    BY <1>1, <1>2, <1>4, <1>10 DEF PlaceInv, Before
  <2>2. QED
    BY <1>1, <1>2, <2>1 DEF PlaceInv
<1>12. SoleInv'
  BY <1>1, <1>2, <1>4, SoleStays, Clocks
<1>13. OnceInv'
  <2>1. ASSUME clock = 0, deaths = 0, ~late' PROVE Apart(drainer[d], queue.lines)'
    <3>1. Apart(drainer[d], queue.lines)
      BY <1>1, <1>2, <1>7, <2>1, ApartBefore
    <3>2. x.job \in Held(drainer[d]) /\ x.job \notin Queue!JobsIn(queue.lines) /\ x.job \in queued
      BY <1>4, <3>1 DEF Apart, Held
    <3>3. Held(drainer'[d]) \subseteq Held(drainer[d]) /\ x.job \notin Held(drainer'[d])
      BY <1>4, <3>1 DEF Held, Apart
    <3>4. /\ Distinct(queue'.lines) /\ Queue!JobsIn(queue'.lines) \subseteq queued'
          /\ Distinct(drainer'[d].todo) /\ Distinct(drainer'[d].rest)
          /\ Queue!JobsIn(drainer'[d].todo) \cap Queue!JobsIn(drainer'[d].rest) = {}
          /\ Held(drainer'[d]) \cap Queue!JobsIn(queue'.lines) = {} /\ Held(drainer'[d]) \subseteq queued'
      BY <1>2, <1>4, <1>8, <3>1, <3>2, <3>3 DEF Apart
    <3>5. ASSUME NEW j \in Jobs
          PROVE  times'[j] <= 1 /\ (times'[j] = 1 => /\ j \in queued' /\ j \notin Queue!JobsIn(queue'.lines)
                                                     /\ j \notin Held(drainer'[d]))
      BY <1>2, <1>7, <1>8, <2>1, <3>1, <3>2, <3>3 DEF Apart
    <3>6. QED
      BY <3>4, <3>5 DEF Apart
  <2>2. QED
    BY <1>1, <1>2, <1>4, <1>7, <2>1, ApartAfter
<1>14. OwedInv'
  <2>1. ASSUME NEW g \in Drainers, NEW j \in Owed(g) PROVE Somewhere(j)'
    <3>1. CASE g # d
      <4>1. j \in Owed(g)'
        BY <1>2, <1>4, <1>10, <2>1, <3>1 DEF Owed
      <4>2. QED
        BY <4>1 DEF Somewhere
    <3>2. CASE g = d /\ j # x.job
      <4>1. j \in Held(drainer'[d])
        BY <1>2, <1>4, <2>1, <3>2 DEF Owed, Held
      <4>2. j \in Owed(d)'
        BY <1>2, <1>4, <1>10, <2>1, <3>2, <4>1 DEF Owed
      <4>3. QED
        BY <4>2 DEF Somewhere
    <3>3. CASE j = x.job
      BY <1>8, <3>3 DEF Somewhere
    <3>4. QED
      BY <3>1, <3>2, <3>3
  <2>2. \A j \in Queue!JobsIn(queue.lines) : Somewhere(j)'
    BY <1>8 DEF Somewhere
  <2>3. QED
    BY <1>1, <1>2, <1>5, <1>7, <1>8, <2>1, <2>2, OwedStays
<1>15. QED
  BY <1>9, <1>11, <1>12, <1>13, <1>14 DEF QueueInv

LEMMA DeferStep ==
  ASSUME QueueInv, NEW d \in Drainers, Queue!Defer(d)
  PROVE  QueueInv'
<1>1. QueueTypes /\ PlaceInv /\ SoleInv /\ OnceInv /\ OwedInv
  BY DEF QueueInv
<1>2. PICK r \in DrainRec : r = drainer[d]
  BY <1>1, HeldLock
<1>3. /\ r.pc = "drain" /\ r.todo = <<>>
      /\ queue' = Queue!Appended(queue, r.rest)
      /\ UNCHANGED <<processing, dead, lock, spawnLock, host, queued, times, late, deaths, torn, clock>>
  BY <1>2 DEF Queue!Defer, Queue!counts
<1>4. PICK new : new = [r EXCEPT !.rest = <<>>]
  OBVIOUS
<1>5. new \in DrainRec /\ new.pc = r.pc /\ new.takes = r.takes /\ new.rest = <<>> /\ new.todo = r.todo
  BY <1>4, NoLines DEF DrainRec
<1>6. /\ drainer' \in [Drainers -> DrainRec] /\ drainer'[d] = new
      /\ \A e \in Drainers \ {d} : drainer'[e] = drainer[e]
  BY <1>1, <1>2, <1>4, <1>5, OneDrains DEF Queue!Defer
<1>7. r.rest \in Seq(OpenLine) /\ queue \in OpenFile /\ queued \subseteq Jobs
  BY <1>1 DEF DrainRec, QueueTypes
<1>8. /\ queue' \in OpenFile /\ queue'.there
      /\ Queue!JobsIn(queue'.lines) = Queue!JobsIn(queue.lines) \cup Queue!JobsIn(r.rest)
      /\ Distinct(queue.lines) /\ Distinct(r.rest) /\ Queue!JobsIn(queue.lines) \cap Queue!JobsIn(r.rest) = {}
           => Distinct(queue'.lines)
  BY <1>1, <1>3, <1>7, AppendedIs
<1>9. Held(drainer[d]) = Queue!JobsIn(r.rest) /\ Held(drainer'[d]) = {}
  BY <1>2, <1>3, <1>5, <1>6, NoLines DEF Held
<1>10. QueueTypes'
  BY <1>1, <1>3, <1>6, <1>8 DEF QueueTypes
<1>11. \A f \in Drainers : Taken(f)' = Taken(f)
  BY <1>2, <1>5, <1>6 DEF Taken
<1>12. PlaceInv'
  <2>1. ASSUME NEW e \in Drainers
        PROVE  /\ drainer'[e].pc \in Before => ~processing'[e].there /\ ~Taken(e)'
               /\ drainer'[e].pc # "drain" => drainer'[e].todo = <<>> /\ drainer'[e].rest = <<>>
    BY <1>1, <1>2, <1>3, <1>5, <1>6, <1>11 DEF PlaceInv, Before
  <2>2. QED
    BY <1>1, <1>3, <2>1 DEF PlaceInv
<1>13. SoleInv'
  BY <1>1, <1>2, <1>3, <1>5, <1>6, SoleStays, Clocks
<1>14. OnceInv'
  <2>1. ASSUME clock = 0, deaths = 0, ~late' PROVE Apart(drainer[d], queue.lines)'
    <3>1. Apart(drainer[d], queue.lines)
      BY <1>1, <1>3, <2>1, ApartBefore
    <3>2. /\ Distinct(r.rest) /\ Queue!JobsIn(queue.lines) \cap Queue!JobsIn(r.rest) = {}
          /\ Queue!JobsIn(r.rest) \subseteq queued /\ Distinct(queue.lines)
      BY <1>2, <1>9, <3>1 DEF Apart
    <3>3. /\ Distinct(drainer'[d].todo) /\ Distinct(drainer'[d].rest)
          /\ Queue!JobsIn(drainer'[d].todo) \cap Queue!JobsIn(drainer'[d].rest) = {}
      BY <1>3, <1>5, <1>6, NoLines
    <3>4. QED
      BY <1>2, <1>3, <1>8, <1>9, <3>1, <3>2, <3>3 DEF Apart
  <2>2. QED
    BY <1>1, <1>2, <1>3, <1>6, <2>1, ApartAfter
<1>15. OwedInv'
  <2>1. ASSUME NEW g \in Drainers, NEW j \in Owed(g) PROVE Somewhere(j)'
    <3>1. CASE g # d
      <4>1. j \in Owed(g)'
        BY <1>3, <1>6, <1>11, <2>1, <3>1 DEF Owed
      <4>2. QED
        BY <4>1 DEF Somewhere
    <3>2. CASE g = d
      <4>1. j \in Queue!JobsIn(r.rest)
        BY <1>2, <1>3, <1>9, <2>1, <3>2 DEF Owed
      <4>2. QED
        BY <1>8, <4>1 DEF Somewhere
    <3>3. QED
      BY <3>1, <3>2
  <2>2. \A j \in Queue!JobsIn(queue.lines) : Somewhere(j)'
    BY <1>8 DEF Somewhere
  <2>3. QED
    BY <1>1, <1>3, <1>7, <2>1, <2>2, OwedStays
<1>16. QED
  BY <1>10, <1>12, <1>13, <1>14, <1>15 DEF QueueInv

-----------------------------------------------------------------------------
(* Steps on the files of drainers.                                           *)

\* A drainer takes up a file, or lets it go: nothing else of it changes.
LEMMA TakesIs ==
  ASSUME QueueTypes, NEW d \in Drainers, NEW f \in Drainers \cup {Queue!Nobody},
         drainer' = [drainer EXCEPT ![d].takes = f]
  PROVE  /\ drainer' \in [Drainers -> DrainRec] /\ drainer'[d].takes = f
         /\ \A e \in Drainers : /\ drainer'[e].pc = drainer[e].pc
                                /\ drainer'[e].todo = drainer[e].todo
                                /\ drainer'[e].rest = drainer[e].rest
                                /\ Held(drainer'[e]) = Held(drainer[e])
                                /\ e # d => drainer'[e] = drainer[e]
<1>1. PICK r \in DrainRec : r = drainer[d]
  BY HeldLock
<1>2. PICK new : new = [r EXCEPT !.takes = f]
  OBVIOUS
<1>3. /\ new \in DrainRec /\ new.takes = f /\ new.pc = r.pc /\ new.todo = r.todo /\ new.rest = r.rest
  BY <1>2 DEF DrainRec
<1>4. /\ drainer' \in [Drainers -> DrainRec] /\ drainer'[d] = new
      /\ \A e \in Drainers \ {d} : drainer'[e] = drainer[e]
  BY <1>1, <1>2, <1>3, OneDrains
<1>5. QED
  BY <1>1, <1>3, <1>4 DEF Held

\* The lines of a file left behind are in the queue before the file is removed.
LEMMA RecoverAppendStep ==
  ASSUME QueueInv, NEW d \in Drainers, NEW f \in Drainers, Queue!RecoverAppend(d, f)
  PROVE  QueueInv'
<1>1. QueueTypes /\ PlaceInv /\ OwedInv
  BY DEF QueueInv
<1>2. /\ UNCHANGED <<processing, dead, lock, spawnLock, host, queued, times, late, deaths, torn, clock>>
      /\ queue' = Queue!Appended(queue, processing[f].lines)
      /\ drainer[d].pc = "recover" /\ drainer[d].takes = Queue!Nobody
      /\ processing[f].there /\ Queue!Stale(processing[f].mtime)
      /\ drainer' = [drainer EXCEPT ![d].takes = f]
  BY DEF Queue!RecoverAppend, Queue!Left, Queue!counts
<1>3. clock # 0
  BY <1>1, <1>2, NothingStale
<1>4. /\ drainer' \in [Drainers -> DrainRec] /\ drainer'[d].takes = f
      /\ \A e \in Drainers : /\ drainer'[e].pc = drainer[e].pc
                             /\ drainer'[e].todo = drainer[e].todo
                             /\ drainer'[e].rest = drainer[e].rest
                             /\ Held(drainer'[e]) = Held(drainer[e])
                             /\ e # d => drainer'[e] = drainer[e]
  BY <1>1, <1>2, TakesIs
<1>5. queue \in OpenFile /\ processing[f].lines \in Seq(OpenLine) /\ queued \subseteq Jobs
  BY <1>1 DEF QueueTypes, OpenFile
<1>6. /\ queue' \in OpenFile /\ queue'.there
      /\ Queue!JobsIn(queue'.lines) = Queue!JobsIn(queue.lines) \cup Queue!JobsIn(processing[f].lines)
  BY <1>1, <1>2, <1>5, AppendedIs
<1>7. QueueTypes'
  BY <1>1, <1>2, <1>4, <1>6 DEF QueueTypes
<1>8. \A g \in Drainers : Taken(g)' => Taken(g) \/ g = f
  BY <1>4 DEF Taken
<1>9. PlaceInv'
  <2>1. drainer[f].pc \notin Before
    BY <1>1, <1>2 DEF PlaceInv
  <2>2. ASSUME NEW e \in Drainers
        PROVE  /\ drainer'[e].pc \in Before => ~processing'[e].there /\ ~Taken(e)'
               /\ drainer'[e].pc # "drain" => drainer'[e].todo = <<>> /\ drainer'[e].rest = <<>>
    BY <1>1, <1>2, <1>4, <1>8, <2>1 DEF PlaceInv
  <2>3. QED
    BY <1>1, <1>2, <2>2 DEF PlaceInv
<1>10. SoleInv' /\ OnceInv'
  BY <1>2, <1>3 DEF SoleInv, OnceInv
<1>11. OwedInv'
  <2>1. ASSUME NEW g \in Drainers, NEW j \in Owed(g) PROVE Somewhere(j)'
    <3>1. CASE g # f
      <4>1. j \in Owed(g)'
        BY <1>2, <1>4, <1>8, <2>1, <3>1 DEF Owed
      <4>2. QED
        BY <4>1 DEF Somewhere
    <3>2. CASE g = f
      <4>1. j \in Queue!JobsIn(queue'.lines)
        BY <1>6, <2>1, <3>2 DEF Owed
      <4>2. QED
        BY <4>1 DEF Somewhere
    <3>3. QED
      BY <3>1, <3>2
  <2>2. \A j \in Queue!JobsIn(queue.lines) : Somewhere(j)'
    BY <1>6 DEF Somewhere
  <2>3. QED
    BY <1>1, <1>2, <1>5, <2>1, <2>2, OwedStays
<1>12. QED
  BY <1>7, <1>9, <1>10, <1>11 DEF QueueInv

LEMMA RecoverRemoveStep ==
  ASSUME QueueInv, NEW d \in Drainers, Queue!RecoverRemove(d)
  PROVE  QueueInv'
<1>1. QueueTypes /\ PlaceInv /\ SoleInv /\ OnceInv /\ OwedInv
  BY DEF QueueInv
<1>2. PICK f \in Drainers : f = drainer[d].takes
  <2>1. drainer[d].takes \in Drainers \cup {Queue!Nobody} /\ drainer[d].takes # Queue!Nobody
    BY <1>1, HeldLock DEF DrainRec, Queue!RecoverRemove
  <2>2. QED
    BY <2>1
<1>3. /\ UNCHANGED <<queue, dead, lock, spawnLock, queued, times, late, deaths, torn, clock>>
      /\ processing' = [processing EXCEPT ![f] = Queue!NoFile] /\ host' = Queue!Moved(f, Queue!Nobody)
      /\ drainer' = [drainer EXCEPT ![d].takes = Queue!Nobody]
  BY <1>2 DEF Queue!RecoverRemove, Queue!counts
<1>4. /\ drainer' \in [Drainers -> DrainRec] /\ drainer'[d].takes = Queue!Nobody
      /\ \A e \in Drainers : /\ drainer'[e].pc = drainer[e].pc
                             /\ drainer'[e].todo = drainer[e].todo
                             /\ drainer'[e].rest = drainer[e].rest
                             /\ Held(drainer'[e]) = Held(drainer[e])
                             /\ e # d => drainer'[e] = drainer[e]
  BY <1>1, <1>3, TakesIs
<1>5. /\ host' \in [Hosts -> HostRec]
      /\ \A h \in Hosts : /\ host'[h].pc = host[h].pc /\ host'[h].job = host[h].job
                          /\ host'[h].at = IF host[h].at = f THEN Queue!Nobody ELSE host[h].at
  BY <1>1, <1>3, MovedIs
<1>6. /\ processing' \in [Drainers -> OpenFile] /\ processing'[f] = Queue!NoFile
      /\ \A g \in Drainers \ {f} : processing'[g] = processing[g]
  BY <1>1, <1>3, NoneIs DEF QueueTypes
<1>7. QueueTypes'
  BY <1>1, <1>3, <1>4, <1>5, <1>6 DEF QueueTypes
<1>8. Queue!Nobody \notin Drainers /\ "queue" \notin Drainers
  BY Queueing DEF Queue!QueueAssumption
<1>9. \A g \in Drainers : Taken(g)' => Taken(g)
  BY <1>4, <1>8 DEF Taken
<1>10. PlaceInv'
  <2>1. ASSUME NEW e \in Drainers
        PROVE  /\ drainer'[e].pc \in Before => ~processing'[e].there /\ ~Taken(e)'
               /\ drainer'[e].pc # "drain" => drainer'[e].todo = <<>> /\ drainer'[e].rest = <<>>
    BY <1>1, <1>4, <1>6, <1>9, NoneIs DEF PlaceInv
  <2>2. ASSUME NEW g \in Hosts
        PROVE  /\ host'[g].at \in Drainers => processing'[host'[g].at].there
               /\ host'[g].pc = "opened" => torn' > 0 /\ host'[g].job \in Jobs
    BY <1>1, <1>3, <1>5, <1>6, <1>8 DEF PlaceInv
  <2>3. QED
    BY <2>1, <2>2 DEF PlaceInv
<1>11. SoleInv'
  BY <1>1, <1>3, <1>4, <1>5, SoleStays, Clocks
<1>12. OnceInv'
  <2> SUFFICES ASSUME clock' = 0, deaths' = 0, ~late' PROVE OnceInv'
    BY DEF OnceInv
  <2>1. clock = 0 /\ deaths = 0 /\ ~late
    BY <1>3
  <2>2. Distinct(queue'.lines) /\ Queue!JobsIn(queue'.lines) \subseteq queued'
    BY <1>1, <1>3, <2>1 DEF OnceInv
  <2>3. ASSUME NEW e \in Drainers
        PROVE  /\ Distinct(drainer'[e].todo) /\ Distinct(drainer'[e].rest)
               /\ Queue!JobsIn(drainer'[e].todo) \cap Queue!JobsIn(drainer'[e].rest) = {}
               /\ Held(drainer'[e]) \cap Queue!JobsIn(queue'.lines) = {} /\ Held(drainer'[e]) \subseteq queued'
    <3>1. /\ drainer'[e].todo = drainer[e].todo /\ drainer'[e].rest = drainer[e].rest
          /\ Held(drainer'[e]) = Held(drainer[e])
      BY <1>4
    <3>2. QED
      BY <1>1, <1>3, <2>1, <3>1 DEF OnceInv
  <2>4. ASSUME NEW j \in Jobs
        PROVE  /\ times'[j] <= 1
               /\ times'[j] = 1 => /\ j \in queued' /\ j \notin Queue!JobsIn(queue'.lines)
                                   /\ \A e \in Drainers : j \notin Held(drainer'[e])
    <3>1. \A e \in Drainers : Held(drainer'[e]) = Held(drainer[e])
      BY <1>4
    <3>2. QED
      BY <1>1, <1>3, <2>1, <3>1 DEF OnceInv
  <2>5. ASSUME NEW g \in Hosts, NEW i \in Hosts
        PROVE  /\ host'[g].job \notin queued'
               /\ host'[g].job = host'[i].job /\ host'[g].job \in Jobs => g = i
    BY <1>1, <1>3, <1>5, <2>1 DEF OnceInv
  <2>6. QED
    BY <2>2, <2>3, <2>4, <2>5 DEF OnceInv
<1>13. OwedInv'
  <2>1. ASSUME NEW g \in Drainers, NEW j \in Owed(g) PROVE Somewhere(j)'
    <3>1. g # f
      BY <1>2, <2>1 DEF Owed, Taken
    <3>2. j \in Owed(g)'
      BY <1>4, <1>6, <1>9, <2>1, <3>1 DEF Owed
    <3>3. QED
      BY <3>2 DEF Somewhere
  <2>2. \A j \in Queue!JobsIn(queue.lines) : Somewhere(j)'
    BY <1>3 DEF Somewhere
  <2>3. queued \subseteq Jobs
    BY <1>1 DEF QueueTypes
  <2>4. QED
    BY <1>1, <1>3, <2>1, <2>2, <2>3, OwedStays
<1>14. QED
  BY <1>7, <1>10, <1>11, <1>12, <1>13 DEF QueueInv

\* The queue becomes the file of the drainer, which is to do or defer all its lines.
LEMMA RenameStep ==
  ASSUME QueueInv, NEW d \in Drainers, Queue!Rename(d)
  PROVE  QueueInv'
<1>1. QueueTypes /\ PlaceInv /\ SoleInv /\ OnceInv /\ OwedInv
  BY DEF QueueInv
<1>2. CASE ~queue.there
  <2>1. /\ drainer' = [drainer EXCEPT ![d].pc = "close"] /\ lock' = Queue!NoLock /\ drainer[d].pc = "open"
        /\ UNCHANGED <<Queue!files, spawnLock, host, queued, times, late, deaths, torn, clock>>
    BY <1>2 DEF Queue!Rename, Queue!counts, Queue!files
  <2>2. lock' \in LockRec /\ drainer[d].pc \in Before
    BY <2>1, NoneIs DEF Before
  <2>3. PICK pc \in {"lock", "stale", "open", "close"} : pc = "close"
    OBVIOUS
  <2>4. drainer' = [drainer EXCEPT ![d].pc = pc] /\ pc # "stale" /\ pc # "open"
    BY <2>1, <2>3
  <2>5. QED
    BY <2>1, <2>2, <2>4, WaitsMoves
<1>3. CASE queue.there
  <2>1. PICK r \in DrainRec : r = drainer[d]
    BY <1>1, HeldLock
  <2>2. PICK s \in Seq(OpenLine) : s = queue.lines
    BY <1>1 DEF QueueTypes, OpenFile
  <2>3. PICK todo \in Seq(OpenLine), rest \in Seq(OpenLine) : todo = Queue!Batch(s) /\ rest = Queue!Deferred(s)
    BY LinesSplit
  <2>4. /\ Queue!JobsIn(s) = Queue!JobsIn(todo) \cup Queue!JobsIn(rest)
        /\ Distinct(s) => Distinct(todo) /\ Distinct(rest) /\ Queue!JobsIn(todo) \cap Queue!JobsIn(rest) = {}
    BY <2>3, LinesSplit
  <2>5. PICK new : new = [r EXCEPT !.pc = "drain", !.todo = todo, !.rest = rest]
    OBVIOUS
  <2>6. new \in DrainRec /\ new.pc = "drain" /\ new.todo = todo /\ new.rest = rest /\ new.takes = r.takes
    BY <2>5 DEF DrainRec, QueuePlaces
  <2>7. /\ drainer[d].pc = "open" /\ queue' = Queue!NoFile /\ processing' = [processing EXCEPT ![d] = queue]
        /\ host' = Queue!Moved("queue", d) /\ drainer' = [drainer EXCEPT ![d] = new]
        /\ UNCHANGED <<dead, lock, spawnLock, queued, times, late, deaths, torn, clock>>
    BY <1>3, <2>1, <2>2, <2>3, <2>5 DEF Queue!Rename, Queue!counts
  <2>8. /\ drainer' \in [Drainers -> DrainRec] /\ drainer'[d] = new
        /\ \A e \in Drainers \ {d} : drainer'[e] = drainer[e]
    BY <1>1, <2>6, <2>7, OneDrains
  <2>9. /\ host' \in [Hosts -> HostRec]
        /\ \A h \in Hosts : /\ host'[h].pc = host[h].pc /\ host'[h].job = host[h].job
                            /\ host'[h].at = IF host[h].at = "queue" THEN d ELSE host[h].at
    BY <1>1, <2>7, MovedIs
  <2>10. /\ processing' \in [Drainers -> OpenFile] /\ processing'[d] = queue
         /\ \A g \in Drainers \ {d} : processing'[g] = processing[g]
    BY <1>1, <2>7 DEF QueueTypes
  <2>11. QueueTypes'
    BY <1>1, <1>3, <2>7, <2>8, <2>9, <2>10, NoneIs DEF QueueTypes
  <2>12. ~Taken(d) /\ ~processing[d].there /\ processing[d] = Queue!NoFile
    BY <1>1, <2>7 DEF PlaceInv, Before, QueueTypes
  <2>13. \A f \in Drainers : Taken(f)' = Taken(f)
    BY <2>1, <2>6, <2>8 DEF Taken
  <2>14. PlaceInv'
    <3>1. ASSUME NEW e \in Drainers
          PROVE  /\ drainer'[e].pc \in Before => ~processing'[e].there /\ ~Taken(e)'
                 /\ drainer'[e].pc # "drain" => drainer'[e].todo = <<>> /\ drainer'[e].rest = <<>>
      BY <1>1, <2>6, <2>8, <2>10, <2>13 DEF PlaceInv, Before
    <3>2. ASSUME NEW g \in Hosts
          PROVE  /\ host'[g].at \in Drainers => processing'[host'[g].at].there
                 /\ host'[g].pc = "opened" => torn' > 0 /\ host'[g].job \in Jobs
      BY <1>1, <1>3, <2>7, <2>9, <2>10 DEF PlaceInv
    <3>3. QED
      BY <3>1, <3>2 DEF PlaceInv
  <2>15. SoleInv'
    <3>1. clock = 0 => lock'.held
      BY <1>1, <2>7 DEF SoleInv
    <3>2. CASE clock = 0
      BY <1>1, <2>6, <2>7, <2>8, <2>9, <3>1, <3>2, SoleMoves
    <3>3. CASE clock # 0
      BY <2>7, <3>3 DEF SoleInv
    <3>4. QED
      BY <3>2, <3>3
  <2>16. Held(drainer'[d]) = Queue!JobsIn(s) /\ Queue!JobsIn(queue'.lines) = {} /\ Distinct(queue'.lines)
    BY <2>4, <2>6, <2>7, <2>8, NoneIs, NoLines DEF Held
  <2>17. OnceInv'
    <3>1. ASSUME clock = 0, deaths = 0, ~late' PROVE Apart(drainer[d], queue.lines)'
      <4>1. Apart(drainer[d], queue.lines)
        BY <1>1, <2>7, <3>1, ApartBefore
      <4>2. /\ Distinct(drainer'[d].todo) /\ Distinct(drainer'[d].rest)
            /\ Queue!JobsIn(drainer'[d].todo) \cap Queue!JobsIn(drainer'[d].rest) = {}
        BY <2>2, <2>4, <2>6, <2>8, <4>1 DEF Apart
      <4>3. QED
        BY <2>2, <2>7, <2>16, <4>1, <4>2 DEF Apart
    <3>2. QED
      BY <1>1, <2>7, <2>8, <2>9, <3>1, ApartAfter
  <2>18. OwedInv'
    <3>1. ASSUME NEW g \in Drainers, NEW j \in Owed(g) PROVE Somewhere(j)'
      <4>1. g # d
        BY <2>12, <3>1, NoneIs, NoLines DEF Owed
      <4>2. j \in Owed(g)'
        BY <2>8, <2>10, <2>13, <3>1, <4>1 DEF Owed
      <4>3. QED
        BY <4>2 DEF Somewhere
    <3>2. ASSUME NEW j \in Queue!JobsIn(queue.lines) PROVE Somewhere(j)'
      <4>1. j \in Owed(d)'
        BY <2>2, <2>10, <2>12, <2>13, <2>16, <3>2 DEF Owed
      <4>2. QED
        BY <4>1 DEF Somewhere
    <3>3. queued \subseteq Jobs
      BY <1>1 DEF QueueTypes
    <3>4. QED
      BY <1>1, <2>7, <3>1, <3>2, <3>3, OwedStays
  <2>19. QED
    BY <2>11, <2>14, <2>15, <2>17, <2>18 DEF QueueInv
<1>4. QED
  BY <1>2, <1>3

\* The file is removed once all its lines are done.
LEMMA QueueFinishStep ==
  ASSUME QueueInv, NEW d \in Drainers, Queue!Finish(d)
  PROVE  QueueInv'
<1>1. QueueTypes /\ PlaceInv /\ SoleInv /\ OnceInv /\ OwedInv
  BY DEF QueueInv
<1>2. PICK r \in DrainRec : r = drainer[d]
  BY <1>1, HeldLock
<1>3. PICK new : new = [r EXCEPT !.pc = "close"]
  OBVIOUS
<1>4. new \in DrainRec /\ new.pc = "close" /\ new.todo = r.todo /\ new.rest = r.rest /\ new.takes = r.takes
  BY <1>3 DEF DrainRec, QueuePlaces
<1>5. /\ r.pc = "drain" /\ r.todo = <<>> /\ r.rest = <<>> /\ lock' = Queue!NoLock
      /\ processing' = [processing EXCEPT ![d] = Queue!NoFile] /\ host' = Queue!Moved(d, Queue!Nobody)
      /\ drainer' = [drainer EXCEPT ![d] = new]
      /\ UNCHANGED <<queue, dead, spawnLock, queued, times, late, deaths, torn, clock>>
  BY <1>2, <1>3 DEF Queue!Finish, Queue!counts
<1>6. /\ drainer' \in [Drainers -> DrainRec] /\ drainer'[d] = new
      /\ \A e \in Drainers \ {d} : drainer'[e] = drainer[e]
  BY <1>1, <1>4, <1>5, OneDrains
<1>7. /\ host' \in [Hosts -> HostRec]
      /\ \A h \in Hosts : /\ host'[h].pc = host[h].pc /\ host'[h].job = host[h].job
                          /\ host'[h].at = IF host[h].at = d THEN Queue!Nobody ELSE host[h].at
  <2>1. host' = Queue!Moved(d, Queue!Nobody)
    BY <1>5
  <2>2. d \in {"queue"} \cup Drainers /\ Queue!Nobody \in {Queue!Nobody} \cup Drainers
    OBVIOUS
  <2>3. QED
    BY <1>1, <2>1, <2>2, MovedIs
<1>8. /\ processing' \in [Drainers -> OpenFile] /\ processing'[d] = Queue!NoFile
      /\ \A g \in Drainers \ {d} : processing'[g] = processing[g]
  BY <1>1, <1>5, NoneIs DEF QueueTypes
<1>9. QueueTypes'
  BY <1>1, <1>5, <1>6, <1>7, <1>8, NoneIs DEF QueueTypes
<1>10. Queue!Nobody \notin Drainers
  BY Queueing DEF Queue!QueueAssumption
<1>11. \A f \in Drainers : Taken(f)' = Taken(f)
  BY <1>2, <1>4, <1>6 DEF Taken
<1>12. PlaceInv'
  <2>1. ASSUME NEW e \in Drainers
        PROVE  /\ drainer'[e].pc \in Before => ~processing'[e].there /\ ~Taken(e)'
               /\ drainer'[e].pc # "drain" => drainer'[e].todo = <<>> /\ drainer'[e].rest = <<>>
    BY <1>1, <1>4, <1>5, <1>6, <1>8, <1>11 DEF PlaceInv, Before
  <2>2. ASSUME NEW g \in Hosts
        PROVE  /\ host'[g].at \in Drainers => processing'[host'[g].at].there
               /\ host'[g].pc = "opened" => torn' > 0 /\ host'[g].job \in Jobs
    BY <1>1, <1>5, <1>7, <1>8, <1>10 DEF PlaceInv
  <2>3. QED
    BY <2>1, <2>2 DEF PlaceInv
<1>13. SoleInv'
  BY <1>1, <1>2, <1>4, <1>5, <1>6, <1>7, SoleMoves
<1>14. Held(drainer[d]) = {} /\ Held(drainer'[d]) = {}
  BY <1>2, <1>4, <1>5, <1>6, NoLines DEF Held
<1>15. OnceInv'
  <2>1. ASSUME clock = 0, deaths = 0, ~late' PROVE Apart(drainer[d], queue.lines)'
    <3>1. Apart(drainer[d], queue.lines)
      BY <1>1, <1>5, <2>1, ApartBefore
    <3>2. QED
      BY <1>2, <1>4, <1>5, <1>6, <1>14, <3>1 DEF Apart
  <2>2. QED
    BY <1>1, <1>2, <1>5, <1>6, <1>7, <2>1, ApartAfter
<1>16. OwedInv'
  <2>1. ASSUME NEW g \in Drainers, NEW j \in Owed(g) PROVE Somewhere(j)'
    <3>1. g # d
      BY <1>2, <1>5, <1>14, <2>1 DEF Owed
    <3>2. j \in Owed(g)'
      BY <1>6, <1>8, <1>11, <2>1, <3>1 DEF Owed
    <3>3. QED
      BY <3>2 DEF Somewhere
  <2>2. \A j \in Queue!JobsIn(queue.lines) : Somewhere(j)'
    BY <1>5 DEF Somewhere
  <2>3. queued \subseteq Jobs
    BY <1>1 DEF QueueTypes
  <2>4. QED
    BY <1>1, <1>5, <2>1, <2>2, <2>3, OwedStays
<1>17. QED
  BY <1>9, <1>12, <1>13, <1>15, <1>16 DEF QueueInv

-----------------------------------------------------------------------------
(* The invariant, and what it says.                                          *)

LEMMA QueueInit == Queue!Init => QueueInv
<1> SUFFICES ASSUME Queue!Init PROVE QueueInv
  OBVIOUS
<1>1. /\ {MaxDeaths, MaxTorn, MaxClock} \subseteq Nat /\ Queue!Nobody \notin Jobs \cup Drainers
      /\ queue = Queue!NoFile /\ processing = [d \in Drainers |-> Queue!NoFile] /\ dead = {}
      /\ lock = Queue!NoLock /\ spawnLock = Queue!NoLock
      /\ host = [h \in Hosts |-> Queue!Idle] /\ drainer = [d \in Drainers |-> Queue!Off]
      /\ queued = {} /\ times = [j \in Jobs |-> 0] /\ late = FALSE
      /\ deaths = 0 /\ torn = 0 /\ clock = 0
  BY Queueing DEF Queue!Init, Queue!QueueAssumption
<1>2. /\ \A d \in Drainers : drainer[d] = Queue!Off /\ processing[d] = Queue!NoFile
      /\ \A h \in Hosts : host[h] = Queue!Idle
  BY <1>1
<1>3. QueueTypes
  <2>1. deaths \in 0..MaxDeaths /\ torn \in 0..MaxTorn /\ clock \in 0..MaxClock
    BY <1>1
  <2>2. times \in [Jobs -> 0..2]
    BY <1>1
  <2>3. /\ host \in [Hosts -> HostRec] /\ drainer \in [Drainers -> DrainRec]
        /\ processing \in [Drainers -> OpenFile] /\ queue \in OpenFile
        /\ lock \in LockRec /\ spawnLock \in LockRec
    BY <1>1, NoneIs
  <2>4. QED
    BY <1>1, <1>2, <2>1, <2>2, <2>3 DEF QueueTypes
<1>4. \A d \in Drainers : ~Taken(d) /\ Held(drainer[d]) = {}
  BY <1>1, <1>2, NoneIs, NoLines DEF Taken, Held
<1>5. PlaceInv
  BY <1>1, <1>2, <1>4, NoneIs DEF PlaceInv
<1>6. SoleInv
  BY <1>2, NoneIs DEF SoleInv
<1>7. OnceInv
  <2>1. Distinct(queue.lines) /\ Queue!JobsIn(queue.lines) = {}
    BY <1>1, NoneIs, NoLines
  <2>2. \A d \in Drainers : drainer[d].todo = <<>> /\ drainer[d].rest = <<>>
    BY <1>2, NoneIs
  <2>3. \A h \in Hosts : host[h].job \notin Jobs /\ host[h].job \notin queued
    BY <1>1, <1>2, NoneIs
  <2>4. \A j \in Jobs : times[j] = 0
    BY <1>1
  <2>5. QED
    BY <1>1, <1>4, <2>1, <2>2, <2>3, <2>4, NoLines DEF OnceInv
<1>8. OwedInv
  BY <1>1 DEF OwedInv
<1>9. QED
  BY <1>3, <1>5, <1>6, <1>7, <1>8 DEF QueueInv

LEMMA QueueNext == QueueInv /\ [Queue!Next]_(Queue!vars) => QueueInv'
<1> SUFFICES ASSUME QueueInv, [Queue!Next]_(Queue!vars) PROVE QueueInv'
  OBVIOUS
<1>1. CASE UNCHANGED Queue!vars
  <2>1. QueueTypes /\ PlaceInv /\ SoleInv /\ OnceInv /\ OwedInv
    BY DEF QueueInv
  <2>2. UNCHANGED <<queue, processing, dead, lock, spawnLock, host, drainer, queued, times, late,
                    deaths, torn, clock>>
    BY <1>1 DEF Queue!vars
  <2>3. Calm
    <3>1. ASSUME NEW d \in Drainers PROVE LetsGo(d)
      BY <2>2 DEF LetsGo
    <3>2. ASSUME NEW h \in Hosts PROVE EndsNone(h)
      BY <2>2 DEF EndsNone
    <3>3. QED
      BY <2>1, <2>2, <3>1, <3>2, Clocks DEF Calm
  <2>4. QueueTypes' /\ SoleInv'
    BY <2>1, <2>2 DEF QueueTypes, SoleInv
  <2>5. QED
    BY <2>1, <2>3, <2>4, CalmKeeps DEF QueueInv
<1>2. CASE Queue!Elapse
  BY <1>2, QueueElapseStep
<1>3. ASSUME NEW d \in Drainers, Queue!Drain(d) \/ Queue!OpenFails(d) \/ Queue!DrainerDies(d) PROVE QueueInv'
  <2>1. CASE Queue!Drain(d)
    BY <2>1, RecoverAppendStep, RecoverRemoveStep, LockingStep, RenameStep, RememberStep,
       RememberFailsStep, DeferStep, QueueFinishStep, DrainerEndsStep DEF Queue!Drain
  <2>2. QED
    BY <1>3, <2>1, DrainerEndsStep
<1>4. ASSUME NEW h \in Hosts, Queue!Hook(h) \/ Queue!HostDies(h) PROVE QueueInv'
  <2>1. CASE Queue!Hook(h)
    BY <2>1, EnqueueStep, OpenQueueStep, WriteJobStep, SkipSpawnStep, TakeSpawnLockStep, SpawnStep
       DEF Queue!Hook
  <2>2. QED
    BY <1>4, <2>1, HostDiesStep
<1>5. QED
  BY <1>1, <1>2, <1>3, <1>4 DEF Queue!Next

THEOREM QueueHolds == Queue!Spec => []QueueInv
<1>1. QED
  BY QueueInit, QueueNext, PTL DEF Queue!Spec

\* A turn whose job was appended is recorded or is in a file, whoever died.
THEOREM JobsKept == Queue!Spec => []Queue!KeptUnlessTorn
<1>1. QueueInv => Queue!KeptUnlessTorn
  <2> SUFFICES ASSUME QueueInv, torn = 0, NEW j \in queued PROVE times[j] > 0 \/ j \in Queue!Kept
    BY DEF Queue!KeptUnlessTorn, Queue!NoJobLost
  <2>1. Somewhere(j)
    BY DEF QueueInv, OwedInv
  <2>2. \A g \in Drainers : j \in Owed(g) => j \in Queue!JobsIn(processing[g].lines)
    BY DEF Owed
  <2>3. QED
    BY <2>1, <2>2 DEF Somewhere, Queue!Kept
<1>2. QED
  BY <1>1, QueueHolds, PTL

THEOREM OnceHolds == Queue!Spec => []Queue!RecordedOnce
<1>1. QueueInv => Queue!RecordedOnce
  BY DEF QueueInv, OnceInv, Queue!RecordedOnce
<1>2. QED
  BY <1>1, QueueHolds, PTL

THEOREM AloneHeld == Queue!Spec => []Queue!WorksAlone
<1>1. QueueInv => Queue!WorksAlone
  <2> SUFFICES ASSUME QueueInv, clock = 0
               PROVE  Cardinality(Queue!Working) <= 1 /\ (Queue!Working # {} => lock.held)
    BY QueueCount DEF Queue!WorksAlone
  <2>1. /\ \A d, e \in Drainers : drainer[d].pc # "off" /\ drainer[e].pc # "off" => d = e
        /\ \A d \in Drainers : drainer[d].pc \in {"open", "drain"} => lock.held
    BY DEF QueueInv, SoleInv
  <2>2. CASE Queue!Working = {}
    BY <2>2, FS_EmptySet
  <2>3. CASE Queue!Working # {}
    <3>1. PICK d \in Drainers : drainer[d].pc \in {"open", "drain"}
      BY <2>3 DEF Queue!Working
    <3>2. Queue!Working = {d}
      BY <2>1, <3>1 DEF Queue!Working
    <3>3. Cardinality(Queue!Working) = 1
      BY <3>2, FS_Singleton
    <3>4. QED
      BY <2>1, <3>1, <3>3
  <2>4. QED
    BY <2>2, <2>3
<1>2. QED
  BY <1>1, QueueHolds, PTL

THEOREM QueueTyped == Queue!Spec => []Queue!TypeOK
<1>1. QueueInv => Queue!TypeOK
  <2> SUFFICES ASSUME QueueInv PROVE Queue!TypeOK
    OBVIOUS
  <2>1. QueueTypes
    BY DEF QueueInv
  <2>2. /\ MaxAttempts \in Nat /\ MaxClock \in Nat
        /\ \A x \in OpenLine : x \in Queue!Line /\ x.attempts < MaxAttempts
    BY Queueing DEF OpenLine, Queue!Line, Queue!QueueAssumption
  <2>3. ASSUME NEW s \in Seq(OpenLine)
        PROVE  s \in Seq(Queue!Line) /\ \A i \in DOMAIN s : s[i].attempts < MaxAttempts
    <3>1. \A i \in 1..Len(s) : s[i] \in OpenLine
      OBVIOUS
    <3>2. s \in Seq(Queue!Line)
      BY <2>2
    <3>3. QED
      BY <2>2, <3>1, <3>2
  <2>4. ASSUME NEW f \in OpenFile PROVE f \in Queue!File
    BY <2>3 DEF OpenFile, Queue!File
  <2>5. queue \in Queue!File /\ processing \in [Drainers -> Queue!File]
    BY <2>1, <2>4 DEF QueueTypes
  <2>6. \A f \in {queue} \cup {processing[d] : d \in Drainers} : ~f.there => f = Queue!NoFile
    BY <2>1 DEF QueueTypes
  <2>7. \A i \in DOMAIN queue.lines : queue.lines[i].attempts < MaxAttempts
    <3>1. queue.lines \in Seq(OpenLine)
      BY <2>1 DEF QueueTypes, OpenFile
    <3>2. QED
      BY <2>3, <3>1
  <2>8. {lock, spawnLock} \subseteq [held : BOOLEAN, mtime : 0..MaxClock]
    BY <2>1 DEF QueueTypes, LockRec
  <2>9. host \in [Hosts -> [pc : {"idle", "opened", "queued", "stale", "spawning"},
                            job : Jobs \cup {Queue!Nobody}, at : {"queue", Queue!Nobody} \cup Drainers]]
    BY <2>1 DEF QueueTypes, HostRec
  <2>10. drainer \in [Drainers -> [pc : {"off", "recover", "lock", "stale", "open", "drain", "close"},
                                   todo : Seq(Queue!Line), rest : Seq(Queue!Line),
                                   takes : Drainers \cup {Queue!Nobody}, parent : Hosts \cup {Queue!Nobody}]]
    <3>1. ASSUME NEW r \in DrainRec
          PROVE  r \in [pc : {"off", "recover", "lock", "stale", "open", "drain", "close"},
                        todo : Seq(Queue!Line), rest : Seq(Queue!Line),
                        takes : Drainers \cup {Queue!Nobody}, parent : Hosts \cup {Queue!Nobody}]
      BY <2>3 DEF DrainRec, QueuePlaces
    <3>2. QED
      BY <2>1, <3>1 DEF QueueTypes
  <2>11. QED
    BY <2>1, <2>5, <2>6, <2>7, <2>8, <2>9, <2>10 DEF Queue!TypeOK, QueueTypes
<1>2. QED
  BY <1>1, QueueHolds, PTL
=============================================================================
