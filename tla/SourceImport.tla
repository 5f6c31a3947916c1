---------------------------- MODULE SourceImport ----------------------------
(***************************************************************************)
(* The import of an agent's markdown transcript: the records of the file   *)
(* that lie in a window and were not processed for it become raw events    *)
(* under an anchor, are assembled into episodes, ingested as neurons,      *)
(* marked as processed, and the window is consolidated.  A second mode     *)
(* only anchors raw events.  The file grows, lines fail, processes die     *)
(* between any two statements, and two imports overlap.                    *)
(***************************************************************************)
EXTENDS Naturals, Sequences, FiniteSets, Functions

CONSTANTS Texts,       \* messages; each is written to the file at most once
          Users,       \* those the user said
          Undated,     \* those in a line without a time
          Windows,     \* the --since and --until of runs, as the messages between them
          Importers,   \* processes
          MaxFaults    \* bound: crashes and failures

ImportAssumption ==
  /\ Users \subseteq Texts /\ Undated \subseteq Texts
  /\ Windows \subseteq SUBSET Texts /\ MaxFaults \in Nat /\ IsFiniteSet(Texts)

VARIABLES file,          \* the lines
          events,        \* raw events, <<anchor, how many there were of it>>
          settled,       \* those with a link to an episode or a disposition
          neurons,       \* messages that were ingested
          rows,          \* ingestion_processed_records: <<record hash, window>>
          consolidated,  \* messages whose neuron a consolidation has seen
          run,           \* run[p]: the import of p
          faults

vars == <<file, events, settled, neurons, rows, consolidated, run, faults>>

Line == 0..Cardinality(Texts)

\* A record: its message, the time it has when the line gives none (the file's mtime,
\* here its length, and the line), its line and its place in its turn.
Hash   == Texts \X Line \X Line
Anchor == Hash \X Line \X Line

Idle == [pc |-> "idle", reindex |-> FALSE, window |-> {}, snap |-> <<>>,
         pending |-> {}, todo |-> {}, waiting |-> {}]

TypeOK == /\ file \in Seq(Texts) /\ IsInjective(file)
          /\ events \subseteq Anchor \X (Nat \ {0}) /\ settled \subseteq events
          /\ {neurons, consolidated} \subseteq SUBSET Texts
          /\ consolidated \subseteq neurons
          /\ rows \subseteq Hash \X Windows
          /\ \A r, s \in rows : r[1] = s[1] => r = s
          /\ \A p \in Importers :
               /\ run[p].pc \in {"idle", "look", "append", "await", "ingest", "mark",
                                 "cursor", "offline", "seal"}
               /\ run[p].todo \cup run[p].waiting \subseteq run[p].pending
               /\ run[p].pending \subseteq DOMAIN run[p].snap
               /\ run[p].snap = SubSeq(file, 1, Len(run[p].snap))
          /\ faults \in 0..MaxFaults

Init == /\ file \in {<<t>> : t \in Texts}
        /\ events = {} /\ settled = {} /\ neurons = {} /\ rows = {} /\ consolidated = {}
        /\ run = [p \in Importers |-> Idle]
        /\ faults = 0

-----------------------------------------------------------------------------
(* Records of a snapshot.                                                   *)

Records(lines, w) == {i \in DOMAIN lines : lines[i] \in w}

HashOf(lines, i) ==
  IF lines[i] \in Undated THEN <<lines[i], Len(lines), i>> ELSE <<lines[i], 0, 0>>

\* The place among the records of the window since the user last spoke.
Ordinal(lines, w, i) ==
  Cardinality({j \in Records(lines, w) :
    j <= i /\ \A k \in Records(lines, w) : j < k /\ k <= i => lines[k] \notin Users})

AnchorOf(p, i) == <<HashOf(run[p].snap, i), i, Ordinal(run[p].snap, run[p].window, i)>>

Seen(w)     == {r[1] : r \in {q \in rows : q[2] = w}}
First(p)    == CHOOSE i \in run[p].todo : \A j \in run[p].todo : i <= j
EventsOf(a) == {e \in events : e[1] = a}

Step(p, r)  == run' = [run EXCEPT ![p] = r]

-----------------------------------------------------------------------------
(* The run.                                                                 *)

\* The file is read; what was marked for this very window is not pending.
Start(p, w, reindex) ==
  LET fresh == {i \in Records(file, w) : HashOf(file, i) \notin Seen(w)}
      todo  == IF reindex THEN Records(file, w) ELSE fresh
  IN /\ run[p].pc = "idle"
     /\ Step(p, [pc |-> CASE todo # {} -> "look" [] todo = {} /\ reindex -> "seal"
                          [] todo = {} /\ ~reindex -> "cursor",
                 reindex |-> reindex, window |-> w, snap |-> file,
                 pending |-> todo, todo |-> todo, waiting |-> {}])
     /\ UNCHANGED <<file, events, settled, neurons, rows, consolidated, faults>>

\* Once the event of line i exists its assembly starts, unless it is settled; a reindex
\* waits for it, an import goes on to the next record and then waits for all.
Recorded(p, i, assemble) ==
  LET todo    == run[p].todo \ {i}
      waiting == IF assemble THEN run[p].waiting \cup {i} ELSE run[p].waiting
      pc      == CASE run[p].reindex /\ waiting # {} -> "await"
                   [] ~(run[p].reindex /\ waiting # {}) /\ todo # {} -> "look"
                   [] ~run[p].reindex /\ todo = {} -> "await"
                   [] run[p].reindex /\ waiting = {} /\ todo = {} -> "seal"
  IN Step(p, [run[p] EXCEPT !.pc = pc, !.todo = todo, !.waiting = waiting])

\* findImportedRawAnchor
Look(p) ==
  LET a == AnchorOf(p, First(p))
  IN /\ run[p].pc = "look"
     /\ IF EventsOf(a) # {} THEN Recorded(p, First(p), EventsOf(a) \cap settled = {})
                            ELSE Step(p, [run[p] EXCEPT !.pc = "append"])
     /\ UNCHANGED <<file, events, settled, neurons, rows, consolidated, faults>>

\* Mutant: an anchor that appeared meanwhile does not stop the append.
AppendedAgain(a) == events \cup {<<a, Cardinality(EventsOf(a)) + 1>>}

\* append with upsertImportAnchor: the event of an anchor another import wrote is returned.
Appended(a) == IF EventsOf(a) = {} THEN events \cup {<<a, 1>>} ELSE events

AppendRaw(p) ==
  /\ run[p].pc = "append"
  /\ events' = Appended(AnchorOf(p, First(p)))
  /\ Recorded(p, First(p), TRUE)
  /\ UNCHANGED <<file, settled, neurons, rows, consolidated, faults>>

\* After the await of all: import ingests every pending record, reindex looks at the next.
AfterAwait(p, waiting) ==
  IF waiting # {} THEN [run[p] EXCEPT !.waiting = waiting]
  ELSE IF ~run[p].reindex THEN [run[p] EXCEPT !.pc = "ingest", !.waiting = {}, !.todo = run[p].pending]
  ELSE [run[p] EXCEPT !.pc = IF run[p].todo = {} THEN "seal" ELSE "look", !.waiting = {}]

Assemble(p) ==
  /\ run[p].pc = "await"
  /\ \/ \E i \in run[p].waiting :
          /\ settled' = settled \cup EventsOf(AnchorOf(p, i))
          /\ Step(p, AfterAwait(p, run[p].waiting \ {i}))
     \/ /\ run[p].waiting = {}             \* all were settled before
        /\ Step(p, AfterAwait(p, {})) /\ UNCHANGED settled
  /\ UNCHANGED <<file, events, neurons, rows, consolidated, faults>>

\* Mutant: records are marked when they are ingested, before the others.
MarkedAlready(p) == {r \in rows : r[1] \notin {HashOf(run[p].snap, i) : i \in run[p].pending}}
                    \cup {<<HashOf(run[p].snap, i), run[p].window>> : i \in run[p].pending}

\* Nothing is marked before the whole batch is ingested.
MarkedNow(p) == rows

Ingest(p) ==
  LET todo == run[p].todo \ {First(p)}
  IN /\ run[p].pc = "ingest"
     /\ neurons' = neurons \cup {run[p].snap[First(p)]}
     /\ rows' = MarkedNow(p)
     /\ Step(p, IF todo # {} THEN [run[p] EXCEPT !.todo = todo]
                ELSE [run[p] EXCEPT !.pc = "mark", !.todo = run[p].pending])
     /\ UNCHANGED <<file, events, settled, consolidated, faults>>

\* Mutant: the row of another window is kept beside the new one.
MarkedToo(h, w) == rows \cup {<<h, w>>}

\* markRecordProcessed: INSERT OR REPLACE, by the hash and not the window.
Marked(h, w) == {r \in rows : r[1] # h} \cup {<<h, w>>}

Mark(p) ==
  LET todo == run[p].todo \ {First(p)}
  IN /\ run[p].pc = "mark"
     /\ rows' = Marked(HashOf(run[p].snap, First(p)), run[p].window)
     /\ Step(p, [run[p] EXCEPT !.todo = todo, !.pc = IF todo = {} THEN "cursor" ELSE "mark"])
     /\ UNCHANGED <<file, events, settled, neurons, consolidated, faults>>

\* updateCursor, whose row no run reads but for a count; then consolidate, or not.
Cursor(p) ==
  /\ run[p].pc = "cursor"
  /\ Step(p, [run[p] EXCEPT !.pc = IF run[p].pending # {} THEN "offline" ELSE "seal"])
  /\ UNCHANGED <<file, events, settled, neurons, rows, consolidated, faults>>

Offline(p) ==
  /\ run[p].pc = "offline"
  /\ consolidated' = consolidated \cup (neurons \cap run[p].window)
  /\ Step(p, [run[p] EXCEPT !.pc = "seal"])
  /\ UNCHANGED <<file, events, settled, neurons, rows, faults>>

\* The episodes of the run are sealed (EpisodeLifecycle) and the result is returned.
Finish(p) ==
  /\ run[p].pc = "seal"
  /\ Step(p, Idle)
  /\ UNCHANGED <<file, events, settled, neurons, rows, consolidated, faults>>

\* An exception, or the end of the process: assemblies under way may still settle.
Stop(p) ==
  /\ run[p].pc # "idle"
  /\ faults < MaxFaults /\ faults' = faults + 1
  /\ \E late \in SUBSET run[p].waiting :
       settled' = settled \cup UNION {EventsOf(AnchorOf(p, i)) : i \in late}
  /\ Step(p, Idle)
  /\ UNCHANGED <<file, events, neurons, rows, consolidated>>

Grow(t) ==
  /\ t \notin Range(file)
  /\ file' = Append(file, t)
  /\ UNCHANGED <<events, settled, neurons, rows, consolidated, run, faults>>

Next == \/ \E t \in Texts : Grow(t)
        \/ \E p \in Importers :
             \/ \E w \in Windows, reindex \in BOOLEAN : Start(p, w, reindex)
             \/ Look(p) \/ AppendRaw(p) \/ Assemble(p) \/ Ingest(p) \/ Mark(p)
             \/ Cursor(p) \/ Offline(p) \/ Finish(p) \/ Stop(p)

Spec == Init /\ [][Next]_vars

\* Every run reads the window w: the whole history, say.
NextOver(w) == Next /\ \A p \in Importers : run'[p].pc # "idle" => run'[p].window = w

SpecOver(w) == Init /\ [][NextOver(w)]_vars

-----------------------------------------------------------------------------
(* Properties.                                                              *)

\* A record that later runs skip was imported to the end: its raw event is in an episode
\* or was set aside, and it has a neuron, wherever earlier runs failed or died.
MarkedIsImported ==
  \A r \in rows : r[1][1] \in neurons /\ \E e \in settled : e[1][1] = r[1]

\* A message of the file is one raw event, whatever was imported again, reindexed,
\* imported twice at once or cut short (SKILL.md: "Re-running it skips records already
\* imported into the same memory database").
OneEventPerMessage == \A t \in Texts : Cardinality({e \in events : e[1][1][1] = t}) <= 1

\* That is so of the messages in lines with a time, when every run reads the same window.
DatedOnce ==
  \A t \in Texts \ Undated : Cardinality({e \in events : e[1][1][1] = t}) <= 1

\* A run over a window ends with the window consolidated: skipping the consolidation when
\* nothing was pending only spares "the beliefs that are already there".
WindowConsolidated ==
  \A p \in Importers : run[p].pc = "seal" /\ ~run[p].reindex =>
    \A i \in Records(run[p].snap, run[p].window) : run[p].snap[i] \in consolidated
=============================================================================
