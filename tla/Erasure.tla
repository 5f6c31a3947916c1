------------------------------- MODULE Erasure -------------------------------
(***************************************************************************)
(* MemoryKernel.forgetUser against the work that is in flight when it runs. *)
(*                                                                          *)
(* forgetUser deletes all a project owns in one transaction, without an     *)
(* await.  The work that derives memory awaits models in between: a turn    *)
(* waits for the advisory reviewer, a Dream tick waits for the semantic     *)
(* processor and then for the curator's model, and so does a curator run    *)
(* over the raw ledger.  Each continues afterwards from what it had read.   *)
(*                                                                          *)
(* One project is modelled.  The sequence counters are not erased: they are *)
(* what keeps a cursor written late from covering events recorded later.    *)
(* Candidates, frames and dispositions are told apart by the events they    *)
(* were derived from, never by their text.                                  *)
(***************************************************************************)
EXTENDS Naturals, FiniteSets

CONSTANTS
  Runners,      \* callers of runDreamCurator
  Limit,        \* options.limit of such a call: events a run takes at once
  MaxEvents,    \* bound: raw events ever recorded
  MaxEpisodes,  \* bound: episodes ever created
  MaxErasures,  \* bound: calls of forgetUser
  MaxRestarts   \* bound: deaths of the process

Bounds ==
  /\ Limit \in Nat \ {0}
  /\ MaxEvents \in Nat /\ MaxEpisodes \in Nat
  /\ MaxErasures \in Nat /\ MaxRestarts \in Nat

Events   == 1..MaxEvents      \* named in the order they were recorded
Episodes == 1..MaxEpisodes

VARIABLES
  ledger,       \* memory_events: the raw events the database holds
  seq,          \* global_seq of each event ever recorded, 0 for the others
  counter,      \* event_sequence_counters, row 'global'
  turns,        \* events whose turn awaits the reviewer
  ignored,      \* episode_event_dispositions
  episodes,     \* memory_episodes with their links and their Dream job
  frames,       \* memory_frames
  candidates,   \* deep_write_candidates, each with its run's origin
  cursor,       \* dream_ledger_state.last_dreamed_global_seq, 0 for no row
  dreamed,      \* events some curator run over the ledger has finished with
  tick,         \* DreamScheduler.tick: the local state of the one in flight
  runs,         \* the events each runDreamCurator in flight has read
  erasures, restarts

ledgerVars  == <<ledger, seq, counter>>
episodeVars == <<turns, ignored, episodes>>
derived     == <<frames, candidates>>
cursorVars  == <<cursor, dreamed>>
bounds      == <<erasures, restarts>>
vars == <<ledgerVars, episodeVars, derived, cursorVars, tick, runs, bounds>>

EpisodeStatus   == {"unused", "open", "sealed", "erased"}
JobState        == {"none", "pending", "processing", "processed", "failed"}
FrameStatus     == {"staged", "active", "needs_confirmation", "failed"}
CandidateStatus == {"staged", "candidate", "promoted", "needs_confirmation", "superseded"}
Stage           == {"idle", "next", "frame", "candidates", "complete"}

Direct == 0   \* the origin of a run that has no source episode
NoTick == [at |-> "idle", jobs |-> {}, ep |-> Direct, events |-> {}]
NoRow  == [status |-> "unused", links |-> {}, job |-> "none"]

Max0(S) == IF S = {} THEN 0 ELSE CHOOSE m \in S : \A n \in S : n <= m
Seqs(S) == {seq[e] : e \in S}

Init ==
  /\ ledger = {} /\ seq = [e \in Events |-> 0] /\ counter = 0
  /\ turns = {} /\ ignored = {} /\ episodes = [ep \in Episodes |-> NoRow]
  /\ frames = {} /\ candidates = {}
  /\ cursor = 0 /\ dreamed = {}
  /\ tick = NoTick /\ runs = [r \in Runners |-> {}]
  /\ erasures = 0 /\ restarts = 0

-----------------------------------------------------------------------------
(* A turn: the raw event is recorded, the reviewer asked, the event linked. *)

\* appendRawEvent draws the next global_seq; appendTurnAsync then awaits.
Record(e) ==
  /\ seq[e] = 0 /\ \A f \in Events : f < e => seq[f] # 0
  /\ ledger' = ledger \cup {e}
  /\ counter' = counter + 1
  /\ seq' = [seq EXCEPT ![e] = counter + 1]
  /\ turns' = turns \cup {e}
  /\ UNCHANGED <<ignored, episodes, derived, cursorVars, tick, runs, bounds>>

\* Mutant: the link is inserted without looking the event up.
LinkableBlindly(e) == TRUE

\* EpisodeStore.appendEvent refuses an event the ledger does not hold.
Linkable(e) == e \in ledger

\* The open episode of the conversation, or else a new one.
Targets ==
  LET open == {ep \in Episodes : episodes[ep].status = "open"}
      new  == {ep \in Episodes : episodes[ep].status = "unused"}
  IN  IF open # {} THEN open
      ELSE {ep \in new : \A other \in new : ep <= other}

\* The reviewer answers and the turn's transaction runs: the event is linked,
\* and a closing turn seals its episode, which queues the Dream job.
Assign(e, ep, closes) ==
  /\ e \in turns /\ Linkable(e)
  /\ ep \in Targets
  /\ turns' = turns \ {e}
  /\ episodes' = [episodes EXCEPT
       ![ep] = [status |-> IF closes THEN "sealed" ELSE "open",
                links  |-> @.links \cup {e},
                job    |-> IF closes THEN "pending" ELSE "none"]]
  /\ UNCHANGED <<ledgerVars, ignored, derived, cursorVars, tick, runs, bounds>>

\* ... or the append throws, and the transaction takes the new episode back.
Refuse(e) ==
  /\ e \in turns /\ ~Linkable(e)
  /\ turns' = turns \ {e}
  /\ UNCHANGED <<ledgerVars, ignored, episodes, derived, cursorVars, tick, runs, bounds>>

\* ... or the turn is noise: it is disposed of, and nothing looks the event up.
Ignore(e) ==
  /\ e \in turns
  /\ turns' = turns \ {e}
  /\ ignored' = ignored \cup {e}
  /\ UNCHANGED <<ledgerVars, episodes, derived, cursorVars, tick, runs, bounds>>

-----------------------------------------------------------------------------
(* A Dream tick over the sealed episodes.                                   *)

\* What the previous holder of an expired lease had staged is withdrawn.
Withdrawn(rows, to) ==
  {IF row.status = "staged" /\ row.ep # Direct THEN [row EXCEPT !.status = to]
   ELSE row : row \in rows}

\* The tick sweeps what expired leases left, requeues their jobs, and claims
\* the pending ones.
Claim(expired) ==
  /\ tick.at = "idle"
  /\ LET waiting == IF expired THEN {"pending", "failed", "processing"} ELSE {"pending"}
         claimed == {ep \in Episodes : episodes[ep].status = "sealed" /\ episodes[ep].job \in waiting}
     IN  /\ claimed # {}
         /\ episodes' = [ep \in Episodes |->
              IF ep \in claimed THEN [episodes[ep] EXCEPT !.job = "processing"] ELSE episodes[ep]]
         /\ tick' = [NoTick EXCEPT !.at = "next", !.jobs = claimed]
  /\ frames' = IF expired THEN Withdrawn(frames, "failed") ELSE frames
  /\ candidates' = IF expired THEN Withdrawn(candidates, "superseded") ELSE candidates
  /\ UNCHANGED <<ledgerVars, turns, ignored, cursorVars, runs, bounds>>

\* The next claimed job: its links and the events they name are read, and the
\* model is asked.  An episode whose events are gone is not curated; its
\* completion finds no job either.
Curate(ep) ==
  /\ tick.at = "next" /\ ep \in tick.jobs
  /\ LET events == episodes[ep].links \cap ledger
     IN  tick' = [tick EXCEPT !.jobs = @ \ {ep}, !.ep = ep, !.events = events,
                              !.at = IF events = {} THEN "complete" ELSE "frame"]
  /\ UNCHANGED <<ledgerVars, episodeVars, derived, cursorVars, runs, bounds>>

Finish ==
  /\ tick.at = "next" /\ tick.jobs = {}
  /\ tick' = NoTick
  /\ UNCHANGED <<ledgerVars, episodeVars, derived, cursorVars, runs, bounds>>

\* The processor answers with a frame, which is saved as staged, or fails; the
\* curator's own model is asked next.
Framed(answered) ==
  /\ tick.at = "frame"
  /\ frames' = IF answered
               THEN frames \cup {[ep |-> tick.ep, events |-> tick.events, status |-> "staged"]}
               ELSE frames
  /\ tick' = [tick EXCEPT !.at = "candidates"]
  /\ UNCHANGED <<ledgerVars, episodeVars, candidates, cursorVars, runs, bounds>>

\* The model answers: the run and its candidates are staged.
Proposed ==
  /\ tick.at = "candidates"
  /\ candidates' = candidates \cup {[ep |-> tick.ep, events |-> tick.events, status |-> "staged"]}
  /\ tick' = [tick EXCEPT !.at = "complete"]
  /\ UNCHANGED <<ledgerVars, episodeVars, frames, cursorVars, runs, bounds>>

\* Mutant: the completion publishes whether or not the job is still its own.
HeldAnyway(ep) == TRUE

\* completeDreamJob's UPDATE ... WHERE state='processing' AND lease_id=?.
Held(ep) == episodes[ep].status = "sealed" /\ episodes[ep].job = "processing"

\* publishStagedCandidates and the job's UPDATE both find their rows.
Commits ==
  /\ Held(tick.ep)
  /\ tick.events # {} =>
       [ep |-> tick.ep, events |-> tick.events, status |-> "staged"] \in candidates

\* The rows this attempt staged, moved to a status.
Moved(rows, to) ==
  {IF row.ep = tick.ep /\ row.status = "staged" THEN [row EXCEPT !.status = to]
   ELSE row : row \in rows}

\* completeDreamJob: everything is published and the job settled, or all of it
\* is rolled back.
Complete(shown) ==
  /\ tick.at = "complete" /\ Commits
  /\ frames' = Moved(frames, shown)
  /\ candidates' = Moved(candidates, "candidate")
  /\ episodes' = [episodes EXCEPT ![tick.ep].job = "processed"]
  /\ tick' = [tick EXCEPT !.at = "next"]
  /\ UNCHANGED <<ledgerVars, turns, ignored, cursorVars, runs, bounds>>

\* The job or a staged row is gone: the attempt withdraws what it staged and the tick goes on.
Abort ==
  /\ tick.at = "complete" /\ ~Commits
  /\ frames' = Moved(frames, "failed")
  /\ candidates' = Moved(candidates, "superseded")
  /\ episodes' = [episodes EXCEPT ![tick.ep].job = IF @ = "processing" THEN "failed" ELSE @]
  /\ tick' = [tick EXCEPT !.at = "next"]
  /\ UNCHANGED <<ledgerVars, turns, ignored, cursorVars, runs, bounds>>

\* The curator throws instead of answering: failDreamJob, if there is a job.
Throw ==
  /\ tick.at \in {"frame", "candidates"}
  /\ frames' = Moved(frames, "failed")
  /\ episodes' = [episodes EXCEPT ![tick.ep].job = IF @ = "processing" THEN "failed" ELSE @]
  /\ tick' = [tick EXCEPT !.at = "next"]
  /\ UNCHANGED <<ledgerVars, turns, ignored, candidates, cursorVars, runs, bounds>>

-----------------------------------------------------------------------------
(* A curator run over the raw ledger, after the project's cursor.           *)

Undreamed == {e \in ledger : seq[e] > cursor}

\* listRawEventsAfterGlobalSeq: the first Limit events after the cursor.
Batch == {e \in Undreamed : Cardinality({f \in Undreamed : seq[f] < seq[e]}) < Limit}

Read(r) ==
  /\ runs[r] = {} /\ Batch # {}
  /\ runs' = [runs EXCEPT ![r] = Batch]
  /\ UNCHANGED <<ledgerVars, episodeVars, derived, cursorVars, tick, bounds>>

\* The model answers: candidates go straight to review, and the cursor moves to
\* the last event the run read, wherever another run has put it meanwhile.
Answer(r) ==
  /\ runs[r] # {}
  /\ candidates' = candidates \cup {[ep |-> Direct, events |-> runs[r], status |-> "candidate"]}
  /\ cursor' = Max0(Seqs(runs[r]))
  /\ dreamed' = dreamed \cup runs[r]
  /\ runs' = [runs EXCEPT ![r] = {}]
  /\ UNCHANGED <<ledgerVars, episodeVars, frames, tick, bounds>>

-----------------------------------------------------------------------------
(* Governance, erasure and restart.                                         *)

\* Mutant: evidence is taken at its word.
ResolvedBlindly(c) == TRUE

\* resolveProvenance: some event of the evidence is in the ledger.
Resolved(c) == c.events \cap ledger # {}

\* promotePending: candidates without provenance go to the review queue, the
\* others are promoted or left to a person by the policy.
Promote(c, to) ==
  /\ c \in candidates /\ c.status = "candidate"
  /\ to \in IF Resolved(c) THEN {"promoted", "needs_confirmation"} ELSE {"needs_confirmation"}
  /\ candidates' = (candidates \ {c}) \cup {[c EXCEPT !.status = to]}
  /\ UNCHANGED <<ledgerVars, episodeVars, frames, cursorVars, tick, runs, bounds>>

\* MemoryFrameStore.review, approve: hasPublishableEvidence.
Approve(f) ==
  /\ f \in frames /\ f.status = "needs_confirmation"
  /\ f.events \subseteq ledger \cap episodes[f.ep].links
  /\ frames' = (frames \ {f}) \cup {[f EXCEPT !.status = "active"]}
  /\ UNCHANGED <<ledgerVars, episodeVars, candidates, cursorVars, tick, runs, bounds>>

\* forgetUser: one transaction, nothing awaited.
Forget ==
  /\ erasures < MaxErasures /\ erasures' = erasures + 1
  /\ ledger' = {} /\ ignored' = {}
  /\ episodes' = [ep \in Episodes |->
       IF episodes[ep].status = "unused" THEN NoRow ELSE [NoRow EXCEPT !.status = "erased"]]
  /\ frames' = {} /\ candidates' = {} /\ cursor' = 0
  /\ UNCHANGED <<seq, counter, turns, dreamed, tick, runs, restarts>>

\* Mutant: the counter is set from the events that are left.
ReseededDown == Max0(Seqs(ledger))

\* seedSequenceCounters keeps the larger of the counter and the events' own.
Reseeded == Max0({counter} \cup Seqs(ledger))

\* The process dies and the database is opened again.
Restart ==
  /\ restarts < MaxRestarts /\ restarts' = restarts + 1
  /\ counter' = Reseeded
  /\ turns' = {} /\ tick' = NoTick /\ runs' = [r \in Runners |-> {}]
  /\ UNCHANGED <<ledger, seq, ignored, episodes, derived, cursorVars, erasures>>

-----------------------------------------------------------------------------
Next ==
  \/ \E e \in Events : Record(e) \/ Refuse(e) \/ Ignore(e)
  \/ \E e \in Events, ep \in Episodes, closes \in BOOLEAN : Assign(e, ep, closes)
  \/ \E expired \in BOOLEAN : Claim(expired)
  \/ \E ep \in Episodes : Curate(ep)
  \/ Finish \/ Proposed \/ Abort \/ Throw
  \/ \E answered \in BOOLEAN : Framed(answered)
  \/ \E shown \in {"active", "needs_confirmation"} : Complete(shown)
  \/ \E r \in Runners : Read(r) \/ Answer(r)
  \/ \E c \in candidates, to \in CandidateStatus : Promote(c, to)
  \/ \E f \in frames : Approve(f)
  \/ Forget \/ Restart

Spec == Init /\ [][Next]_vars

-----------------------------------------------------------------------------
(* Every variable has its type; an unused or erased episode keeps nothing.  *)
TypeOK ==
  /\ ledger \subseteq Events /\ turns \subseteq Events /\ ignored \subseteq Events
  /\ dreamed \subseteq Events
  /\ seq \in [Events -> Nat] /\ counter \in Nat /\ cursor \in Nat
  /\ episodes \in [Episodes -> [status : EpisodeStatus, links : SUBSET Events, job : JobState]]
  /\ \A ep \in Episodes : episodes[ep].status \in {"unused", "erased"} =>
       episodes[ep].links = {} /\ episodes[ep].job = "none"
  /\ frames \subseteq [ep : Episodes, events : SUBSET Events, status : FrameStatus]
  /\ candidates \subseteq [ep : Episodes \cup {Direct}, events : SUBSET Events, status : CandidateStatus]
  /\ tick \in [at : Stage, jobs : SUBSET Episodes, ep : Episodes \cup {Direct}, events : SUBSET Events]
  /\ runs \in [Runners -> SUBSET Events]
  /\ erasures \in 0..MaxErasures /\ restarts \in 0..MaxRestarts

(* No episode links an event the ledger has lost, whichever turns were      *)
(* waiting for the reviewer when the project was erased (EpisodeStore       *)
(* .appendEvent, line 266).                                                 *)
LinksAreInLedger == \A ep \in Episodes : episodes[ep].links \subseteq ledger

(* What Dream shows or governance believes rests on events that are still   *)
(* there: a tick that outlived an erasure publishes nothing, and candidates *)
(* of a run that did are never promoted (EpisodeStore.completeDreamJob,     *)
(* DeepWritePromotionPolicy.resolveProvenance).                             *)
ShownRestsOnLedger ==
  /\ \A f \in frames : f.status \in {"active", "needs_confirmation"} => f.events \subseteq ledger
  /\ \A c \in candidates :
       c.status = "promoted" \/ (c.status = "candidate" /\ c.ep # Direct) => c.events \subseteq ledger

(* The curator's cursor never covers an event no run has finished with, even *)
(* when a run that outlived an erasure writes its cursor back, runs overlap, *)
(* or the process restarts on an empty ledger (DreamLedgerStore.markDreamed, *)
(* EventStore.seedSequenceCounters).                                        *)
CursorSkipsNothing == \A e \in ledger : seq[e] <= cursor => e \in dreamed

(* MEMORY_MODEL.md:26: forgetUser "erases every project-owned projection":  *)
(* no stored frame or candidate derives from an event that is erased.       *)
NothingErasedIsStored == \A row \in frames \cup candidates : row.events \subseteq ledger
=============================================================================
