------------------------------ MODULE DreamQueue ------------------------------
(***************************************************************************)
(* The episode Dream backlog: leased, retryable jobs over sealed episodes.  *)
(*                                                                          *)
(* EpisodeStore keeps at most one job row per episode, DreamScheduler.tick  *)
(* claims a batch of rows under one lease deadline and works through them   *)
(* with awaits in between, DreamCuratorWorker stages what it derives, and   *)
(* one transaction (completeDreamJob) publishes it.  Meanwhile other        *)
(* processes tick on the same database, processes die, and operators seal,  *)
(* repair, requeue and retry.                                               *)
(*                                                                          *)
(* Every action below is one SQLite transaction, one autocommit statement   *)
(* or one read, which is the grain at which two processes interleave.       *)
(***************************************************************************)
EXTENDS Integers, FiniteSets

CONSTANTS
  Episodes,     \* episode ids
  Events,       \* raw event ids that may be linked to an episode
  Workers,      \* processes that run DreamScheduler.tick
  Leases,       \* dream-lease UUIDs; each names one attempt at one job
  NoLease,      \* the NULL lease_id
  NoEpisode,    \* the episode of a lease id that was never drawn
  LeaseMs,      \* options.leaseMs, in units of Elapse
  RetryMs,      \* retryDelayMs / classifyFailure's delay, same unit
  MaxAttempts,  \* options.maxAttempts
  BatchSize,    \* options.maxEpisodes
  MaxNudges     \* bound: how often operators put one failed job back to pending

ASSUME ConstantsAssumption ==
  /\ NoLease \notin Leases
  /\ NoEpisode \notin Episodes
  /\ LeaseMs \in Nat /\ RetryMs \in Nat
  /\ MaxAttempts \in Nat \ {0}
  /\ BatchSize \in Nat \ {0}
  /\ MaxNudges \in Nat

VARIABLES
  ep,      \* memory_episodes, with the episode's rows of memory_episode_events
  job,     \* episode_dream_jobs
  run,     \* per lease: deep_write_runs, its candidates, and its memory frame
  worker   \* the local state of each tick

vars == <<ep, job, run, worker>>

EpisodeStatus == {"absent", "open", "soft_sealed", "sealed"}
JobState      == {"none", "pending", "processing", "processed",
                  "failed_retryable", "failed_terminal", "retry_scheduled"}
\* "published" stands for a succeeded run whose candidates left "staged";
\* "withdrawn" for a failed or abandoned run and for superseded candidates.
RunState      == {"none", "staged", "published", "withdrawn"}
FrameStatus   == {"none", "staged", "active", "needs_confirmation",
                  "superseded", "failed"}
Pc            == {"idle", "expire", "schedule", "select", "claim", "mark",
                  "next", "curate", "stage", "commit", "fail", "reject"}

NoJob    == [state |-> "none", lease |-> NoLease, attempts |-> 0, retry |-> 0, nudges |-> 0]
FreshJob == [NoJob EXCEPT !.state = "pending"]
NoRun    == [episode |-> NoEpisode, links |-> {}, left |-> -1,
             state |-> "none", frame |-> "none", current |-> FALSE]
NoTick   == [pc |-> "idle", rows |-> {}, todo |-> {}, cur |-> NoLease, left |-> -1]

EpisodeRow == [status : EpisodeStatus, links : SUBSET Events, dreamed : BOOLEAN]
JobRow     == [state : JobState, lease : Leases \cup {NoLease}, attempts : Nat,
               retry : Nat, nudges : Nat]
RunRow     == [episode : Episodes \cup {NoEpisode}, links : SUBSET Events, left : Int,
               state : RunState, frame : FrameStatus, current : BOOLEAN]
Tick       == [pc : Pc, rows : SUBSET Episodes, todo : SUBSET Leases,
               cur : Leases \cup {NoLease}, left : Int]

Init ==
  /\ ep     = [e \in Episodes |-> [status |-> "absent", links |-> {}, dreamed |-> FALSE]]
  /\ job    = [e \in Episodes |-> NoJob]
  /\ run    = [l \in Leases |-> NoRun]
  /\ worker = [p \in Workers |-> NoTick]

-----------------------------------------------------------------------------
(* Rows, leases and the upsert that queues an episode.                      *)

Active(e)    == job[e].state \in {"pending", "processing", "retry_scheduled", "failed_retryable"}
Claimable(e) == job[e].state \in {"pending", "retry_scheduled"}

\* Mutant: the completion does not compare lease ids.
HoldsAny(e, l) == job[e].state = "processing"

Holds(e, l)  == job[e].state = "processing" /\ job[e].lease = l

Expired(e)   == job[e].state = "processing" /\ run[job[e].lease].left < 0

\* Mutant: one attempt too many.
ExhaustedLate(e) == job[e].attempts > MaxAttempts

Exhausted(e) == job[e].attempts >= MaxAttempts

\* randomUUID never repeats: an id is drawn only when no row and no process
\* still refers to it.  A dead id that nothing names is as good as a new one.
Fresh(l) ==
  /\ \A e \in Episodes : job[e].lease # l
  /\ \A p \in Workers : worker[p].cur # l /\ l \notin worker[p].todo
  /\ run[l].state \in {"none", "withdrawn"}
  /\ run[l].frame \in {"none", "superseded", "failed"}

\* The lease is given up, and next_retry_at set.
Released(j, state, retry) == [j EXCEPT !.state = state, !.lease = NoLease, !.retry = retry]

\* Back to pending: the attempts made so far keep counting.
Nudged(j) ==
  [state |-> "pending", lease |-> NoLease, attempts |-> j.attempts, retry |-> 0,
   nudges |-> j.nudges + 1]

\* Mutant: the upsert's WHERE lets terminal jobs through.
EnqueuedTerminal(j) ==
  CASE j.state = "none" -> FreshJob
    [] j.state \in {"failed_retryable", "retry_scheduled", "failed_terminal"} -> Nudged(j)
    [] OTHER -> j

\* Mutant: ... or processed ones.
EnqueuedProcessed(j) ==
  CASE j.state = "none" -> FreshJob
    [] j.state \in {"failed_retryable", "retry_scheduled", "processed"} -> Nudged(j)
    [] OTHER -> j

\* enqueueDreamJob: a running, finished or terminal job is left alone, and a
\* waiting one keeps its attempts.
Enqueued(j) ==
  CASE j.state = "none" -> FreshJob
    [] j.state = "pending" -> j
    [] j.state \in {"failed_retryable", "retry_scheduled"} -> Nudged(j)
    [] OTHER -> j

MayEnqueue(e) ==
  job[e].state \in {"failed_retryable", "retry_scheduled"} => job[e].nudges < MaxNudges

\* The rows of one attempt, as other statements leave them: its job is deleted
\* or requeued,
Disowned(r) == [r EXCEPT !.current = FALSE]

\* its visible candidates are superseded (staged ones are not listed, and stay),
Superseded(r) == [r EXCEPT !.current = FALSE, !.state = IF @ = "published" THEN "withdrawn" ELSE @]

\* its frame is superseded,
Retired(r) ==
  [r EXCEPT !.frame = IF @ \in {"active", "needs_confirmation", "staged"} THEN "superseded" ELSE @]

\* its staged candidates are shown (the lease is over: the job is processed),
Published(r) == [episode |-> r.episode, links |-> r.links, left |-> -1,
                 state |-> "published", frame |-> r.frame, current |-> r.current]

\* or what it staged is failed.
Abandoned(r) ==
  [r EXCEPT !.state = IF @ = "staged" THEN "withdrawn" ELSE @,
            !.frame = IF @ = "staged" THEN "failed" ELSE @]

\* The job row of e goes, and with it nothing else.
JobDeleted(e) ==
  [l \in Leases |-> IF run[l].episode = e THEN Disowned(run[l]) ELSE run[l]]

\* The evidence of episodes S is no longer vouched for: repair supersedes every
\* candidate listCandidates shows
Withdrawn(S) ==
  [l \in Leases |-> IF run[l].episode \in S THEN Superseded(run[l]) ELSE run[l]]

\* Mutant: frames are retired, published candidates are forgotten.
WithdrawnFramesOnly(S) ==
  [l \in Leases |-> IF run[l].episode \in S THEN Retired(Disowned(run[l])) ELSE run[l]]

\* ... and supersedeEpisodes retires their frames.
WithdrawnWithFrames(S) ==
  [l \in Leases |-> IF run[l].episode \in S THEN Retired(Superseded(run[l])) ELSE run[l]]

-----------------------------------------------------------------------------
(* The life of an episode, as far as the backlog sees it.                   *)

\* createEpisode with its first event, and appendEvent: only an open episode
\* takes events, and an event belongs to one episode.
AppendEvent(e, v) ==
  /\ ep[e].status \in {"absent", "open"}
  /\ \A f \in Episodes : v \notin ep[f].links
  /\ ep' = [ep EXCEPT ![e].status = "open", ![e].links = @ \cup {v}]
  /\ UNCHANGED <<job, run, worker>>

\* Mutant: the soft seal leaves the job row.
SoftSealKeepingJob(e) ==
  /\ ep[e].status \in {"open", "sealed"}
  /\ ep'  = [ep EXCEPT ![e] = [@ EXCEPT !.status = "soft_sealed", !.dreamed = FALSE]]
  /\ UNCHANGED <<job, run, worker>>

\* sealEpisode in mode soft.  The UPDATE has no status guard, so this is also
\* what a low-confidence import, an operator or a late idle sweep does to an
\* episode that is hard-sealed already: the job row goes, whatever its state.
SoftSeal(e) ==
  /\ ep[e].status \in {"open", "sealed"}
  /\ ep'  = [ep EXCEPT ![e] = [@ EXCEPT !.status = "soft_sealed", !.dreamed = FALSE]]
  /\ job' = [job EXCEPT ![e] = NoJob]
  /\ run' = JobDeleted(e)
  /\ UNCHANGED worker

\* sealEpisode in mode hard, batch or manual, finalizeMatureSoftSeals included.
\* dreamRecommended is what queues it; a manual reseal reaches the upsert again.
HardSeal(e, dreamRecommended) ==
  /\ ep[e].status # "absent"
  /\ ep[e].links # {}
  /\ dreamRecommended => MayEnqueue(e)
  /\ job' = IF dreamRecommended THEN [job EXCEPT ![e] = Enqueued(@)] ELSE job
  /\ ep'  = [ep EXCEPT
               ![e].status = "sealed",
               ![e].dreamed = @ /\ ~(dreamRecommended /\ Enqueued(job[e]).state = "pending")]
  /\ UNCHANGED <<run, worker>>

\* reopenSoftEpisode
Reopen(e) ==
  /\ ep[e].status = "soft_sealed"
  /\ ep'  = [ep EXCEPT ![e] = [@ EXCEPT !.status = "open", !.dreamed = FALSE]]
  /\ job' = IF job[e].state \in {"pending", "failed_retryable", "retry_scheduled"}
            THEN [job EXCEPT ![e] = NoJob] ELSE job
  /\ UNCHANGED <<run, worker>>

-----------------------------------------------------------------------------
(* Operator repair: one transaction per operation.                          *)

\* Mutant: a job that was processed stays processed.
RecomputeKeepingJob(S, links, status) ==
  /\ ep'  = [e \in Episodes |->
               IF e \notin S THEN ep[e]
               ELSE IF links[e] = {} THEN [status |-> "absent", links |-> {}, dreamed |-> FALSE]
               ELSE [status |-> status[e], links |-> links[e], dreamed |-> FALSE]]
  /\ job' = [e \in Episodes |->
               IF e \notin S THEN job[e]
               ELSE IF links[e] # {} /\ status[e] = "sealed" THEN Enqueued(job[e]) ELSE NoJob]
  /\ run' = WithdrawnWithFrames(S)
  /\ UNCHANGED worker

\* The tail every repair that touches content runs: derived state is dropped,
\* sealed episodes are resealed and requeued from zero attempts, emptied ones
\* are deleted.  links and status are what the operation left behind.
Recompute(S, links, status) ==
  /\ ep'  = [e \in Episodes |->
               IF e \notin S THEN ep[e]
               ELSE IF links[e] = {} THEN [status |-> "absent", links |-> {}, dreamed |-> FALSE]
               ELSE [status |-> status[e], links |-> links[e], dreamed |-> FALSE]]
  /\ job' = [e \in Episodes |->
               IF e \notin S THEN job[e]
               ELSE IF links[e] # {} /\ status[e] = "sealed" THEN FreshJob ELSE NoJob]
  /\ run' = WithdrawnWithFrames(S)
  /\ UNCHANGED worker

Links  == [e \in Episodes |-> ep[e].links]
Status == [e \in Episodes |-> ep[e].status]

Moved(e, f, M) == [Links EXCEPT ![e] = @ \ M, ![f] = @ \cup M]

Reclassify(e) ==
  /\ ep[e].status # "absent"
  /\ Recompute({e}, Links, Status)

MoveEvent(e, f, v) ==
  /\ e # f /\ ep[f].status # "absent" /\ v \in ep[e].links
  /\ Recompute({e, f}, Moved(e, f, {v}), Status)

Merge(e, f) ==
  /\ e # f /\ ep[e].status # "absent" /\ ep[f].status # "absent"
  /\ Recompute({e, f}, Moved(e, f, ep[e].links), Status)

Split(e, f, M) ==
  /\ ep[e].status = "sealed" /\ ep[f].status = "absent"
  /\ M # {} /\ M \subseteq ep[e].links /\ M # ep[e].links
  /\ Recompute({e, f}, Moved(e, f, M), [Status EXCEPT ![f] = "sealed"])

\* Mutant: the episode still shows as dreamed.
RequeueShownDreamed(e) ==
  /\ ep[e].status = "sealed" /\ ep[e].links # {}
  /\ job' = [job EXCEPT ![e] = FreshJob]
  /\ run' = Withdrawn({e})
  /\ UNCHANGED <<ep, worker>>

\* requeue-dream and invalidate-dream-run: the frames stay as they are.
RequeueDream(e) ==
  /\ ep[e].status = "sealed" /\ ep[e].links # {}
  /\ job' = [job EXCEPT ![e] = FreshJob]
  /\ ep'  = [ep EXCEPT ![e].dreamed = FALSE]
  /\ run' = Withdrawn({e})
  /\ UNCHANGED worker

\* "cogmem dream retry".  Its two statements re-read the job rows, so they act
\* on a job that is pending when the second one runs.
RetryFailed ==
  LET Failed == {e \in Episodes : job[e].state = "failed_retryable"}
  IN  /\ Failed # {}
      /\ \A e \in Failed : job[e].nudges < MaxNudges
      /\ job' = [e \in Episodes |-> IF e \in Failed THEN Enqueued(job[e]) ELSE job[e]]
      /\ ep'  = [e \in Episodes |-> IF job'[e].state = "pending"
                                    THEN [ep[e] EXCEPT !.dreamed = FALSE] ELSE ep[e]]
      /\ UNCHANGED <<run, worker>>

\* Mutant: publishing does not supersede the frame before.
ActivatedBeside(r, l) == [r EXCEPT ![l].frame = "active"]

\* Publishing a frame as active supersedes the episode's other active frame.
Activated(r, l) ==
  [k \in Leases |->
     IF k = l THEN [r[k] EXCEPT !.frame = "active"]
     ELSE IF r[k].episode = r[l].episode /\ r[k].frame = "active"
          THEN [r[k] EXCEPT !.frame = "superseded"]
     ELSE r[k]]

\* MemoryFrameStore.review
ApproveFrame(l) ==
  /\ run[l].frame = "needs_confirmation"
  /\ run[l].links \subseteq ep[run[l].episode].links
  /\ run' = Activated(run, l)
  /\ UNCHANGED <<ep, job, worker>>

RejectFrame(l) ==
  /\ run[l].frame = "needs_confirmation"
  /\ run' = [run EXCEPT ![l].frame = "superseded"]
  /\ UNCHANGED <<ep, job, worker>>

-----------------------------------------------------------------------------
(* DreamScheduler.tick, up to the claimed batch.                            *)

Goto(p, pc) == worker' = [worker EXCEPT ![p].pc = pc]

\* Mutant: nothing sweeps what dead workers staged.
TickStartUnswept(p) ==
  /\ worker[p].pc = "idle"
  /\ worker' = [worker EXCEPT ![p] = [pc |-> "expire", rows |-> {}, todo |-> {},
                                      cur |-> NoLease, left |-> LeaseMs]]
  /\ UNCHANGED <<ep, job, run>>

\* abandonStaleStagedRuns and failStagedOlderThan.  They write different tables
\* and neither reads what the other wrote.  A run is created at its tick's start,
\* so "created before now - leaseMs" is "its lease deadline has passed".
TickStart(p) ==
  /\ worker[p].pc = "idle"
  /\ worker' = [worker EXCEPT ![p] = [pc |-> "expire", rows |-> {}, todo |-> {},
                                      cur |-> NoLease, left |-> LeaseMs]]
  /\ run' = [l \in Leases |->
       IF run[l].left >= 0 THEN run[l] ELSE Abandoned(run[l])]
  /\ UNCHANGED <<ep, job>>

\* Mutant: expired leases are not looked for.
ExpireNothing(p) ==
  /\ worker[p].pc = "expire"
  /\ Goto(p, "schedule")
  /\ UNCHANGED <<ep, job, run>>

\* claimDreamJobs, first and second UPDATE: expired leases.
ExpireLeases(p) ==
  /\ worker[p].pc = "expire"
  /\ job' = [e \in Episodes |->
       IF ~Expired(e) THEN job[e]
       ELSE IF Exhausted(e) THEN Released(job[e], "failed_terminal", job[e].retry)
       ELSE Released(job[e], "failed_retryable", RetryMs)]
  /\ ep'  = [e \in Episodes |-> IF Expired(e) THEN [ep[e] EXCEPT !.dreamed = FALSE] ELSE ep[e]]
  /\ Goto(p, "schedule")
  /\ UNCHANGED run

\* claimDreamJobs, third UPDATE: retries that are due.
ScheduleRetries(p) ==
  LET Due == {e \in Episodes : /\ job[e].state = "failed_retryable"
                               /\ job[e].retry = 0 /\ ~Exhausted(e)}
  IN  /\ worker[p].pc = "schedule"
      /\ job' = [e \in Episodes |-> IF e \in Due THEN [job[e] EXCEPT !.state = "retry_scheduled"]
                                    ELSE job[e]]
      /\ ep'  = [e \in Episodes |-> IF e \in Due THEN [ep[e] EXCEPT !.dreamed = FALSE] ELSE ep[e]]
      /\ Goto(p, "select")
      /\ UNCHANGED run

\* The SELECT: a batch of claimable jobs over sealed, non-empty episodes.  The
\* ORDER BY priority is left open.
Eligible ==
  {e \in Episodes : /\ \/ job[e].state = "pending"
                       \/ job[e].state = "retry_scheduled" /\ ~Exhausted(e)
                    /\ ep[e].status = "sealed" /\ ep[e].links # {}}

SelectJobs(p) ==
  /\ worker[p].pc = "select"
  /\ \E rows \in SUBSET Eligible :
       /\ Cardinality(rows) <= BatchSize
       /\ rows # Eligible => Cardinality(rows) = BatchSize
       /\ worker' = [worker EXCEPT ![p] =
                       IF rows = {} THEN NoTick
                       ELSE [pc |-> "claim", rows |-> rows, todo |-> {}, cur |-> NoLease,
                             left |-> @.left]]
  /\ UNCHANGED <<ep, job, run>>

\* One row of the batch: UPDATE ... WHERE state IN ('pending', 'retry_scheduled').
\* Every lease of the batch ends at the same instant, startedAt + leaseMs.
ClaimRow(p, e, l) ==
  /\ worker[p].pc = "claim" /\ e \in worker[p].rows
  /\ Claimable(e) /\ Fresh(l)
  /\ job' = [job EXCEPT ![e] = [state |-> "processing", lease |-> l, retry |-> 0,
                                attempts |-> @.attempts + 1, nudges |-> @.nudges]]
  /\ run' = [run EXCEPT ![l] = [NoRun EXCEPT !.episode = e, !.left = worker[p].left,
                                             !.current = TRUE]]
  /\ worker' = [worker EXCEPT ![p] = [pc |-> "mark", rows |-> @.rows \ {e},
                                      todo |-> @.todo \cup {l}, cur |-> l, left |-> @.left]]
  /\ UNCHANGED ep

\* The row was taken, deleted or finished since the SELECT: no changes, no claim.
MissRow(p, e) ==
  /\ worker[p].pc = "claim" /\ e \in worker[p].rows
  /\ ~Claimable(e)
  /\ worker' = [worker EXCEPT ![p].rows = @ \ {e}]
  /\ UNCHANGED <<ep, job, run>>

\* The second statement of a claim: the episode's dream_status, unconditionally.
MarkProcessing(p) ==
  /\ worker[p].pc = "mark"
  /\ ep' = [ep EXCEPT ![run[worker[p].cur].episode].dreamed = FALSE]
  /\ worker' = [worker EXCEPT ![p] = [pc |-> "claim", rows |-> @.rows, todo |-> @.todo,
                                      cur |-> NoLease, left |-> @.left]]
  /\ UNCHANGED <<job, run>>

ClaimsDone(p) ==
  /\ worker[p].pc = "claim" /\ worker[p].rows = {}
  /\ worker' = [worker EXCEPT ![p] = [pc |-> "next", rows |-> {}, todo |-> @.todo,
                                      cur |-> NoLease, left |-> -1]]
  /\ UNCHANGED <<ep, job, run>>

-----------------------------------------------------------------------------
(* The batch, one job after the other, with awaits between the steps.       *)

\* listEventLinks: the evidence this attempt will be allowed to cite.
ReadEvidence(p, l) ==
  /\ worker[p].pc = "next" /\ l \in worker[p].todo
  /\ run' = [run EXCEPT ![l].links = ep[run[l].episode].links]
  /\ worker' = [worker EXCEPT ![p] =
                  [pc |-> IF ep[run[l].episode].links = {} THEN "commit" ELSE "curate",
                   rows |-> {}, todo |-> @.todo \ {l}, cur |-> l, left |-> -1]]
  /\ UNCHANGED <<ep, job>>

\* After the processor's await: MemoryFrameStore.save, or no processor and no frame.
SaveFrame(p, saved) ==
  /\ worker[p].pc = "curate"
  /\ run' = IF saved THEN [run EXCEPT ![worker[p].cur].frame = "staged"] ELSE run
  /\ Goto(p, "stage")
  /\ UNCHANGED <<ep, job>>

\* After the candidate builder's await: insertRun and insertCandidates, staged.
StageRun(p) ==
  /\ worker[p].pc = "stage"
  /\ run' = [run EXCEPT ![worker[p].cur].state = "staged"]
  /\ Goto(p, "commit")
  /\ UNCHANGED <<ep, job>>

\* The processor, the builder or a store throws; insertCandidates may do so with
\* the run row already staged.  classifyFailure calls the message terminal or not.
CuratorThrows(p, terminal) ==
  /\ worker[p].pc \in {"curate", "stage"}
  /\ \/ UNCHANGED run
     \/ worker[p].pc = "stage" /\ run' = [run EXCEPT ![worker[p].cur].state = "staged"]
  /\ Goto(p, IF terminal THEN "reject" ELSE "fail")
  /\ UNCHANGED <<ep, job>>

\* Mutant: the lease deadline is not part of the completing UPDATE.
MayCompleteLate(e, l) ==
  /\ Holds(e, l)
  /\ ep[e].status = "sealed"
  /\ run[l].state = "staged"
  /\ run[l].frame \in {"none", "staged"}

\* completeDreamJob with commitCandidates, in one transaction: candidates, run
\* and frame are published and the job is processed, under the lease, or nothing is.
MayComplete(e, l) ==
  /\ Holds(e, l) /\ run[l].left >= 0
  /\ ep[e].status = "sealed"
  /\ run[l].state = "staged"
  /\ run[l].frame \in {"none", "staged"}

CompleteDreamJob(p, needsReview) ==
  LET l == worker[p].cur
      e == run[l].episode
      published == [run EXCEPT ![l] = Published(@)]
  IN  /\ worker[p].pc = "commit"
      /\ MayComplete(e, l)
      /\ job' = [job EXCEPT ![e] = Released(@, "processed", 0)]
      /\ ep'  = [ep EXCEPT ![e].dreamed = TRUE]
      /\ run' = IF run[l].frame = "none" THEN published
                ELSE IF needsReview
                THEN [published EXCEPT ![l].frame = "needs_confirmation"]
                ELSE Activated(published, l)
      /\ ~needsReview /\ run[l].frame = "staged" => run[l].links \subseteq ep[e].links
      /\ Goto(p, "next")

\* The transaction rolled back: the lease is gone, a staged row is no longer
\* staged, or the database is busy.  failStagedRun and failStaged clean up.
CompletionFails(p) ==
  /\ worker[p].pc = "commit"
  /\ run' = [run EXCEPT ![worker[p].cur] = Abandoned(@)]
  /\ Goto(p, "fail")
  /\ UNCHANGED <<ep, job>>

\* failStagedForEpisode, then failDreamJob, which does nothing without the lease.
FailDreamJob(p) ==
  LET l == worker[p].cur
      e == run[l].episode
      terminal == worker[p].pc = "reject"
  IN  /\ worker[p].pc \in {"fail", "reject"}
      /\ run' = [run EXCEPT ![l].frame = IF @ = "staged" THEN "failed" ELSE @]
      /\ IF Holds(e, l)
         THEN /\ job' = [job EXCEPT ![e] =
                           IF terminal THEN Released(@, "failed_terminal", 0)
                           ELSE Released(@, "failed_retryable", RetryMs)]
              /\ ep'  = [ep EXCEPT ![e].dreamed = FALSE]
         ELSE UNCHANGED <<ep, job>>
      /\ Goto(p, "next")

TickDone(p) ==
  /\ worker[p].pc = "next" /\ worker[p].todo = {}
  /\ worker' = [worker EXCEPT ![p] = NoTick]
  /\ UNCHANGED <<ep, job, run>>

\* The process dies anywhere in a tick; what it committed stays.
Crash(p) ==
  /\ worker[p].pc # "idle"
  /\ worker' = [worker EXCEPT ![p] = NoTick]
  /\ UNCHANGED <<ep, job, run>>

-----------------------------------------------------------------------------
(* Time.  Clocks are kept as what is left of them: a lease is valid while    *)
(* left >= 0 (lease_until >= now), a retry is due when retry = 0.  The       *)
(* statements between a tick's start and its SELECT run back to back and are *)
(* taken to fit in one unit; a process may be suspended anywhere else.       *)

\* Mutant: a clock runs below its floor.
LessUnbounded(n, floor) == n - 1

Less(n, floor) == IF n > floor THEN n - 1 ELSE n

Ticking ==
  \/ \E l \in Leases : run[l].left >= 0
  \/ \E e \in Episodes : job[e].retry > 0

Elapse ==
  /\ Ticking
  /\ \A p \in Workers : worker[p].pc \notin {"expire", "schedule", "select"}
  /\ run' = [l \in Leases |-> [run[l] EXCEPT !.left = Less(@, -1)]]
  /\ job' = [e \in Episodes |-> [job[e] EXCEPT !.retry = Less(@, 0)]]
  /\ worker' = [p \in Workers |-> [worker[p] EXCEPT !.left = Less(@, -1)]]
  /\ UNCHANGED ep

-----------------------------------------------------------------------------

Lifecycle ==
  \E e \in Episodes :
    \/ \E v \in Events : AppendEvent(e, v)
    \/ SoftSeal(e)
    \/ \E dreamRecommended \in BOOLEAN : HardSeal(e, dreamRecommended)
    \/ Reopen(e)

Repair ==
  \E e \in Episodes :
    \/ Reclassify(e)
    \/ RequeueDream(e)
    \/ \E f \in Episodes :
         \/ Merge(e, f)
         \/ \E v \in Events : MoveEvent(e, f, v)
         \/ \E M \in SUBSET Events : Split(e, f, M)

Review == \E l \in Leases : ApproveFrame(l) \/ RejectFrame(l)

TickStep(p) ==
  \/ TickStart(p) \/ ExpireLeases(p) \/ ScheduleRetries(p) \/ SelectJobs(p)
  \/ \E e \in Episodes : \/ \E l \in Leases : ClaimRow(p, e, l)
                         \/ MissRow(p, e)
  \/ MarkProcessing(p) \/ ClaimsDone(p)
  \/ \E l \in Leases : ReadEvidence(p, l)
  \/ \E saved \in BOOLEAN : SaveFrame(p, saved)
  \/ StageRun(p)
  \/ \E terminal \in BOOLEAN : CuratorThrows(p, terminal)
  \/ \E needsReview \in BOOLEAN : CompleteDreamJob(p, needsReview)
  \/ CompletionFails(p) \/ FailDreamJob(p) \/ TickDone(p)

Next ==
  \/ Lifecycle \/ Repair \/ RetryFailed \/ Review
  \/ \E p \in Workers : TickStep(p) \/ Crash(p)
  \/ Elapse

Spec == Init /\ [][Next]_vars

\* A database nobody operates on: no repair, no review, no manual retry.
Unattended ==
  \/ Lifecycle
  \/ \E p \in Workers : TickStep(p) \/ Crash(p)
  \/ Elapse

\* Every process keeps ticking and finishes the ticks it starts, because a host
\* schedules the Night and the ticks in between; and time passes.
FairSpec ==
  /\ Init /\ [][Unattended]_vars
  /\ \A p \in Workers : WF_vars(TickStep(p))
  /\ SF_vars(Elapse)

\* From some point on no process dies: what looks like a death is the end of a tick.
Quiet == <>[][\A p \in Workers : Crash(p) => SelectJobs(p) \/ TickDone(p)]_vars

-----------------------------------------------------------------------------
(* Properties.                                                              *)

TypeOK ==
  /\ ep     \in [Episodes -> EpisodeRow]
  /\ job    \in [Episodes -> JobRow]
  /\ run    \in [Leases -> RunRow]
  /\ worker \in [Workers -> Tick]

\* A job row exists only over a hard-sealed episode that has evidence, through
\* every reopening, repair and reseal (the rule dream_job_status_mismatch of
\* EpisodeInvariantValidator, and the reason skipEmptyDreamJobs finds nothing).
JobOnlyOverSealed ==
  \A e \in Episodes :
    job[e].state # "none" => ep[e].status = "sealed" /\ ep[e].links # {}

Answering(e, l) ==
  run[l].episode = e /\ run[l].state = "published" /\ run[l].current

\* A processed job was answered by a run that read the evidence the episode has
\* now: no event linked or moved since was left out of its dream.
ProcessedMeansCurrent ==
  \A e \in Episodes :
    job[e].state = "processed" =>
      \E l \in Leases : Answering(e, l) /\ run[l].links = ep[e].links

\* However leases expire, processes die and retries overlap, one queueing of an
\* episode publishes the candidates of at most one run.
OneAnswerPerQueueing ==
  \A e \in Episodes : \A l, m \in Leases :
    Answering(e, l) /\ Answering(e, m) => l = m

\* Visible candidates cite only events still linked to their episode, whatever
\* was moved, merged or split since, and whatever was in flight meanwhile.
VisibleRestsOnLinks ==
  \A l \in Leases :
    run[l].state = "published" => run[l].links \subseteq ep[run[l].episode].links

\* At most one active frame per episode (the partial unique index that publish
\* and review must never trip), resting on events still linked to it.
OneActiveFrame ==
  \A l, m \in Leases :
    run[l].frame = "active" =>
      /\ run[l].links \subseteq ep[run[l].episode].links
      /\ run[m].frame = "active" /\ run[m].episode = run[l].episode => l = m

\* A queueing is tried maxAttempts times, plus once per operator nudge, although
\* pending rows are claimed without looking at their attempts.
AttemptBudget ==
  \A e \in Episodes : job[e].attempts <= MaxAttempts + job[e].nudges

\* "Terminal ... failures are never automatically reclaimed": what leaves
\* failed_terminal is deleted with its row, or requeued by a repair from scratch.
TerminalStays ==
  [][\A e \in Episodes :
       job[e].state = "failed_terminal" =>
         job'[e].state \in {"failed_terminal", "none"} \/ job'[e] = FreshJob]_vars

\* Candidates become visible only in the step that processes the job that owns
\* them, under a lease still running: a worker that lost its lease publishes nothing.
PublishedUnderLease ==
  [][\A l \in Leases :
       run[l].state # "published" /\ run'[l].state = "published" =>
         /\ Holds(run[l].episode, l)
         /\ run[l].left >= 0
         /\ job'[run[l].episode].state = "processed"]_vars

\* An episode shown as dreamed (dream_status processed) has its job processed:
\* no seal, requeue, expiry or repair leaves the old status standing.
ShownAsDreamed ==
  \A e \in Episodes : ep[e].dreamed => job[e].state = "processed"

\* Lease ids run out only because the instance is finite.
IdsLast == [](\E l \in Leases : Fresh(l))

\* A queued episode is dreamed, refused or used up: no crash, lost lease or
\* overlapping tick leaves a job waiting or processing for ever.
JobSettles ==
  IdsLast /\ Quiet =>
    \A e \in Episodes :
      Active(e) ~> \/ ~Active(e)
                   \/ job[e].state = "failed_retryable" /\ Exhausted(e)

\* What a dead worker staged does not stay staged.
LeftoversSwept ==
  IdsLast /\ Quiet => \A l \in Leases : run[l].state = "staged" ~> run[l].state # "staged"

\* "Leased, retryable jobs ... so raw_then_dream does not silently become
\* unprocessed log accumulation": a retryable job does not stay where it failed.
RetryableIsRetried ==
  IdsLast /\ Quiet =>
    \A e \in Episodes : job[e].state = "failed_retryable" ~> job[e].state # "failed_retryable"

\* The backlog implements DreamOutcome: leases, retries and crashes only stutter.
Request(e) ==
  CASE job[e].state = "none" -> "none"
    [] job[e].state = "processed" -> "done"
    [] job[e].state = "failed_terminal" -> "refused"
    [] OTHER -> "wanted"

Outcome == INSTANCE DreamOutcome WITH
  Answers  <- Leases,
  evidence <- Links,
  request  <- [e \in Episodes |-> Request(e)],
  answer   <- [e \in Episodes |->
                 {<<l, run[l].links>> : l \in {k \in Leases : Answering(e, k)}}]

ImplementsOutcome == Outcome!Spec
=============================================================================
