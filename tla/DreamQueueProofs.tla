--------------------------- MODULE DreamQueueProofs ---------------------------
(***************************************************************************)
(* Proofs about DreamQueue, for any number of episodes, events, workers and *)
(* leases, and any lease, retry and attempt limits.                         *)
(***************************************************************************)
EXTENDS DreamQueue, TLAPS

(***************************************************************************)
(* Rows and the operators that rewrite them.                                *)
(***************************************************************************)

\* The rows a table starts with have the row types.
LEMMA RowTypes == NoJob \in JobRow /\ FreshJob \in JobRow /\ NoRun \in RunRow /\ NoTick \in Tick
  BY ConstantsAssumption
  DEF JobRow, JobState, NoJob, FreshJob, RunRow, RunState, FrameStatus, NoRun, Tick, Pc, NoTick

\* The upsert of enqueueDreamJob yields a job row.
LEMMA EnqueuedType == \A j \in JobRow : Enqueued(j) \in JobRow
  BY RowTypes DEF Enqueued, Nudged, JobRow, JobState

\* Giving up a lease leaves a job row.
LEMMA ReleasedType ==
  \A j \in JobRow, s \in JobState, n \in Nat :
    /\ Released(j, s, n) \in JobRow
    /\ Released(j, s, n).state = s /\ Released(j, s, n).lease = NoLease
    /\ Released(j, s, n).attempts = j.attempts /\ Released(j, s, n).nudges = j.nudges
  BY DEF Released, JobRow

\* What other statements do to an attempt's rows keeps them rows of that attempt.
LEMMA RewrittenRows ==
  ASSUME NEW r \in RunRow
  PROVE  /\ {Disowned(r), Superseded(r), Retired(r), Published(r), Abandoned(r)} \subseteq RunRow
         /\ \A s \in {Disowned(r), Superseded(r), Retired(r), Abandoned(r)} :
              s.episode = r.episode /\ s.links = r.links /\ s.left = r.left
         /\ Published(r).episode = r.episode /\ Published(r).links = r.links
<1>1. Disowned(r) \in RunRow
  BY DEF Disowned, RunRow
<1>2. Superseded(r) \in RunRow
  BY DEF Superseded, RunRow, RunState
<1>3. Retired(r) \in RunRow
  BY DEF Retired, RunRow, FrameStatus
<1>4. Published(r) \in RunRow
  BY DEF Published, RunRow, RunState
<1>5. Abandoned(r) \in RunRow
  BY DEF Abandoned, RunRow, RunState, FrameStatus
<1>6. /\ \A s \in {Disowned(r), Superseded(r), Retired(r), Abandoned(r)} :
           s.episode = r.episode /\ s.links = r.links /\ s.left = r.left
      /\ Published(r).episode = r.episode /\ Published(r).links = r.links
  BY DEF Disowned, Superseded, Retired, Published, Abandoned, RunRow
<1>7. QED
  BY <1>1, <1>2, <1>3, <1>4, <1>5, <1>6

\* ... and so do the statements over all the attempts at some episodes.
LEMMA RewrittenRuns ==
  ASSUME run \in [Leases -> RunRow], NEW S, NEW e
  PROVE  \A f \in {JobDeleted(e), Withdrawn(S), WithdrawnWithFrames(S)} :
           /\ f \in [Leases -> RunRow]
           /\ \A l \in Leases : f[l].episode = run[l].episode /\ f[l].links = run[l].links
                                /\ f[l].left = run[l].left
<1>1. ASSUME NEW l \in Leases, NEW s \in {run[l], Disowned(run[l]), Superseded(run[l]), Retired(Superseded(run[l]))}
      PROVE  s \in RunRow /\ s.episode = run[l].episode /\ s.links = run[l].links /\ s.left = run[l].left
  BY RewrittenRows
<1>2. QED
  BY <1>1 DEF JobDeleted, Withdrawn, WithdrawnWithFrames

(***************************************************************************)
(* Types.  A lease a tick has claimed always names an episode; ReadEvidence *)
(* relies on it.                                                            *)
(***************************************************************************)
ClaimsNameEpisodes ==
  \A p \in Workers : \A l \in worker[p].todo : run[l].episode \in Episodes

TypeInv == TypeOK /\ ClaimsNameEpisodes

\* The completing transaction, but for what it does to the attempts' rows.
LEMMA CompletionParts ==
  ASSUME NEW p, NEW b, CompleteDreamJob(p, b)
  PROVE  /\ worker[p].pc = "commit"
         /\ MayComplete(run[worker[p].cur].episode, worker[p].cur)
         /\ job' = [job EXCEPT ![run[worker[p].cur].episode] = Released(@, "processed", 0)]
         /\ ep'  = [ep EXCEPT ![run[worker[p].cur].episode].dreamed = TRUE]
         /\ worker' = [worker EXCEPT ![p].pc = "next"]
  BY DEF CompleteDreamJob, Goto

\* It writes one job row.
LEMMA CompletedJob ==
  ASSUME NEW p, NEW b, CompleteDreamJob(p, b)
  PROVE  \A e \in Episodes : e # run[worker[p].cur].episode => job'[e] = job[e]
<1>1. job' = [job EXCEPT ![run[worker[p].cur].episode] = Released(@, "processed", 0)]
  BY CompletionParts
<1>2. QED
  BY <1>1

\* An empty database and idle ticks are rows.
LEMMA TypeInit == Init => TypeInv
  BY RowTypes DEF Init, TypeInv, TypeOK, ClaimsNameEpisodes, EpisodeRow, EpisodeStatus, NoTick

\* Staging writes one status column of one attempt.
LEMMA StagedRuns ==
  ASSUME run \in [Leases -> RunRow], NEW c,
         \/ run' = [run EXCEPT ![c].frame = "staged"]
         \/ run' = [run EXCEPT ![c].state = "staged"]
  PROVE  run' \in [Leases -> RunRow] /\ \A k \in Leases : run'[k].episode = run[k].episode
<1>1. CASE c \notin Leases
  BY <1>1
<1>2. CASE c \in Leases /\ run' = [run EXCEPT ![c].frame = "staged"]
  BY <1>2 DEF RunRow, FrameStatus
<1>3. CASE c \in Leases /\ run' = [run EXCEPT ![c].state = "staged"]
  BY <1>3 DEF RunRow, RunState
<1>4. QED
  BY <1>1, <1>2, <1>3

\* Sealing writes a status the schema has.
LEMMA SealedRows ==
  ASSUME NEW f \in [Episodes -> EpisodeRow], NEW e \in Episodes, NEW d \in BOOLEAN
  PROVE  [f EXCEPT ![e].status = "sealed", ![e].dreamed = d] \in [Episodes -> EpisodeRow]
  BY DEF EpisodeRow, EpisodeStatus

\* The steps an episode goes through keep every row a row.
LEMMA TypeLifecycle == TypeInv /\ Lifecycle => TypeInv'
<1> SUFFICES ASSUME TypeInv, NEW e \in Episodes,
                    \/ \E v \in Events : AppendEvent(e, v)
                    \/ SoftSeal(e)
                    \/ \E b \in BOOLEAN : HardSeal(e, b)
                    \/ Reopen(e)
             PROVE  TypeInv'
  BY DEF Lifecycle
<1> USE DEF TypeInv, TypeOK, ClaimsNameEpisodes
<1>1. ASSUME NEW v \in Events, AppendEvent(e, v) PROVE TypeInv'
  BY <1>1 DEF AppendEvent, EpisodeRow, EpisodeStatus
<1>2. CASE SoftSeal(e)
  <2>1. ep' \in [Episodes -> EpisodeRow]
    BY <1>2 DEF SoftSeal, EpisodeRow, EpisodeStatus
  <2>2. job' \in [Episodes -> JobRow]
    BY <1>2, RowTypes DEF SoftSeal
  <2>3. run' \in [Leases -> RunRow] /\ \A l \in Leases : run'[l].episode = run[l].episode
    BY <1>2, RewrittenRuns DEF SoftSeal
  <2>4. QED
    BY <2>1, <2>2, <2>3, <1>2 DEF SoftSeal, Tick
<1>3. ASSUME NEW b \in BOOLEAN, HardSeal(e, b) PROVE TypeInv'
  <2>1. ep' \in [Episodes -> EpisodeRow]
    <3>1. PICK d \in BOOLEAN : ep' = [ep EXCEPT ![e].status = "sealed", ![e].dreamed = d]
      BY <1>3 DEF HardSeal
    <3>2. QED
      BY <3>1, SealedRows
  <2>2. job' \in [Episodes -> JobRow]
    BY <1>3, EnqueuedType DEF HardSeal
  <2>3. QED
    BY <2>1, <2>2, <1>3 DEF HardSeal
<1>4. CASE Reopen(e)
  <2>1. ep' \in [Episodes -> EpisodeRow]
    BY <1>4 DEF Reopen, EpisodeRow, EpisodeStatus
  <2>2. job' \in [Episodes -> JobRow]
    BY <1>4, RowTypes DEF Reopen
  <2>3. QED
    BY <2>1, <2>2, <1>4 DEF Reopen
<1>5. QED
  BY <1>1, <1>2, <1>3, <1>4

\* A repair leaves rows, whatever links and status it leaves behind.
LEMMA TypeRecompute ==
  ASSUME TypeInv, NEW S, NEW links \in [Episodes -> SUBSET Events],
         NEW status \in [Episodes -> EpisodeStatus], Recompute(S, links, status)
  PROVE  TypeInv'
<1>1. ep' \in [Episodes -> EpisodeRow]
  BY DEF TypeInv, TypeOK, Recompute, EpisodeRow, EpisodeStatus
<1>2. job' \in [Episodes -> JobRow]
  BY RowTypes DEF TypeInv, TypeOK, Recompute
<1>3. run' \in [Leases -> RunRow] /\ \A l \in Leases : run'[l].episode = run[l].episode
  BY RewrittenRuns DEF TypeInv, TypeOK, Recompute
<1>4. QED
  BY <1>1, <1>2, <1>3 DEF TypeInv, TypeOK, ClaimsNameEpisodes, Recompute, Tick

\* What the repairs leave behind are links and statuses.
LEMMA RepairTypes ==
  ASSUME TypeInv
  PROVE  /\ Links \in [Episodes -> SUBSET Events]
         /\ Status \in [Episodes -> EpisodeStatus]
         /\ \A e, f \in Episodes : \A M \in SUBSET Events :
              /\ Moved(e, f, M) \in [Episodes -> SUBSET Events]
              /\ [Status EXCEPT ![f] = "sealed"] \in [Episodes -> EpisodeStatus]
<1>1. Links \in [Episodes -> SUBSET Events] /\ Status \in [Episodes -> EpisodeStatus]
  BY DEF TypeInv, TypeOK, EpisodeRow, Links, Status
<1>2. QED
  BY <1>1 DEF Moved, EpisodeStatus

\* Repairs, requeues, retries and reviews keep every row a row.
LEMMA TypeRepair == TypeInv /\ (Repair \/ RetryFailed \/ Review) => TypeInv'
<1> SUFFICES ASSUME TypeInv, Repair \/ RetryFailed \/ Review PROVE TypeInv'
  OBVIOUS
<1>1. ASSUME NEW e \in Episodes, Reclassify(e) PROVE TypeInv'
  BY <1>1, TypeRecompute, RepairTypes DEF Reclassify
<1>2. ASSUME NEW e \in Episodes, RequeueDream(e) PROVE TypeInv'
  <2>1. ep' \in [Episodes -> EpisodeRow]
    BY <1>2 DEF TypeInv, TypeOK, RequeueDream, EpisodeRow
  <2>2. job' \in [Episodes -> JobRow]
    BY <1>2, RowTypes DEF TypeInv, TypeOK, RequeueDream
  <2>3. run' \in [Leases -> RunRow] /\ \A l \in Leases : run'[l].episode = run[l].episode
    BY <1>2, RewrittenRuns DEF TypeInv, TypeOK, RequeueDream
  <2>4. QED
    BY <2>1, <2>2, <2>3, <1>2 DEF TypeInv, TypeOK, ClaimsNameEpisodes, RequeueDream, Tick
<1>3. ASSUME NEW e \in Episodes, NEW f \in Episodes, Merge(e, f) PROVE TypeInv'
  <2>1. ep[e].links \in SUBSET Events
    BY DEF TypeInv, TypeOK, EpisodeRow
  <2>2. QED
    BY <1>3, <2>1, TypeRecompute, RepairTypes DEF Merge
<1>4. ASSUME NEW e \in Episodes, NEW f \in Episodes, NEW v \in Events, MoveEvent(e, f, v)
      PROVE TypeInv'
  BY <1>4, TypeRecompute, RepairTypes DEF MoveEvent
<1>5. ASSUME NEW e \in Episodes, NEW f \in Episodes, NEW M \in SUBSET Events, Split(e, f, M)
      PROVE TypeInv'
  BY <1>5, TypeRecompute, RepairTypes DEF Split
<1>6. CASE RetryFailed
  <2>1. job' \in [Episodes -> JobRow]
    BY <1>6, EnqueuedType DEF TypeInv, TypeOK, RetryFailed
  <2>2. ep' \in [Episodes -> EpisodeRow]
    BY <1>6 DEF TypeInv, TypeOK, RetryFailed, EpisodeRow
  <2>3. QED
    BY <2>1, <2>2, <1>6 DEF TypeInv, TypeOK, ClaimsNameEpisodes, RetryFailed
<1>7. ASSUME NEW l \in Leases, ApproveFrame(l) \/ RejectFrame(l) PROVE TypeInv'
  <2>1. run' \in [Leases -> RunRow] /\ \A k \in Leases : run'[k].episode = run[k].episode
    BY <1>7 DEF TypeInv, TypeOK, ApproveFrame, RejectFrame, Activated, RunRow, FrameStatus
  <2>2. QED
    BY <2>1, <1>7 DEF TypeInv, TypeOK, ClaimsNameEpisodes, ApproveFrame, RejectFrame, Tick
<1>8. QED
  BY <1>1, <1>2, <1>3, <1>4, <1>5, <1>6, <1>7 DEF Repair, Review

\* The steps of a tick keep every row a row.
LEMMA TypeTick == ASSUME TypeInv, NEW p \in Workers, TickStep(p) PROVE TypeInv'
<1> USE DEF TypeInv, TypeOK, ClaimsNameEpisodes
<1>1. CASE TickStart(p)
  <2>1. run' \in [Leases -> RunRow] /\ \A l \in Leases : run'[l].episode = run[l].episode
    BY <1>1, RewrittenRows DEF TickStart
  <2>2. worker' \in [Workers -> Tick] /\ \A q \in Workers : worker'[q].todo \subseteq worker[q].todo
    BY <1>1, ConstantsAssumption DEF TickStart, Tick, Pc
  <2>3. QED
    BY <2>1, <2>2, <1>1 DEF TickStart, Tick
<1>2. CASE ExpireLeases(p)
  <2>1. job' \in [Episodes -> JobRow]
    BY <1>2, ReleasedType, ConstantsAssumption DEF ExpireLeases, JobRow, JobState
  <2>2. ep' \in [Episodes -> EpisodeRow]
    BY <1>2 DEF ExpireLeases, EpisodeRow
  <2>3. worker' \in [Workers -> Tick] /\ \A q \in Workers : worker'[q].todo = worker[q].todo
    <3>1. worker' = [worker EXCEPT ![p].pc = "schedule"]
      BY <1>2 DEF ExpireLeases, Goto
    <3>2. QED
      BY <3>1 DEF Tick, Pc
  <2>4. QED
    BY <2>1, <2>2, <2>3, <1>2 DEF ExpireLeases
<1>3. CASE ScheduleRetries(p)
  <2>1. job' \in [Episodes -> JobRow]
    BY <1>3 DEF ScheduleRetries, JobRow, JobState
  <2>2. ep' \in [Episodes -> EpisodeRow]
    BY <1>3 DEF ScheduleRetries, EpisodeRow
  <2>3. worker' \in [Workers -> Tick] /\ \A q \in Workers : worker'[q].todo = worker[q].todo
    <3>1. worker' = [worker EXCEPT ![p].pc = "select"]
      BY <1>3 DEF ScheduleRetries, Goto
    <3>2. QED
      BY <3>1 DEF Tick, Pc
  <2>4. QED
    BY <2>1, <2>2, <2>3, <1>3 DEF ScheduleRetries
<1>4. CASE SelectJobs(p)
  BY <1>4 DEF SelectJobs, Eligible, NoTick, Tick, Pc
<1>5. ASSUME NEW e \in Episodes, NEW l \in Leases, ClaimRow(p, e, l) PROVE TypeInv'
  <2>1. job' \in [Episodes -> JobRow]
    BY <1>5 DEF ClaimRow, JobRow, JobState
  <2>2. run' \in [Leases -> RunRow] /\ run'[l].episode = e
    BY <1>5 DEF ClaimRow, NoRun, RunRow, Tick, RunState, FrameStatus
  <2>3. \A k \in Leases : k # l => run'[k] = run[k]
    BY <1>5 DEF ClaimRow
  <2>4. worker' \in [Workers -> Tick]
    BY <1>5 DEF ClaimRow, Tick, Pc
  <2>5. \A q \in Workers : worker'[q].todo \subseteq worker[q].todo \cup {l}
    BY <1>5 DEF ClaimRow, Tick
  <2>6. QED
    BY <2>1, <2>2, <2>3, <2>4, <2>5, <1>5 DEF ClaimRow, Tick
<1>6. ASSUME NEW e \in Episodes, MissRow(p, e) PROVE TypeInv'
  BY <1>6 DEF MissRow, Tick
<1>7. CASE MarkProcessing(p)
  <2>1. ep' \in [Episodes -> EpisodeRow]
    BY <1>7 DEF MarkProcessing, EpisodeRow
  <2>2. worker' \in [Workers -> Tick] /\ \A q \in Workers : worker'[q].todo = worker[q].todo
    BY <1>7 DEF MarkProcessing, Tick, Pc
  <2>3. QED
    BY <2>1, <2>2, <1>7 DEF MarkProcessing
<1>8. CASE ClaimsDone(p)
  BY <1>8 DEF ClaimsDone, Tick, Pc
<1>9. ASSUME NEW l \in Leases, ReadEvidence(p, l) PROVE TypeInv'
  <2>1. ep[run[l].episode].links \in SUBSET Events
    BY <1>9 DEF ReadEvidence, EpisodeRow
  <2>2. run' \in [Leases -> RunRow] /\ \A k \in Leases : run'[k].episode = run[k].episode
    BY <1>9, <2>1 DEF ReadEvidence, RunRow
  <2>3. worker' \in [Workers -> Tick] /\ \A q \in Workers : worker'[q].todo \subseteq worker[q].todo
    BY <1>9 DEF ReadEvidence, Tick, Pc
  <2>4. QED
    BY <2>2, <2>3, <1>9 DEF ReadEvidence, Tick
<1>10. ASSUME NEW b \in BOOLEAN, SaveFrame(p, b) \/ StageRun(p) \/ CuratorThrows(p, b)
       PROVE TypeInv'
  <2>1. run' \in [Leases -> RunRow] /\ \A k \in Leases : run'[k].episode = run[k].episode
    <3> DEFINE c == worker[p].cur
    <3>1. \/ run' = run
          \/ run' = [run EXCEPT ![c].frame = "staged"]
          \/ run' = [run EXCEPT ![c].state = "staged"]
      BY <1>10 DEF SaveFrame, StageRun, CuratorThrows
    <3>2. CASE run' = run
      BY <3>2
    <3> HIDE DEF c
    <3>3. CASE run' = [run EXCEPT ![c].frame = "staged"] \/ run' = [run EXCEPT ![c].state = "staged"]
      BY <3>3, StagedRuns
    <3>4. QED
      BY <3>1, <3>2, <3>3
  <2>2. worker' \in [Workers -> Tick] /\ \A q \in Workers : worker'[q].todo = worker[q].todo
    <3>1. \E pc \in Pc : worker' = [worker EXCEPT ![p].pc = pc]
      BY <1>10 DEF SaveFrame, StageRun, CuratorThrows, Goto, Pc
    <3>2. QED
      BY <3>1 DEF Tick
  <2>3. QED
    BY <2>1, <2>2, <1>10 DEF SaveFrame, StageRun, CuratorThrows, Tick
<1>11. ASSUME NEW b \in BOOLEAN, CompleteDreamJob(p, b) PROVE TypeInv'
  <2>1. job' \in [Episodes -> JobRow]
    <3>1. \A e \in Episodes : Released(job[e], "processed", 0) \in JobRow
      BY ReleasedType DEF JobState
    <3>2. QED
      BY <3>1, <1>11 DEF CompleteDreamJob
  <2>2. ep' \in [Episodes -> EpisodeRow]
    BY <1>11 DEF CompleteDreamJob, EpisodeRow
  <2>3. run' \in [Leases -> RunRow] /\ \A k \in Leases : run'[k].episode = run[k].episode
    <3>1. \A k \in Leases : Published(run[k]) \in RunRow /\ Published(run[k]).episode = run[k].episode
      BY RewrittenRows
    <3>2. \A r \in RunRow, f \in FrameStatus :
            [r EXCEPT !.frame = f] \in RunRow /\ [r EXCEPT !.frame = f].episode = r.episode
      BY DEF RunRow
    <3>3. \A f \in [Leases -> RunRow] : \A k :
            /\ Activated(f, k) \in [Leases -> RunRow]
            /\ \A m \in Leases : Activated(f, k)[m].episode = f[m].episode
      BY <3>2 DEF Activated, FrameStatus
    <3> DEFINE published == [run EXCEPT ![worker[p].cur] = Published(@)]
               confirming(k) == [published EXCEPT ![k].frame = "needs_confirmation"]
    <3>4. published \in [Leases -> RunRow] /\ \A k \in Leases : published[k].episode = run[k].episode
      BY <3>1
    <3>5. \/ run' = published
          \/ run' = confirming(worker[p].cur)
          \/ run' = Activated(published, worker[p].cur)
      BY <1>11 DEF CompleteDreamJob
    <3>6. \A k : /\ confirming(k) \in [Leases -> RunRow]
                 /\ \A m \in Leases : confirming(k)[m].episode = run[m].episode
      BY <3>2, <3>4 DEF FrameStatus
    <3> HIDE DEF published, confirming
    <3>7. QED
      BY <3>3, <3>4, <3>5, <3>6
  <2>4. worker' \in [Workers -> Tick] /\ \A q \in Workers : worker'[q].todo = worker[q].todo
    <3>1. worker' = [worker EXCEPT ![p].pc = "next"]
      BY <1>11, CompletionParts
    <3>2. QED
      BY <3>1 DEF Tick, Pc
  <2>5. QED
    BY <2>1, <2>2, <2>3, <2>4 DEF Tick
<1>12. CASE CompletionFails(p)
  <2>1. run' \in [Leases -> RunRow] /\ \A k \in Leases : run'[k].episode = run[k].episode
    <3>1. \A k \in Leases : Abandoned(run[k]) \in RunRow /\ Abandoned(run[k]).episode = run[k].episode
      BY RewrittenRows
    <3>2. QED
      BY <3>1, <1>12 DEF CompletionFails
  <2>2. worker' \in [Workers -> Tick] /\ \A q \in Workers : worker'[q].todo = worker[q].todo
    BY <1>12 DEF CompletionFails, Goto, Tick, Pc
  <2>3. QED
    BY <2>1, <2>2, <1>12 DEF CompletionFails, Tick
<1>13. CASE FailDreamJob(p)
  <2>1. job' \in [Episodes -> JobRow]
    <3>1. \A e \in Episodes : /\ Released(job[e], "failed_terminal", 0) \in JobRow
                              /\ Released(job[e], "failed_retryable", RetryMs) \in JobRow
      BY ReleasedType, ConstantsAssumption DEF JobState
    <3>2. QED
      BY <3>1, <1>13 DEF FailDreamJob
  <2>2. ep' \in [Episodes -> EpisodeRow]
    <3>1. \/ ep' = ep
          \/ ep' = [ep EXCEPT ![run[worker[p].cur].episode].dreamed = FALSE]
      BY <1>13 DEF FailDreamJob
    <3>2. \A e : [ep EXCEPT ![e].dreamed = FALSE] \in [Episodes -> EpisodeRow]
      BY DEF EpisodeRow
    <3>3. QED
      BY <3>1, <3>2
  <2>3. run' \in [Leases -> RunRow] /\ \A k \in Leases : run'[k].episode = run[k].episode
    <3>1. run' = [run EXCEPT ![worker[p].cur].frame = IF @ = "staged" THEN "failed" ELSE @]
      BY <1>13 DEF FailDreamJob
    <3>2. \A r \in RunRow :
            LET s == [r EXCEPT !.frame = IF @ = "staged" THEN "failed" ELSE @]
            IN  s \in RunRow /\ s.episode = r.episode
      BY DEF RunRow, FrameStatus
    <3>3. QED
      BY <3>1, <3>2
  <2>4. worker' \in [Workers -> Tick] /\ \A q \in Workers : worker'[q].todo = worker[q].todo
    BY <1>13 DEF FailDreamJob, Goto, Tick, Pc
  <2>5. QED
    BY <2>1, <2>2, <2>3, <2>4 DEF Tick
<1>14. CASE TickDone(p)
  BY <1>14, RowTypes DEF TickDone, NoTick
<1>15. QED
  BY <1>1, <1>2, <1>3, <1>4, <1>5, <1>6, <1>7, <1>8, <1>9, <1>10, <1>11, <1>12, <1>13, <1>14
  DEF TickStep

\* Time runs down to the floor of each clock and no further.
LEMMA LessTypes ==
  /\ \A n \in Nat : Less(n, 0) \in Nat
  /\ \A n \in Int : Less(n, -1) \in Int
  BY DEF Less

\* No step writes a value its column does not have, or claims a job of no episode.
LEMMA TypeStep == TypeInv /\ [Next]_vars => TypeInv'
<1> SUFFICES ASSUME TypeInv, [Next]_vars PROVE TypeInv'
  OBVIOUS
<1>1. CASE Lifecycle
  BY <1>1, TypeLifecycle
<1>2. CASE Repair \/ RetryFailed \/ Review
  BY <1>2, TypeRepair
<1>3. ASSUME NEW p \in Workers, TickStep(p) PROVE TypeInv'
  BY <1>3, TypeTick
<1>4. ASSUME NEW p \in Workers, Crash(p) PROVE TypeInv'
  BY <1>4, RowTypes DEF Crash, TypeInv, TypeOK, ClaimsNameEpisodes, NoTick
<1>5. CASE Elapse
  <2>1. run' \in [Leases -> RunRow] /\ \A k \in Leases : run'[k].episode = run[k].episode
    BY <1>5, LessTypes DEF Elapse, TypeInv, TypeOK, RunRow
  <2>2. job' \in [Episodes -> JobRow]
    BY <1>5, LessTypes DEF Elapse, TypeInv, TypeOK, JobRow
  <2>3. worker' \in [Workers -> Tick] /\ \A q \in Workers : worker'[q].todo = worker[q].todo
    BY <1>5, LessTypes DEF Elapse, TypeInv, TypeOK, Tick
  <2>4. TypeOK'
    BY <2>1, <2>2, <2>3, <1>5 DEF Elapse, TypeInv, TypeOK
  <2>5. ClaimsNameEpisodes'
    <3>1. \A q \in Workers : worker[q].todo \subseteq Leases
      BY DEF TypeInv, TypeOK, Tick
    <3>2. \A q \in Workers : \A l \in worker[q].todo : run[l].episode \in Episodes
      BY DEF TypeInv, ClaimsNameEpisodes
    <3>3. QED
      BY <2>1, <2>3, <3>1, <3>2 DEF ClaimsNameEpisodes
  <2>6. QED
    BY <2>4, <2>5 DEF TypeInv
<1>6. CASE UNCHANGED vars
  BY <1>6 DEF vars, TypeInv, TypeOK, ClaimsNameEpisodes
<1>7. QED
  BY <1>1, <1>2, <1>3, <1>4, <1>5, <1>6 DEF Next

\* Every reachable state is one of rows: no clock runs below its floor and no
\* status is one the schema does not have.
THEOREM TypeCorrect == Spec => []TypeOK
<1>1. TypeInv => TypeOK
  BY DEF TypeInv
<1>2. QED
  BY TypeInit, TypeStep, <1>1, PTL DEF Spec

(***************************************************************************)
(* The life of one job row.  Whatever the step, a row stays, goes, starts   *)
(* over, is nudged, is claimed, gives up its lease, or has its retry moved. *)
(***************************************************************************)
JobClaimed(j, k) ==
  /\ j.state \in {"pending", "retry_scheduled"} /\ k.state = "processing"
  /\ k.attempts = j.attempts + 1 /\ k.nudges = j.nudges

JobReleased(j, k) ==
  /\ j.state = "processing"
  /\ k.state \in {"processed", "failed_retryable", "failed_terminal"}
  /\ k.lease = NoLease /\ k.attempts = j.attempts /\ k.nudges = j.nudges

JobScheduled(j, k) ==
  /\ j.state = "failed_retryable" /\ k.state = "retry_scheduled" /\ j.attempts < MaxAttempts
  /\ k.lease = j.lease /\ k.attempts = j.attempts /\ k.nudges = j.nudges

JobAged(j, k) ==
  k.state = j.state /\ k.lease = j.lease /\ k.attempts = j.attempts /\ k.nudges = j.nudges

JobStep(j, k) ==
  \/ k = j \/ k = NoJob \/ k = FreshJob
  \/ j.state \in {"failed_retryable", "retry_scheduled"} /\ k = Nudged(j)
  \/ JobClaimed(j, k) \/ JobReleased(j, k) \/ JobScheduled(j, k) \/ JobAged(j, k)

\* The upsert starts a row, nudges one, or leaves it.
LEMMA EnqueuedStep == \A j : JobStep(j, Enqueued(j))
  BY DEF JobStep, Enqueued

\* A running job that gives up its lease is processed or has failed.
LEMMA ReleasedStep ==
  \A j \in JobRow, s \in {"processed", "failed_retryable", "failed_terminal"}, n \in Nat :
    j.state = "processing" => JobStep(j, Released(j, s, n))
<1> SUFFICES ASSUME NEW j \in JobRow, NEW s \in {"processed", "failed_retryable", "failed_terminal"},
                    NEW n \in Nat, j.state = "processing"
             PROVE  JobReleased(j, Released(j, s, n))
  BY DEF JobStep
<1>1. s \in JobState
  BY DEF JobState
<1>2. QED
  BY <1>1, ReleasedType DEF JobReleased

\* "cogmem dream retry" touches the retryable jobs only.
LEMMA RetriedJobs ==
  RetryFailed =>
    \A e \in Episodes :
      \/ job'[e] = job[e]
      \/ job[e].state = "failed_retryable" /\ job'[e] = Enqueued(job[e])
  BY DEF RetryFailed

\* Every statement of the code that touches a job row takes one of those steps.
LEMMA JobSteps == TypeInv /\ [Next]_vars => \A e \in Episodes : JobStep(job[e], job'[e])
<1> SUFFICES ASSUME TypeInv, [Next]_vars PROVE \A e \in Episodes : JobStep(job[e], job'[e])
  OBVIOUS
<1>1. \A e \in Episodes : job[e] \in JobRow
  BY DEF TypeInv, TypeOK
<1>2. CASE job' = job
  BY <1>2 DEF JobStep
<1>3. ASSUME NEW f \in Episodes, SoftSeal(f) \/ Reopen(f) \/ RequeueDream(f)
      PROVE  \A e \in Episodes : JobStep(job[e], job'[e])
  BY <1>3 DEF TypeInv, TypeOK, SoftSeal, Reopen, RequeueDream, JobStep
<1>4. ASSUME NEW f \in Episodes, NEW b \in BOOLEAN, HardSeal(f, b)
      PROVE  \A e \in Episodes : JobStep(job[e], job'[e])
  <2>1. \A e \in Episodes : job'[e] \in {job[e], Enqueued(job[e])}
    BY <1>4 DEF HardSeal, TypeInv, TypeOK
  <2>2. QED
    BY <2>1, EnqueuedStep DEF JobStep
<1>5. ASSUME NEW S, NEW links, NEW status, Recompute(S, links, status)
      PROVE  \A e \in Episodes : JobStep(job[e], job'[e])
  BY <1>5 DEF Recompute, JobStep
<1>6. CASE Repair
  BY <1>6, <1>5, <1>3 DEF Repair, Reclassify, MoveEvent, Merge, Split
<1>7. CASE RetryFailed
  BY <1>7, RetriedJobs, EnqueuedStep DEF JobStep
<1>8. CASE Lifecycle
  BY <1>2, <1>3, <1>4, <1>8 DEF Lifecycle, AppendEvent
<1>9. ASSUME NEW p \in Workers, TickStep(p) PROVE \A e \in Episodes : JobStep(job[e], job'[e])
  <2>1. CASE ExpireLeases(p)
    <3>1. \A e \in Episodes :
            \/ job'[e] = job[e]
            \/ /\ job[e].state = "processing"
               /\ \/ job'[e] = Released(job[e], "failed_terminal", job[e].retry)
                  \/ job'[e] = Released(job[e], "failed_retryable", RetryMs)
      BY <2>1 DEF ExpireLeases, Expired
    <3>2. \A e \in Episodes : job[e].retry \in Nat
      BY <1>1 DEF JobRow
    <3>3. QED
      BY <1>1, <3>1, <3>2, ReleasedStep, ConstantsAssumption DEF JobStep
  <2>2. CASE ScheduleRetries(p)
    BY <1>1, <2>2, ConstantsAssumption
    DEF ScheduleRetries, Exhausted, JobRow, JobStep, JobScheduled
  <2>3. ASSUME NEW f \in Episodes, NEW l \in Leases, ClaimRow(p, f, l)
        PROVE  \A e \in Episodes : JobStep(job[e], job'[e])
    BY <2>3 DEF TypeInv, TypeOK, ClaimRow, Claimable, JobStep, JobClaimed
  <2>4. ASSUME NEW b \in BOOLEAN, CompleteDreamJob(p, b)
        PROVE  \A e \in Episodes : JobStep(job[e], job'[e])
    <3>1. \A e \in Episodes :
            \/ job'[e] = job[e]
            \/ job[e].state = "processing" /\ job'[e] = Released(job[e], "processed", 0)
      BY <2>4 DEF CompleteDreamJob, MayComplete, Holds, TypeInv, TypeOK
    <3>2. QED
      BY <1>1, <3>1, ReleasedStep DEF JobStep
  <2>5. CASE FailDreamJob(p)
    <3>1. \A e \in Episodes :
            \/ job'[e] = job[e]
            \/ /\ job[e].state = "processing"
               /\ \/ job'[e] = Released(job[e], "failed_terminal", 0)
                  \/ job'[e] = Released(job[e], "failed_retryable", RetryMs)
      BY <2>5 DEF FailDreamJob, Holds, TypeInv, TypeOK
    <3>2. QED
      BY <1>1, <3>1, ReleasedStep, ConstantsAssumption DEF JobStep
  <2>6. QED
    BY <1>2, <1>9, <2>1, <2>2, <2>3, <2>4, <2>5
    DEF TickStep, TickStart, SelectJobs, MissRow, MarkProcessing, ClaimsDone, ReadEvidence,
        SaveFrame, StageRun, CuratorThrows, CompletionFails, TickDone
<1>10. CASE Elapse
  BY <1>1, <1>10 DEF Elapse, JobRow, JobStep, JobAged
<1>11. QED
  BY <1>2, <1>6, <1>7, <1>8, <1>9, <1>10
  DEF Next, vars, Review, ApproveFrame, RejectFrame, Crash

(***************************************************************************)
(* The attempt budget.  A row that may be claimed still has an attempt left,*)
(* although the SELECT looks at attempts only when it is retry_scheduled.   *)
(***************************************************************************)
WithinBudget(j) ==
  /\ j.attempts <= MaxAttempts + j.nudges
  /\ j.state \in {"pending", "retry_scheduled"} => j.attempts < MaxAttempts + j.nudges

BudgetInv == \A e \in Episodes : WithinBudget(job[e])

\* None of those steps takes an attempt that is not there.
LEMMA BudgetStep == \A j, k \in JobRow : WithinBudget(j) /\ JobStep(j, k) => WithinBudget(k)
  BY ConstantsAssumption
  DEF WithinBudget, JobStep, JobClaimed, JobReleased, JobScheduled, JobAged, Nudged,
      JobRow, NoJob, FreshJob

\* No history of crashes, expired leases and failures tries one queueing more
\* than maxAttempts times, plus once per operator nudge.
THEOREM AttemptsBounded == Spec => []AttemptBudget
<1>1. Init => BudgetInv
  BY ConstantsAssumption DEF Init, BudgetInv, WithinBudget, NoJob
<1>2. TypeInv /\ TypeInv' /\ BudgetInv /\ [Next]_vars => BudgetInv'
  <2> SUFFICES ASSUME TypeInv, TypeInv', BudgetInv, [Next]_vars, NEW e \in Episodes
               PROVE  WithinBudget(job'[e])
    BY DEF BudgetInv
  <2>1. job[e] \in JobRow /\ job'[e] \in JobRow
    BY DEF TypeInv, TypeOK
  <2>2. QED
    BY <2>1, JobSteps, BudgetStep DEF BudgetInv
<1>3. BudgetInv => AttemptBudget
  BY DEF BudgetInv, WithinBudget, AttemptBudget
<1>4. QED
  BY TypeInit, TypeStep, <1>1, <1>2, <1>3, PTL DEF Spec

\* "Terminal ... failures are never automatically reclaimed": a job leaves
\* failed_terminal only with its row, or requeued from scratch by a repair.
THEOREM TerminalIsFinal == Spec => TerminalStays
<1>1. TypeInv /\ [Next]_vars =>
        [\A e \in Episodes :
           job[e].state = "failed_terminal" =>
             job'[e].state \in {"failed_terminal", "none"} \/ job'[e] = FreshJob]_vars
  <2> SUFFICES ASSUME TypeInv, [Next]_vars, NEW e \in Episodes, job[e].state = "failed_terminal"
               PROVE  job'[e].state \in {"failed_terminal", "none"} \/ job'[e] = FreshJob
    OBVIOUS
  <2>1. JobStep(job[e], job'[e])
    BY JobSteps
  <2>2. QED
    BY <2>1 DEF JobStep, JobClaimed, JobReleased, JobScheduled, JobAged, NoJob
<1>2. QED
  BY TypeInit, TypeStep, <1>1, PTL DEF Spec, TerminalStays

(***************************************************************************)
(* Jobs and the episodes they are for.                                      *)
(***************************************************************************)
RowsAgree(e) ==
  /\ job[e].state # "none" => ep[e].status = "sealed" /\ ep[e].links # {}
  /\ ep[e].dreamed => job[e].state = "processed"

RowsInv == \A e \in Episodes : RowsAgree(e)

\* An UPDATE of dream_status alone.
SetDreamed(e, b) ==
  ep'[e].status = ep[e].status /\ ep'[e].links = ep[e].links /\ ep'[e].dreamed = b

\* The upsert queues a row or leaves it; a running one it leaves.
LEMMA EnqueuedStates ==
  \A j : /\ Enqueued(j) = j \/ Enqueued(j).state = "pending"
         /\ j.state = "processed" => Enqueued(j) = j
  BY DEF Enqueued, Nudged, FreshJob, NoJob

\* Seals and repairs keep an episode and its job in step.
LEMMA RowsLifecycle ==
  ASSUME TypeInv, RowsInv, Lifecycle \/ Repair \/ RetryFailed PROVE RowsInv'
<1> USE DEF TypeInv, TypeOK, RowsInv, RowsAgree, EpisodeRow
<1>1. ASSUME NEW e \in Episodes, NEW v \in Events, AppendEvent(e, v) PROVE RowsInv'
  BY <1>1 DEF AppendEvent
<1>2. ASSUME NEW e \in Episodes, SoftSeal(e) PROVE RowsInv'
  BY <1>2 DEF SoftSeal, NoJob
<1>3. ASSUME NEW e \in Episodes, NEW b \in BOOLEAN, HardSeal(e, b) PROVE RowsInv'
  <2>1. ASSUME NEW f \in Episodes, f # e PROVE RowsAgree(f)'
    BY <1>3, <2>1 DEF HardSeal
  <2>2. /\ ep'[e].status = "sealed" /\ ep'[e].links = ep[e].links /\ ep[e].links # {}
        /\ ep'[e].dreamed = (ep[e].dreamed /\ ~(b /\ Enqueued(job[e]).state = "pending"))
        /\ job'[e] = IF b THEN Enqueued(job[e]) ELSE job[e]
    BY <1>3 DEF HardSeal
  <2>3. RowsAgree(e)'
    BY <2>2, EnqueuedStates
  <2>4. QED
    BY <2>1, <2>3
<1>4. ASSUME NEW e \in Episodes, Reopen(e) PROVE RowsInv'
  BY <1>4 DEF Reopen, NoJob
<1>5. ASSUME NEW S, NEW links \in [Episodes -> SUBSET Events],
             NEW status \in [Episodes -> EpisodeStatus], Recompute(S, links, status)
      PROVE  RowsInv'
  BY <1>5 DEF Recompute, NoJob, FreshJob
<1>6. ASSUME NEW e \in Episodes, RequeueDream(e) PROVE RowsInv'
  BY <1>6 DEF RequeueDream, FreshJob, NoJob
<1>7. CASE Repair
  <2>1. ASSUME NEW e \in Episodes, Reclassify(e) PROVE RowsInv'
    BY <1>5, <2>1, RepairTypes DEF Reclassify
  <2>2. ASSUME NEW e \in Episodes, NEW f \in Episodes, Merge(e, f) PROVE RowsInv'
    <3>1. ep[e].links \in SUBSET Events
      OBVIOUS
    <3>2. QED
      BY <1>5, <2>2, <3>1, RepairTypes DEF Merge
  <2>3. ASSUME NEW e \in Episodes, NEW f \in Episodes, NEW v \in Events, MoveEvent(e, f, v)
        PROVE  RowsInv'
    BY <1>5, <2>3, RepairTypes DEF MoveEvent
  <2>4. ASSUME NEW e \in Episodes, NEW f \in Episodes, NEW M \in SUBSET Events, Split(e, f, M)
        PROVE  RowsInv'
    BY <1>5, <2>4, RepairTypes DEF Split
  <2>5. QED
    BY <1>6, <1>7, <2>1, <2>2, <2>3, <2>4 DEF Repair
<1>8. CASE RetryFailed
  <2>1. \A e \in Episodes :
          /\ \/ job'[e] = job[e]
             \/ job[e].state = "failed_retryable" /\ job'[e] = Enqueued(job[e])
          /\ ep'[e] = ep[e] \/ SetDreamed(e, FALSE)
    <3>1. ep' = [e \in Episodes |-> IF job'[e].state = "pending"
                                   THEN [ep[e] EXCEPT !.dreamed = FALSE] ELSE ep[e]]
      BY <1>8 DEF RetryFailed
    <3>2. QED
      BY <1>8, RetriedJobs, <3>1 DEF SetDreamed
  <2>2. \A e \in Episodes : job[e].state = "failed_retryable" => ~ep[e].dreamed
    OBVIOUS
  <2>3. \A e \in Episodes : RowsAgree(e)'
    BY <2>1, <2>2, EnqueuedStates DEF SetDreamed
  <2>4. QED
    BY <2>3
<1>9. QED
  BY <1>1, <1>2, <1>3, <1>4, <1>7, <1>8 DEF Lifecycle

\* No step lets an episode and its job drift apart.
LEMMA RowsStep == TypeInv /\ RowsInv /\ [Next]_vars => RowsInv'
<1> SUFFICES ASSUME TypeInv, RowsInv, [Next]_vars PROVE RowsInv'
  OBVIOUS
<1> USE DEF TypeInv, TypeOK, RowsInv
<1>1. CASE Lifecycle \/ Repair \/ RetryFailed
  BY <1>1, RowsLifecycle
<1>2. CASE UNCHANGED <<ep, job>>
  BY <1>2 DEF RowsAgree
<1>3. ASSUME NEW p \in Workers, TickStep(p) PROVE RowsInv'
  <2>1. CASE ExpireLeases(p)
    <3>1. \A e \in Episodes :
            \/ job'[e] = job[e] /\ ep'[e] = ep[e]
            \/ job[e].state = "processing" /\ SetDreamed(e, FALSE)
      BY <2>1 DEF ExpireLeases, Expired, EpisodeRow, SetDreamed
    <3>2. QED
      BY <3>1 DEF RowsAgree, SetDreamed
  <2>2. CASE ScheduleRetries(p)
    BY <2>2 DEF ScheduleRetries, RowsAgree, EpisodeRow
  <2>3. ASSUME NEW e \in Episodes, NEW l \in Leases, ClaimRow(p, e, l) PROVE RowsInv'
    BY <2>3 DEF ClaimRow, Claimable, RowsAgree
  <2>4. CASE MarkProcessing(p)
    <3>1. PICK c : ep' = [ep EXCEPT ![c].dreamed = FALSE]
      BY <2>4 DEF MarkProcessing
    <3>2. \A e \in Episodes : ep'[e] = ep[e] \/ SetDreamed(e, FALSE)
      BY <3>1 DEF EpisodeRow, SetDreamed
    <3>3. job' = job
      BY <2>4 DEF MarkProcessing
    <3>4. QED
      BY <3>2, <3>3 DEF RowsAgree, SetDreamed
  <2>5. ASSUME NEW b \in BOOLEAN, CompleteDreamJob(p, b) PROVE RowsInv'
    <3>1. \A e \in Episodes :
            \/ job'[e] = job[e] /\ ep'[e] = ep[e]
            \/ /\ job[e].state = "processing" /\ job'[e] = Released(job[e], "processed", 0)
               /\ SetDreamed(e, TRUE)
      BY <2>5 DEF CompleteDreamJob, MayComplete, Holds, EpisodeRow, SetDreamed
    <3>2. \A e \in Episodes : Released(job[e], "processed", 0).state = "processed"
      BY ReleasedType DEF JobState
    <3>3. QED
      BY <3>1, <3>2 DEF RowsAgree, SetDreamed
  <2>6. CASE FailDreamJob(p)
    <3>1. \A e \in Episodes :
            \/ job'[e] = job[e] /\ ep'[e] = ep[e]
            \/ job[e].state = "processing" /\ SetDreamed(e, FALSE)
      <4>1. \/ job' = job /\ ep' = ep
            \/ /\ job[run[worker[p].cur].episode].state = "processing"
               /\ job' = [job EXCEPT ![run[worker[p].cur].episode] =
                           IF worker[p].pc = "reject" THEN Released(@, "failed_terminal", 0)
                           ELSE Released(@, "failed_retryable", RetryMs)]
               /\ ep'  = [ep EXCEPT ![run[worker[p].cur].episode].dreamed = FALSE]
        BY <2>6 DEF FailDreamJob, Holds
      <4>2. QED
        BY <4>1 DEF EpisodeRow, SetDreamed
    <3>2. QED
      BY <3>1 DEF RowsAgree, SetDreamed
  <2>7. QED
    BY <1>2, <1>3, <2>1, <2>2, <2>3, <2>4, <2>5, <2>6
    DEF TickStep, TickStart, SelectJobs, MissRow, ClaimsDone, ReadEvidence, SaveFrame,
        StageRun, CuratorThrows, CompletionFails, TickDone
<1>4. CASE Elapse
  <2>1. \A e \in Episodes : job'[e].state = job[e].state
    BY <1>4 DEF Elapse, JobRow
  <2>2. QED
    BY <2>1, <1>4 DEF Elapse, RowsAgree
<1>5. QED
  BY <1>1, <1>2, <1>3, <1>4 DEF Next, vars, Review, ApproveFrame, RejectFrame, Crash

\* There are no jobs to begin with.
LEMMA RowsInit == Init => RowsInv
  BY DEF Init, RowsInv, RowsAgree, NoJob

\* A job row exists only over a hard-sealed episode that has evidence: no seal,
\* reopening, reseal, move, merge or split leaves a job behind.
THEOREM JobsOverSealed == Spec => []JobOnlyOverSealed
<1>1. RowsInv => JobOnlyOverSealed
  BY DEF RowsInv, RowsAgree, JobOnlyOverSealed
<1>2. QED
  BY TypeInit, TypeStep, RowsInit, RowsStep, <1>1, PTL DEF Spec

\* An episode shown as dreamed has its job processed.
THEOREM DreamedIsProcessed == Spec => []ShownAsDreamed
<1>1. RowsInv => ShownAsDreamed
  BY DEF RowsInv, RowsAgree, ShownAsDreamed
<1>2. QED
  BY TypeInit, TypeStep, RowsInit, RowsStep, <1>1, PTL DEF Spec
=============================================================================
