------------------------ MODULE DreamPublicationProofs ------------------------
(***************************************************************************)
(* Proofs about what DreamQueue publishes: under which lease, how often,    *)
(* and what is seen of it.                                                  *)
(***************************************************************************)
EXTENDS DreamQueueProofs

(***************************************************************************)
(* The job a tick is working on.                                            *)
(***************************************************************************)
Working == {"mark", "curate", "stage", "commit", "fail", "reject"}

NamesEpisode(l) == l \in Leases /\ run[l].episode \in Episodes

CursorInv == \A p \in Workers : worker[p].pc \in Working => NamesEpisode(worker[p].cur)

(***************************************************************************)
(* The life of one attempt's rows.  Whatever the step, they show no more    *)
(* than before, take in the evidence, start over for a claimed job, or are  *)
(* published.                                                               *)
(***************************************************************************)
RunKept(r, s) ==
  /\ s.episode = r.episode /\ s.links = r.links
  /\ s.state = "published" => r.state = "published"
  /\ s.current => r.current

RunRead(l) ==
  /\ run[l].episode \in Episodes /\ run'[l].episode = run[l].episode
  /\ run'[l].links = ep[run[l].episode].links
  /\ run'[l].state = run[l].state /\ run'[l].current = run[l].current
  /\ UNCHANGED <<ep, job>>

RunClaimed(l) ==
  /\ Fresh(l)
  /\ run'[l].episode \in Episodes /\ run'[l].current
  /\ run'[l].state = "none" /\ run'[l].frame = "none"

\* The tick that publishes moves on to its other jobs.
Publishes(p, l) ==
  /\ worker[p].pc = "commit" /\ worker[p].cur = l
  /\ worker'[p].pc = "next" /\ worker'[p].todo = worker[p].todo

RunPublished(l) ==
  /\ \E p \in Workers : Publishes(p, l)
  /\ run[l].episode \in Episodes
  /\ Holds(run[l].episode, l) /\ run[l].left >= 0
  /\ job'[run[l].episode].state = "processed"
  /\ run'[l].episode = run[l].episode /\ run'[l].links = run[l].links
  /\ run'[l].state = "published" /\ run'[l].current = run[l].current

RunStep(l) == RunKept(run[l], run'[l]) \/ RunRead(l) \/ RunClaimed(l) \/ RunPublished(l)

\* What other statements do to an attempt's rows shows no more than before.
LEMMA KeptRows ==
  ASSUME NEW r \in RunRow
  PROVE  \A s \in {r, Disowned(r), Superseded(r), Retired(r), Retired(Superseded(r)), Abandoned(r)} :
           RunKept(r, s)
<1>1. \A s \in {r, Disowned(r), Superseded(r), Abandoned(r)} : RunKept(r, s)
  <2>1. RunKept(r, r) /\ RunKept(r, Disowned(r))
    BY DEF RunKept, Disowned, RunRow
  <2>2. RunKept(r, Superseded(r))
    BY DEF RunKept, Superseded, RunRow
  <2>3. RunKept(r, Abandoned(r))
    BY DEF RunKept, Abandoned, RunRow
  <2>4. QED
    BY <2>1, <2>2, <2>3
<1>2. \A s \in RunRow : RunKept(s, Retired(s))
  BY DEF RunKept, Retired, RunRow
<1>3. Superseded(r) \in RunRow
  BY RewrittenRows
<1>4. RunKept(r, Retired(Superseded(r)))
  BY <1>1, <1>2, <1>3 DEF RunKept
<1>5. QED
  BY <1>1, <1>2, <1>4

\* Changing the frame or the clock of an attempt, or staging it, shows nothing.
LEMMA KeptFields ==
  ASSUME NEW r \in RunRow
  PROVE  /\ \A f : RunKept(r, [r EXCEPT !.frame = f])
         /\ \A n : RunKept(r, [r EXCEPT !.left = n])
         /\ RunKept(r, [r EXCEPT !.state = "staged"])
  BY DEF RunKept, RunRow

\* A row of the same attempt, with another frame perhaps.
SameRun(r, s) ==
  s.episode = r.episode /\ s.links = r.links /\ s.state = r.state /\ s.current = r.current

\* Activating a frame touches frames only.
LEMMA ActivatedRows ==
  ASSUME NEW r \in [Leases -> RunRow], NEW k
  PROVE  \A l \in Leases : SameRun(r[l], Activated(r, k)[l])
<1>1. \A s \in RunRow : \A f : SameRun(s, [s EXCEPT !.frame = f])
  BY DEF SameRun, RunRow
<1>2. \A s : SameRun(s, s)
  BY DEF SameRun
<1>3. QED
  BY <1>1, <1>2 DEF Activated

\* The completing transaction publishes the attempt it holds the lease for, and
\* touches nothing but frames elsewhere.
LEMMA CompletionRuns ==
  ASSUME TypeInv, CursorInv, NEW p \in Workers, NEW b \in BOOLEAN, CompleteDreamJob(p, b)
  PROVE  RunPublished(worker[p].cur) /\ \A l \in Leases : RunStep(l)
<1> DEFINE c == worker[p].cur
           published == [run EXCEPT ![c] = Published(@)]
           confirming == [published EXCEPT ![c].frame = "needs_confirmation"]
<1>1. run \in [Leases -> RunRow] /\ worker[p].pc = "commit" /\ NamesEpisode(c)
  BY DEF TypeInv, TypeOK, CursorInv, CompleteDreamJob, Working
<1>2. /\ published \in [Leases -> RunRow]
      /\ \A l \in Leases : l # c => published[l] = run[l]
      /\ published[c] = Published(run[c])
  BY <1>1, RewrittenRows DEF NamesEpisode
<1>3. run' \in {published, confirming, Activated(published, c)}
  BY DEF CompleteDreamJob
<1> HIDE DEF published
<1>4. \A l \in Leases : SameRun(published[l], run'[l])
  <2>1. CASE run' = published
    BY <2>1 DEF SameRun
  <2>2. CASE run' = confirming
    BY <1>2, <2>2 DEF SameRun, RunRow
  <2>3. CASE run' = Activated(published, c)
    BY <1>2, <2>3, ActivatedRows
  <2>4. QED
    BY <1>3, <2>1, <2>2, <2>3
<1>5. ASSUME NEW l \in Leases, l # c PROVE RunStep(l)
  BY <1>2, <1>4, <1>5 DEF RunStep, RunKept, SameRun
<1>6. RunPublished(c)
  <2>1. Holds(run[c].episode, c) /\ run[c].left >= 0
    BY DEF CompleteDreamJob, MayComplete
  <2>2. job'[run[c].episode].state = "processed"
    <3>1. \A j \in JobRow : Released(j, "processed", 0).state = "processed"
      BY ReleasedType DEF JobState
    <3>2. QED
      BY <1>1, <3>1 DEF CompleteDreamJob, NamesEpisode, TypeInv, TypeOK
  <2>3. SameRun(Published(run[c]), run'[c])
    BY <1>1, <1>2, <1>4 DEF NamesEpisode
  <2>4. /\ run'[c].episode = run[c].episode /\ run'[c].links = run[c].links
        /\ run'[c].state = "published" /\ run'[c].current = run[c].current
    BY <2>3 DEF SameRun, Published
  <2>5. Publishes(p, c)
    BY DEF CompleteDreamJob, Goto, Publishes, TypeInv, TypeOK, Tick
  <2>6. QED
    BY <1>1, <2>1, <2>2, <2>4, <2>5 DEF RunPublished, NamesEpisode
<1>7. QED
  BY <1>5, <1>6 DEF RunStep

\* Every statement of the code that touches an attempt's rows takes one of those steps.
LEMMA RunSteps == TypeInv /\ CursorInv /\ [Next]_vars => \A l \in Leases : RunStep(l)
<1> SUFFICES ASSUME TypeInv, CursorInv, [Next]_vars PROVE \A l \in Leases : RunStep(l)
  OBVIOUS
<1>1. run \in [Leases -> RunRow]
  BY DEF TypeInv, TypeOK
<1>2. CASE run' = run
  BY <1>1, <1>2, KeptRows DEF RunStep
<1>3. CASE \A l \in Leases : run'[l] \in {run[l], Disowned(run[l]), Superseded(run[l]),
                                         Retired(Superseded(run[l])), Abandoned(run[l])}
  BY <1>1, <1>3, KeptRows DEF RunStep
<1>4. ASSUME NEW k, NEW f, run' = [run EXCEPT ![k].frame = f]
      PROVE  \A l \in Leases : RunStep(l)
  BY <1>1, <1>4, KeptRows, KeptFields DEF RunStep
<1>5. ASSUME NEW k, run' = [run EXCEPT ![k].state = "staged"]
      PROVE  \A l \in Leases : RunStep(l)
  BY <1>1, <1>5, KeptRows, KeptFields DEF RunStep
<1>6. CASE Lifecycle
  <2>1. ASSUME NEW e \in Episodes, SoftSeal(e) PROVE \A l \in Leases : RunStep(l)
    BY <1>3, <2>1 DEF SoftSeal, JobDeleted
  <2>2. QED
    BY <1>2, <1>6, <2>1 DEF Lifecycle, AppendEvent, HardSeal, Reopen
<1>7. CASE Repair
  <2>1. ASSUME NEW e \in Episodes, RequeueDream(e) PROVE \A l \in Leases : RunStep(l)
    BY <1>3, <2>1 DEF RequeueDream, Withdrawn
  <2>2. ASSUME NEW S, NEW links, NEW status, Recompute(S, links, status)
        PROVE  \A l \in Leases : RunStep(l)
    BY <1>3, <2>2 DEF Recompute, WithdrawnWithFrames
  <2>3. QED
    BY <1>7, <2>1, <2>2 DEF Repair, Reclassify, Merge, MoveEvent, Split
<1>8. CASE Review
  <2>1. ASSUME NEW k \in Leases, ApproveFrame(k) PROVE \A l \in Leases : RunStep(l)
    BY <1>1, <2>1, ActivatedRows DEF ApproveFrame, RunStep, RunKept, SameRun
  <2>2. QED
    BY <1>4, <1>8, <2>1 DEF Review, RejectFrame
<1>9. ASSUME NEW p \in Workers, TickStep(p) PROVE \A l \in Leases : RunStep(l)
  <2>1. CASE TickStart(p)
    BY <1>3, <2>1 DEF TickStart
  <2>2. ASSUME NEW e \in Episodes, NEW k \in Leases, ClaimRow(p, e, k)
        PROVE  \A l \in Leases : RunStep(l)
    <3>1. RunClaimed(k) /\ \A l \in Leases : l # k => run'[l] = run[l]
      BY <1>1, <2>2 DEF ClaimRow, NoRun, RunClaimed
    <3>2. QED
      BY <1>1, <3>1, KeptRows DEF RunStep
  <2>3. ASSUME NEW k \in Leases, ReadEvidence(p, k) PROVE \A l \in Leases : RunStep(l)
    <3>1. run[k].episode \in Episodes
      BY <2>3 DEF ReadEvidence, TypeInv, ClaimsNameEpisodes
    <3>2. RunRead(k) /\ \A l \in Leases : l # k => run'[l] = run[l]
      BY <1>1, <2>3, <3>1 DEF ReadEvidence, RunRead, RunRow
    <3>3. QED
      BY <1>1, <3>2, KeptRows DEF RunStep
  <2>4. ASSUME NEW b \in BOOLEAN, SaveFrame(p, b) \/ StageRun(p) \/ CuratorThrows(p, b)
        PROVE  \A l \in Leases : RunStep(l)
    BY <1>2, <1>4, <1>5, <2>4 DEF SaveFrame, StageRun, CuratorThrows
  <2>5. ASSUME NEW b \in BOOLEAN, CompleteDreamJob(p, b) PROVE \A l \in Leases : RunStep(l)
    BY <2>5, CompletionRuns
  <2>6. CASE CompletionFails(p)
    BY <1>1, <1>3, <2>6 DEF CompletionFails
  <2>7. CASE FailDreamJob(p)
    BY <1>1, <2>7, KeptRows, KeptFields DEF FailDreamJob, RunStep
  <2>8. QED
    BY <1>2, <1>9, <2>1, <2>2, <2>3, <2>4, <2>5, <2>6, <2>7
    DEF TickStep, ExpireLeases, ScheduleRetries, SelectJobs, MissRow, MarkProcessing,
        ClaimsDone, TickDone
<1>10. CASE Elapse
  BY <1>1, <1>10, KeptFields DEF Elapse, RunStep
<1>11. QED
  BY <1>2, <1>6, <1>7, <1>8, <1>9, <1>10 DEF Next, vars, RetryFailed, Crash

\* An attempt is at one episode until its id is drawn again.
LEMMA RunEpisodes ==
  ASSUME TypeInv, NEW l \in Leases, RunStep(l)
  PROVE  run'[l].episode \in {run[l].episode} \cup Episodes
  BY DEF TypeInv, TypeOK, RunRow, RunStep, RunKept, RunRead, RunClaimed, RunPublished

(***************************************************************************)
(* The life of a tick.  Whatever the step, a tick stays with its job, turns *)
(* away from it, claims another, or reads the evidence of one it claimed.   *)
(***************************************************************************)
Reading == {"curate", "stage", "commit"}

TickStays(q) ==
  /\ worker'[q].cur = worker[q].cur /\ worker'[q].todo = worker[q].todo
  /\ worker'[q].pc = "mark" => worker[q].pc = "mark"
  /\ worker'[q].pc \in Reading => worker[q].pc \in Reading
  /\ worker'[q].pc \in Working => worker[q].pc \in Working

TickTurns(q) == worker'[q].pc \notin Working /\ worker'[q].todo \subseteq worker[q].todo

TickClaims(q, l) ==
  /\ Fresh(l) /\ run'[l].episode \in Episodes
  /\ worker'[q].pc = "mark" /\ worker'[q].cur = l /\ worker'[q].todo = worker[q].todo \cup {l}
  /\ \A p \in Workers : p # q => worker'[p] = worker[p]

TickReads(q, l) ==
  /\ l \in worker[q].todo /\ RunRead(l)
  /\ worker'[q].pc \in Reading /\ worker'[q].cur = l /\ worker'[q].todo = worker[q].todo \ {l}

TickMoves(q) ==
  TickStays(q) \/ TickTurns(q) \/ \E l \in Leases : TickClaims(q, l) \/ TickReads(q, l)

\* A tick that does not move stays.
LEMMA IdleTick == \A q \in Workers : worker'[q] = worker[q] => TickMoves(q)
  BY DEF TickMoves, TickStays

\* Every step of the code moves each tick in one of those ways.
LEMMA TickMovesOn == TypeInv /\ [Next]_vars => \A q \in Workers : TickMoves(q)
<1> SUFFICES ASSUME TypeInv, [Next]_vars PROVE \A q \in Workers : TickMoves(q)
  OBVIOUS
<1>1. worker \in [Workers -> Tick] /\ run \in [Leases -> RunRow]
  BY DEF TypeInv, TypeOK
<1>2. ASSUME NEW p \in Workers, \A q \in Workers : q # p => worker'[q] = worker[q], TickMoves(p)
      PROVE  \A q \in Workers : TickMoves(q)
  BY <1>2, IdleTick
<1>3. CASE worker' = worker
  BY <1>3, IdleTick
<1>4. ASSUME NEW p \in Workers, TickStep(p) PROVE \A q \in Workers : TickMoves(q)
  <2>1. CASE TickStart(p) \/ SelectJobs(p) \/ ClaimsDone(p) \/ MarkProcessing(p) \/ TickDone(p)
    <3>1. /\ \A q \in Workers : q # p => worker'[q] = worker[q]
          /\ TickTurns(p)
      BY <1>1, <2>1
      DEF TickStart, SelectJobs, ClaimsDone, MarkProcessing, TickDone, NoTick, TickTurns, Working, Tick
    <3>2. QED
      BY <1>2, <3>1 DEF TickMoves
  <2>2. CASE ExpireLeases(p) \/ ScheduleRetries(p)
    <3>1. (\A q \in Workers : q # p => worker'[q] = worker[q]) /\ TickStays(p)
      BY <1>1, <2>2 DEF ExpireLeases, ScheduleRetries, Goto, TickStays, Tick, Working, Reading
    <3>2. QED
      BY <1>2, <3>1 DEF TickMoves
  <2>3. ASSUME NEW e \in Episodes, NEW l \in Leases, ClaimRow(p, e, l)
        PROVE  \A q \in Workers : TickMoves(q)
    <3>1. (\A q \in Workers : q # p => worker'[q] = worker[q]) /\ TickClaims(p, l)
      BY <1>1, <2>3 DEF ClaimRow, TickClaims, Tick, NoRun
    <3>2. QED
      BY <1>2, <3>1 DEF TickMoves
  <2>4. ASSUME NEW e \in Episodes, MissRow(p, e) PROVE \A q \in Workers : TickMoves(q)
    <3>1. (\A q \in Workers : q # p => worker'[q] = worker[q]) /\ TickStays(p)
      BY <1>1, <2>4 DEF MissRow, TickStays, Tick
    <3>2. QED
      BY <1>2, <3>1 DEF TickMoves
  <2>5. ASSUME NEW l \in Leases, ReadEvidence(p, l) PROVE \A q \in Workers : TickMoves(q)
    <3>1. run[l].episode \in Episodes
      BY <2>5 DEF ReadEvidence, TypeInv, ClaimsNameEpisodes
    <3>2. RunRead(l)
      BY <1>1, <2>5, <3>1 DEF ReadEvidence, RunRead, RunRow
    <3>3. (\A q \in Workers : q # p => worker'[q] = worker[q]) /\ TickReads(p, l)
      BY <1>1, <2>5, <3>2 DEF ReadEvidence, TickReads, Tick, Reading
    <3>4. QED
      BY <1>2, <3>3 DEF TickMoves
  <2>6. CASE StageRun(p) \/ CompletionFails(p) \/ FailDreamJob(p)
    <3>1. (\A q \in Workers : q # p => worker'[q] = worker[q]) /\ TickStays(p)
      <4>1. \E pc \in {"commit", "fail", "next"} :
              worker' = [worker EXCEPT ![p].pc = pc] /\ (pc = "commit" => worker[p].pc = "stage")
        BY <2>6 DEF StageRun, CompletionFails, FailDreamJob, Goto
      <4>2. worker[p].pc \in {"stage", "commit", "fail", "reject"}
        BY <2>6 DEF StageRun, CompletionFails, FailDreamJob
      <4>3. QED
        BY <1>1, <4>1, <4>2 DEF TickStays, Tick, Working, Reading
    <3>2. QED
      BY <1>2, <3>1 DEF TickMoves
  <2>7. ASSUME NEW b \in BOOLEAN, SaveFrame(p, b) \/ CuratorThrows(p, b) \/ CompleteDreamJob(p, b)
        PROVE  \A q \in Workers : TickMoves(q)
    <3>1. (\A q \in Workers : q # p => worker'[q] = worker[q]) /\ TickStays(p)
      <4>1. \E pc \in {"stage", "fail", "reject", "next"} : worker' = [worker EXCEPT ![p].pc = pc]
        BY <2>7 DEF SaveFrame, CuratorThrows, CompleteDreamJob, Goto
      <4>2. worker[p].pc \in Reading
        BY <2>7 DEF SaveFrame, CuratorThrows, CompleteDreamJob, Reading
      <4>3. QED
        BY <1>1, <4>1, <4>2 DEF TickStays, Tick, Working, Reading
    <3>2. QED
      BY <1>2, <3>1 DEF TickMoves
  <2>8. QED
    BY <1>4, <2>1, <2>2, <2>3, <2>4, <2>5, <2>6, <2>7 DEF TickStep
<1>5. ASSUME NEW p \in Workers, Crash(p) PROVE \A q \in Workers : TickMoves(q)
  <2>1. (\A q \in Workers : q # p => worker'[q] = worker[q]) /\ TickTurns(p)
    BY <1>1, <1>5 DEF Crash, NoTick, TickTurns, Working
  <2>2. QED
    BY <1>2, <2>1 DEF TickMoves
<1>6. CASE Elapse
  <2>1. \A q \in Workers : TickStays(q)
    BY <1>1, <1>6 DEF Elapse, TickStays, Tick
  <2>2. QED
    BY <2>1 DEF TickMoves
<1>7. CASE Lifecycle \/ Repair \/ RetryFailed \/ Review \/ UNCHANGED vars
  <2>1. CASE Lifecycle
    BY <1>3, <2>1 DEF Lifecycle, AppendEvent, SoftSeal, HardSeal, Reopen
  <2>2. CASE Repair
    <3>1. \A S, links, status : Recompute(S, links, status) => worker' = worker
      BY DEF Recompute
    <3>2. \A e, f : Reclassify(e) \/ RequeueDream(e) \/ Merge(e, f) => worker' = worker
      BY <3>1 DEF Reclassify, RequeueDream, Merge
    <3>3. \A e, f, x : MoveEvent(e, f, x) \/ Split(e, f, x) => worker' = worker
      BY <3>1 DEF MoveEvent, Split
    <3>4. worker' = worker
      BY <2>2, <3>2, <3>3 DEF Repair
    <3>5. QED
      BY <1>3, <3>4
  <2>3. CASE RetryFailed \/ Review \/ UNCHANGED vars
    BY <1>3, <2>3 DEF RetryFailed, Review, ApproveFrame, RejectFrame, vars
  <2>4. QED
    BY <1>7, <2>1, <2>2, <2>3
<1>8. QED
  BY <1>4, <1>5, <1>6, <1>7 DEF Next

\* A tick works on a job it has just claimed, or has claimed and now picks up.
LEMMA CursorStep == TypeInv /\ CursorInv /\ [Next]_vars => CursorInv'
<1> SUFFICES ASSUME TypeInv, CursorInv, [Next]_vars, NEW q \in Workers, worker'[q].pc \in Working
             PROVE  NamesEpisode(worker[q].cur)'
  BY DEF CursorInv
<1>1. \A l : NamesEpisode(l) => NamesEpisode(l)'
  BY RunSteps, RunEpisodes DEF NamesEpisode
<1>2. TickMoves(q)
  BY TickMovesOn
<1>3. CASE TickStays(q)
  BY <1>1, <1>3 DEF TickStays, CursorInv
<1>4. ASSUME NEW l \in Leases, TickClaims(q, l) PROVE NamesEpisode(worker[q].cur)'
  BY <1>4 DEF TickClaims, NamesEpisode
<1>5. ASSUME NEW l \in Leases, TickReads(q, l) PROVE NamesEpisode(worker[q].cur)'
  BY <1>1, <1>5 DEF TickReads, RunRead, NamesEpisode
<1>6. QED
  BY <1>2, <1>3, <1>4, <1>5 DEF TickMoves, TickTurns

\* No tick is at work to begin with.
LEMMA CursorInit == Init => CursorInv
  BY DEF Init, CursorInv, Working, NoTick

\* Candidates become visible only in the step that processes the job that owns
\* them, under a lease still running, however many ticks overlap and however
\* late one of them wakes up.
THEOREM NothingPublishedLate == Spec => PublishedUnderLease
<1>1. TypeInv /\ CursorInv /\ [Next]_vars =>
        [\A l \in Leases :
           run[l].state # "published" /\ run'[l].state = "published" =>
             /\ Holds(run[l].episode, l)
             /\ run[l].left >= 0
             /\ job'[run[l].episode].state = "processed"]_vars
  BY RunSteps DEF RunStep, RunKept, RunRead, RunClaimed, RunPublished
<1>2. QED
  BY TypeInit, TypeStep, CursorInit, CursorStep, <1>1, PTL DEF Spec, PublishedUnderLease

(***************************************************************************)
(* One answer per queueing.  Only a processed job is answered; what takes   *)
(* the job back disowns every run that answered it.                         *)
(***************************************************************************)
AnswerInv ==
  \A e \in Episodes : \A l \in Leases :
    Answering(e, l) =>
      /\ job[e].state = "processed"
      /\ \A m \in Leases : Answering(e, m) => l = m

\* A job that is processed stays so, or nothing answers for its episode any more.
Unanswered(e) == \A l \in Leases : run'[l].episode = e => ~run'[l].current

ProcessedKept(e) ==
  job[e].state = "processed" => job'[e].state = "processed" \/ Unanswered(e)

\* Deleting or requeueing a job disowns the runs at its episode.
LEMMA DisownedRuns ==
  ASSUME TypeInv, NEW e \in Episodes, NEW S, e \in S,
         \E f \in {JobDeleted(e), Withdrawn(S), WithdrawnWithFrames(S)} : run' = f
  PROVE  Unanswered(e)
<1>1. \A r \in RunRow :
        ~Disowned(r).current /\ ~Superseded(r).current /\ ~Retired(Superseded(r)).current
  <2>1. \A r \in RunRow : /\ ~Disowned(r).current /\ ~Superseded(r).current
                          /\ Superseded(r) \in RunRow /\ Retired(r).current = r.current
    <3>1. \A r \in RunRow : Superseded(r) \in RunRow
      BY RewrittenRows
    <3>2. \A r \in RunRow : ~Disowned(r).current /\ ~Superseded(r).current
      BY DEF Disowned, Superseded, RunRow
    <3>3. \A r \in RunRow : Retired(r).current = r.current
      BY DEF Retired, RunRow
    <3>4. QED
      BY <3>1, <3>2, <3>3
  <2>2. QED
    BY <2>1
<1>2. run \in [Leases -> RunRow]
  BY DEF TypeInv, TypeOK
<1>3. ASSUME NEW l \in Leases, run'[l].episode = e PROVE ~run'[l].current
  <2>1. run'[l].episode = run[l].episode
    BY <1>2, RewrittenRuns
  <2>2. run'[l] \in {Disowned(run[l]), Superseded(run[l]), Retired(Superseded(run[l]))}
    BY <1>3, <2>1 DEF JobDeleted, Withdrawn, WithdrawnWithFrames
  <2>3. QED
    BY <1>1, <1>2, <2>2
<1>4. QED
  BY <1>3 DEF Unanswered

\* Whatever happens to a processed job, its answer goes with it.
LEMMA ProcessedSteps == TypeInv /\ [Next]_vars => \A e \in Episodes : ProcessedKept(e)
<1> SUFFICES ASSUME TypeInv, [Next]_vars PROVE \A e \in Episodes : ProcessedKept(e)
  OBVIOUS
<1>1. job \in [Episodes -> JobRow]
  BY DEF TypeInv, TypeOK
<1>2. CASE \A e \in Episodes : job[e].state = "processed" => job'[e].state = "processed"
  BY <1>2 DEF ProcessedKept
<1>3. CASE Lifecycle
  <2>1. ASSUME NEW f \in Episodes, SoftSeal(f) PROVE \A e \in Episodes : ProcessedKept(e)
    <3>1. Unanswered(f)
      BY <2>1, DisownedRuns DEF SoftSeal
    <3>2. \A e \in Episodes : e # f => job'[e] = job[e]
      BY <2>1 DEF SoftSeal
    <3>3. QED
      BY <3>1, <3>2 DEF ProcessedKept
  <2>2. ASSUME NEW f \in Episodes, NEW b \in BOOLEAN, HardSeal(f, b)
        PROVE  \A e \in Episodes : ProcessedKept(e)
    BY <1>1, <1>2, <2>2, EnqueuedStates DEF HardSeal
  <2>3. ASSUME NEW f \in Episodes, Reopen(f) PROVE \A e \in Episodes : ProcessedKept(e)
    BY <1>1, <1>2, <2>3 DEF Reopen
  <2>4. QED
    BY <1>2, <1>3, <2>1, <2>2, <2>3 DEF Lifecycle, AppendEvent
<1>4. CASE Repair
  <2>1. ASSUME NEW f \in Episodes, RequeueDream(f) PROVE \A e \in Episodes : ProcessedKept(e)
    <3>1. Unanswered(f)
      BY <2>1, DisownedRuns DEF RequeueDream
    <3>2. \A e \in Episodes : e # f => job'[e] = job[e]
      BY <2>1 DEF RequeueDream
    <3>3. QED
      BY <3>1, <3>2 DEF ProcessedKept
  <2>2. ASSUME NEW S, NEW links, NEW status, Recompute(S, links, status)
        PROVE  \A e \in Episodes : ProcessedKept(e)
    <3>1. \A e \in Episodes : e \in S => Unanswered(e)
      BY <2>2, DisownedRuns DEF Recompute
    <3>2. \A e \in Episodes : e \notin S => job'[e] = job[e]
      BY <2>2 DEF Recompute
    <3>3. QED
      BY <3>1, <3>2 DEF ProcessedKept
  <2>3. QED
    BY <1>4, <2>1, <2>2 DEF Repair, Reclassify, Merge, MoveEvent, Split
<1>5. CASE RetryFailed
  BY <1>2, <1>5, RetriedJobs
<1>6. ASSUME NEW p \in Workers, TickStep(p)
      PROVE  \A e \in Episodes : job[e].state = "processed" => job'[e].state = "processed"
  <2>1. CASE ExpireLeases(p) \/ ScheduleRetries(p)
    BY <2>1 DEF ExpireLeases, Expired, ScheduleRetries
  <2>2. ASSUME NEW f \in Episodes, NEW l \in Leases, ClaimRow(p, f, l)
        PROVE  \A e \in Episodes : job[e].state = "processed" => job'[e].state = "processed"
    BY <1>1, <2>2 DEF ClaimRow, Claimable
  <2>3. ASSUME NEW b \in BOOLEAN, CompleteDreamJob(p, b)
        PROVE  \A e \in Episodes : job[e].state = "processed" => job'[e].state = "processed"
    BY <1>1, <2>3 DEF CompleteDreamJob, MayComplete, Holds
  <2>4. CASE FailDreamJob(p)
    BY <1>1, <2>4 DEF FailDreamJob, Holds
  <2>5. QED
    BY <1>6, <2>1, <2>2, <2>3, <2>4
    DEF TickStep, TickStart, SelectJobs, MissRow, MarkProcessing, ClaimsDone, ReadEvidence,
        SaveFrame, StageRun, CuratorThrows, CompletionFails, TickDone
<1>7. CASE Elapse
  BY <1>1, <1>2, <1>7 DEF Elapse, JobRow
<1>8. QED
  BY <1>2, <1>3, <1>4, <1>5, <1>6, <1>7 DEF Next, vars, Review, ApproveFrame, RejectFrame, Crash

\* The answers are to processed jobs, and one to each, after every step.
LEMMA AnswerStep == TypeInv /\ CursorInv /\ AnswerInv /\ [Next]_vars => AnswerInv'
<1> SUFFICES ASSUME TypeInv, CursorInv, AnswerInv, [Next]_vars,
                    NEW e \in Episodes, NEW l \in Leases, Answering(e, l)'
             PROVE  /\ job'[e].state = "processed"
                    /\ \A m \in Leases : Answering(e, m)' => l = m
  BY DEF AnswerInv
<1>1. \A m \in Leases : Answering(e, m)' => Answering(e, m) \/ (RunPublished(m) /\ run[m].episode = e)
  BY RunSteps DEF RunStep, RunKept, RunRead, RunClaimed, RunPublished, Answering
<1>2. ~Unanswered(e)
  BY DEF Unanswered, Answering
<1>3. job'[e].state = "processed"
  BY <1>1, <1>2, ProcessedSteps DEF AnswerInv, ProcessedKept, RunPublished
<1>4. \A m \in Leases : Answering(e, m)' => l = m
  BY <1>1 DEF AnswerInv, RunPublished, Holds
<1>5. QED
  BY <1>3, <1>4

\* However leases expire, processes die and retries overlap, one queueing of an
\* episode publishes the candidates of at most one run.
THEOREM AnsweredOnce == Spec => []OneAnswerPerQueueing
<1>1. Init => AnswerInv
  BY DEF Init, AnswerInv, Answering, NoRun
<1>2. AnswerInv => OneAnswerPerQueueing
  BY DEF AnswerInv, OneAnswerPerQueueing
<1>3. QED
  BY TypeInit, TypeStep, CursorInit, CursorStep, AnswerStep, <1>1, <1>2, PTL DEF Spec

(***************************************************************************)
(* The evidence of an episode.  While it has a job its links change only    *)
(* with a repair, which takes the job back and retires what it showed.      *)
(***************************************************************************)
LinksStay(e) == ep'[e].links = ep[e].links

LinksGrow(e) ==
  job[e].state = "none" /\ ep[e].links \subseteq ep'[e].links /\ UNCHANGED <<job, run>>

LinksRetracted(e) ==
  /\ job'[e].state \in {"none", "pending"}
  /\ \A l \in Leases : run[l].episode = e => run'[l].state # "published" /\ run'[l].frame # "active"

LinksStep(e) == LinksStay(e) \/ LinksGrow(e) \/ LinksRetracted(e)

\* A repair withdraws candidates and retires frames.
LEMMA RetiredRows ==
  \A r \in RunRow :
    /\ Retired(Superseded(r)).state # "published"
    /\ Retired(Superseded(r)).frame # "active"
<1>1. \A r \in RunRow :
        /\ Superseded(r) \in RunRow /\ Superseded(r).state # "published"
        /\ Retired(r).frame # "active" /\ Retired(r).state = r.state
  <2>1. \A r \in RunRow : Superseded(r) \in RunRow
    BY RewrittenRows
  <2>2. \A r \in RunRow : Superseded(r).state # "published"
    BY DEF Superseded, RunRow
  <2>3. \A r \in RunRow : Retired(r).frame # "active" /\ Retired(r).state = r.state
    BY DEF Retired, RunRow
  <2>4. QED
    BY <2>1, <2>2, <2>3
<1>2. QED
  BY <1>1

\* A statement that updates status or dream_status leaves the links.
LEMMA LinksSteps ==
  TypeInv /\ RowsInv /\ [Next]_vars => \A e \in Episodes : LinksStep(e)
<1> SUFFICES ASSUME TypeInv, RowsInv, [Next]_vars PROVE \A e \in Episodes : LinksStep(e)
  OBVIOUS
<1>1. ep \in [Episodes -> EpisodeRow] /\ run \in [Leases -> RunRow]
  BY DEF TypeInv, TypeOK
<1>2. CASE \A e \in Episodes : LinksStay(e)
  BY <1>2 DEF LinksStep
<1>3. CASE ep' = ep
  BY <1>2, <1>3 DEF LinksStay
<1>4. CASE Lifecycle
  <2>1. ASSUME NEW f \in Episodes, NEW v \in Events, AppendEvent(f, v)
        PROVE  \A e \in Episodes : LinksStep(e)
    <3>1. \A e \in Episodes : e # f => LinksStay(e)
      BY <1>1, <2>1 DEF AppendEvent, LinksStay
    <3>2. job[f].state = "none"
      BY <2>1 DEF AppendEvent, RowsInv, RowsAgree
    <3>3. ep'[f].links = ep[f].links \cup {v}
      BY <1>1, <2>1 DEF AppendEvent, EpisodeRow
    <3>4. LinksGrow(f)
      BY <2>1, <3>2, <3>3 DEF AppendEvent, LinksGrow
    <3>5. QED
      BY <3>1, <3>4 DEF LinksStep
  <2>2. ASSUME NEW f \in Episodes, NEW b \in BOOLEAN, SoftSeal(f) \/ HardSeal(f, b) \/ Reopen(f)
        PROVE  \A e \in Episodes : LinksStay(e)
    <3>1. CASE SoftSeal(f) \/ Reopen(f)
      <4>1. \E st \in {"soft_sealed", "open"} :
              ep' = [ep EXCEPT ![f] = [ep[f] EXCEPT !.status = st, !.dreamed = FALSE]]
        BY <3>1 DEF SoftSeal, Reopen
      <4>2. \A st : [ep[f] EXCEPT !.status = st, !.dreamed = FALSE].links = ep[f].links
        BY <1>1 DEF EpisodeRow
      <4>3. QED
        BY <1>1, <4>1, <4>2 DEF LinksStay
    <3>2. CASE HardSeal(f, b)
      <4>1. \A e \in Episodes : e # f => ep'[e] = ep[e]
        BY <1>1, <3>2 DEF HardSeal
      <4>2. ep'[f].links = ep[f].links
        BY <1>1, <3>2 DEF HardSeal, EpisodeRow
      <4>3. QED
        BY <4>1, <4>2 DEF LinksStay
    <3>3. QED
      BY <2>2, <3>1, <3>2
  <2>3. QED
    BY <1>2, <1>4, <2>1, <2>2 DEF Lifecycle
<1>5. CASE Repair
  <2>1. ASSUME NEW S, NEW links, NEW status, Recompute(S, links, status)
        PROVE  \A e \in Episodes : LinksStep(e)
    <3>1. \A e \in Episodes : e \notin S => LinksStay(e)
      BY <2>1 DEF Recompute, LinksStay
    <3>2. ASSUME NEW e \in Episodes, e \in S PROVE LinksRetracted(e)
      <4>1. \A l \in Leases : run[l].episode = e => run'[l] = Retired(Superseded(run[l]))
        BY <2>1, <3>2 DEF Recompute, WithdrawnWithFrames
      <4>2. job'[e] \in {FreshJob, NoJob}
        BY <2>1, <3>2 DEF Recompute
      <4>3. QED
        BY <1>1, <4>1, <4>2, RetiredRows DEF LinksRetracted, FreshJob, NoJob
    <3>3. QED
      BY <3>1, <3>2 DEF LinksStep
  <2>2. ASSUME NEW f \in Episodes, RequeueDream(f) PROVE \A e \in Episodes : LinksStay(e)
    BY <1>1, <2>2 DEF RequeueDream, EpisodeRow, LinksStay
  <2>3. QED
    BY <1>2, <1>5, <2>1, <2>2 DEF Repair, Reclassify, Merge, MoveEvent, Split
<1>6. CASE RetryFailed
  <2>1. \A e \in Episodes : ep'[e] \in {ep[e], [ep[e] EXCEPT !.dreamed = FALSE]}
    BY <1>6 DEF RetryFailed
  <2>2. \A e \in Episodes : LinksStay(e)
    BY <1>1, <2>1 DEF EpisodeRow, LinksStay
  <2>3. QED
    BY <1>2, <2>2
<1>7. ASSUME NEW p \in Workers, TickStep(p) PROVE \A e \in Episodes : LinksStep(e)
  <2>1. CASE ExpireLeases(p) \/ ScheduleRetries(p) \/ MarkProcessing(p)
    BY <1>1, <1>2, <2>1 DEF ExpireLeases, ScheduleRetries, MarkProcessing, EpisodeRow, LinksStay
  <2>2. ASSUME NEW b \in BOOLEAN, CompleteDreamJob(p, b) PROVE \A e \in Episodes : LinksStay(e)
    BY <1>1, <2>2 DEF CompleteDreamJob, EpisodeRow, LinksStay
  <2>3. CASE FailDreamJob(p)
    <3>1. \/ ep' = ep
          \/ ep' = [ep EXCEPT ![run[worker[p].cur].episode].dreamed = FALSE]
      BY <2>3 DEF FailDreamJob
    <3>2. \A e \in Episodes : LinksStay(e)
      BY <1>1, <3>1 DEF EpisodeRow, LinksStay
    <3>3. QED
      BY <1>2, <3>2
  <2>4. QED
    BY <1>2, <1>3, <1>7, <2>1, <2>2, <2>3
    DEF TickStep, TickStart, SelectJobs, ClaimRow, MissRow, ClaimsDone, ReadEvidence, SaveFrame,
        StageRun, CuratorThrows, CompletionFails, TickDone
<1>8. QED
  BY <1>3, <1>4, <1>5, <1>6, <1>7
  DEF Next, vars, Review, ApproveFrame, RejectFrame, Crash, Elapse

(***************************************************************************)
(* The life of a lease.  A job comes to be processing only under an id      *)
(* nothing refers to, and processed only when the run of its lease is       *)
(* published.                                                               *)
(***************************************************************************)
JobMoves(e) ==
  \/ job'[e].state \notin {"processing", "processed"}
  \/ job'[e].state = job[e].state /\ job'[e].lease = job[e].lease
  \/ /\ job'[e].state = "processing"
     /\ \E l \in Leases : RunClaimed(l) /\ job'[e].lease = l /\ run'[l].episode = e
  \/ \E l \in Leases : RunPublished(l) /\ run[l].episode = e

\* Every other statement keeps a job's lease or takes it out of both states.
LEMMA JobsMove == TypeInv /\ CursorInv /\ [Next]_vars => \A e \in Episodes : JobMoves(e)
<1> SUFFICES ASSUME TypeInv, CursorInv, [Next]_vars PROVE \A e \in Episodes : JobMoves(e)
  OBVIOUS
<1>1. job \in [Episodes -> JobRow] /\ run \in [Leases -> RunRow]
  BY DEF TypeInv, TypeOK
<1>2. CASE \A e \in Episodes : \/ job'[e] = job[e] \/ job'[e] = Enqueued(job[e])
                               \/ job'[e].state \notin {"processing", "processed"}
  <2>1. \A j : Enqueued(j) = j \/ Enqueued(j).state \notin {"processing", "processed"}
    BY EnqueuedStates
  <2>2. QED
    BY <1>2, <2>1 DEF JobMoves
<1>3. CASE Lifecycle
  <2>1. NoJob.state \notin {"processing", "processed"}
    BY DEF NoJob
  <2>2. ASSUME NEW f \in Episodes, NEW b \in BOOLEAN, SoftSeal(f) \/ HardSeal(f, b) \/ Reopen(f)
        PROVE  \A e \in Episodes : JobMoves(e)
    BY <1>1, <1>2, <2>1, <2>2 DEF SoftSeal, HardSeal, Reopen
  <2>3. QED
    BY <1>2, <1>3, <2>2 DEF Lifecycle, AppendEvent
<1>4. CASE Repair
  <2>1. NoJob.state \notin {"processing", "processed"} /\ FreshJob.state \notin {"processing", "processed"}
    BY DEF NoJob, FreshJob
  <2>2. ASSUME NEW S, NEW links, NEW status, Recompute(S, links, status)
        PROVE  \A e \in Episodes : JobMoves(e)
    BY <1>2, <2>1, <2>2 DEF Recompute
  <2>3. ASSUME NEW f \in Episodes, RequeueDream(f) PROVE \A e \in Episodes : JobMoves(e)
    BY <1>1, <1>2, <2>1, <2>3 DEF RequeueDream
  <2>4. QED
    BY <1>4, <2>2, <2>3 DEF Repair, Reclassify, Merge, MoveEvent, Split
<1>5. CASE RetryFailed
  BY <1>2, <1>5, RetriedJobs
<1>6. ASSUME NEW p \in Workers, TickStep(p) PROVE \A e \in Episodes : JobMoves(e)
  <2>1. ASSUME NEW s \in {"failed_retryable", "failed_terminal"}, NEW j \in JobRow, NEW n \in Nat
        PROVE  Released(j, s, n).state \notin {"processing", "processed"}
    <3>1. s \in JobState
      BY DEF JobState
    <3>2. QED
      BY <3>1, ReleasedType
  <2>2. CASE ExpireLeases(p)
    <3>1. \A e \in Episodes : job[e].retry \in Nat
      BY <1>1 DEF JobRow
    <3>2. QED
      BY <1>1, <1>2, <2>1, <2>2, <3>1, ConstantsAssumption DEF ExpireLeases
  <2>3. CASE ScheduleRetries(p)
    BY <1>1, <1>2, <2>3 DEF ScheduleRetries, JobRow
  <2>4. ASSUME NEW f \in Episodes, NEW l \in Leases, ClaimRow(p, f, l)
        PROVE  \A e \in Episodes : JobMoves(e)
    <3>1. /\ RunClaimed(l) /\ run'[l].episode = f
          /\ job'[f].state = "processing" /\ job'[f].lease = l
      BY <1>1, <2>4 DEF ClaimRow, NoRun, RunClaimed
    <3>2. \A e \in Episodes : e # f => job'[e] = job[e]
      BY <2>4 DEF ClaimRow
    <3>3. QED
      BY <3>1, <3>2 DEF JobMoves
  <2>5. ASSUME NEW b \in BOOLEAN, CompleteDreamJob(p, b) PROVE \A e \in Episodes : JobMoves(e)
    <3>1. RunPublished(worker[p].cur) /\ worker[p].cur \in Leases
      BY <2>5, CompletionRuns DEF CompleteDreamJob, CursorInv, NamesEpisode, Working
    <3>2. \A e \in Episodes : e # run[worker[p].cur].episode => job'[e] = job[e]
      BY <2>5, CompletedJob
    <3>3. \A e \in Episodes : e = run[worker[p].cur].episode => JobMoves(e)
      BY <3>1 DEF JobMoves
    <3>4. \A e \in Episodes : job'[e] = job[e] => JobMoves(e)
      BY DEF JobMoves
    <3>5. QED
      BY <3>2, <3>3, <3>4
  <2>6. CASE FailDreamJob(p)
    <3>1. \A j \in JobRow :
            /\ Released(j, "failed_terminal", 0).state \notin {"processing", "processed"}
            /\ Released(j, "failed_retryable", RetryMs).state \notin {"processing", "processed"}
      BY <2>1, ConstantsAssumption
    <3>2. \A e \in Episodes :
            job'[e] \in {job[e], Released(job[e], "failed_terminal", 0),
                         Released(job[e], "failed_retryable", RetryMs)}
      <4>1. \/ job' = job
            \/ job' = [job EXCEPT ![run[worker[p].cur].episode] =
                         Released(job[run[worker[p].cur].episode], "failed_terminal", 0)]
            \/ job' = [job EXCEPT ![run[worker[p].cur].episode] =
                         Released(job[run[worker[p].cur].episode], "failed_retryable", RetryMs)]
        BY <2>6 DEF FailDreamJob
      <4>2. QED
        BY <1>1, <4>1
    <3>3. QED
      BY <1>1, <1>2, <3>1, <3>2
  <2>7. QED
    BY <1>2, <1>6, <2>2, <2>3, <2>4, <2>5, <2>6
    DEF TickStep, TickStart, SelectJobs, MissRow, MarkProcessing, ClaimsDone, ReadEvidence,
        SaveFrame, StageRun, CuratorThrows, CompletionFails, TickDone
<1>7. CASE Elapse
  <2>1. \A e \in Episodes : job'[e].state = job[e].state /\ job'[e].lease = job[e].lease
    BY <1>1, <1>7 DEF Elapse, JobRow
  <2>2. QED
    BY <2>1 DEF JobMoves
<1>8. QED
  BY <1>2, <1>3, <1>4, <1>5, <1>6, <1>7 DEF Next, vars, Review, ApproveFrame, RejectFrame, Crash

(***************************************************************************)
(* What a tick has read.  As long as its lease stands, the evidence it read *)
(* before the awaits is the evidence the episode still has.                 *)
(***************************************************************************)
ReadInv ==
  \A p \in Workers :
    LET l == worker[p].cur
    IN  worker[p].pc \in Reading /\ Holds(run[l].episode, l) =>
          run[l].links = ep[run[l].episode].links

\* Events join only episodes without a job, and repairs take the job back.
LEMMA ReadStep == TypeInv /\ CursorInv /\ RowsInv /\ ReadInv /\ [Next]_vars => ReadInv'
<1> SUFFICES ASSUME TypeInv, CursorInv, RowsInv, ReadInv, [Next]_vars,
                    NEW q \in Workers, worker'[q].pc \in Reading,
                    Holds(run[worker[q].cur].episode, worker[q].cur)'
             PROVE  run'[worker'[q].cur].links = ep'[run'[worker'[q].cur].episode].links
  BY DEF ReadInv
<1>1. TickMoves(q)
  BY TickMovesOn
<1>2. CASE TickStays(q)
  <2> DEFINE l == worker[q].cur
             e == run[l].episode
  <2>1. worker[q].pc \in Reading /\ worker'[q].cur = l /\ NamesEpisode(l)
    BY <1>2 DEF TickStays, CursorInv, Reading, Working
  <2>2. RunStep(l) /\ ~RunClaimed(l)
    BY <2>1, RunSteps DEF NamesEpisode, RunClaimed, Fresh
  <2>3. run'[l].episode = e
    BY <2>2 DEF RunStep, RunKept, RunRead, RunPublished
  <2>4. job'[e].state = "processing" /\ job'[e].lease = l
    BY <2>1, <2>3 DEF Holds
  <2>5. Holds(e, l) /\ LinksStay(e)
    <3>1. JobMoves(e) /\ LinksStep(e)
      BY <2>1, JobsMove, LinksSteps DEF NamesEpisode
    <3>2. Holds(e, l)
      BY <2>4, <3>1 DEF JobMoves, RunClaimed, RunPublished, Fresh, Holds
    <3>3. QED
      BY <2>4, <3>1, <3>2 DEF LinksStep, LinksGrow, LinksRetracted, Holds
  <2>6. run[l].links = ep[e].links
    BY <2>1, <2>5 DEF ReadInv
  <2>7. QED
    BY <2>1, <2>2, <2>3, <2>5, <2>6 DEF RunStep, RunKept, RunRead, RunPublished, LinksStay
<1>3. CASE TickTurns(q)
  BY <1>3 DEF TickTurns, Working, Reading
<1>4. ASSUME NEW l \in Leases, TickClaims(q, l) PROVE FALSE
  BY <1>4 DEF TickClaims, Reading
<1>5. ASSUME NEW l \in Leases, TickReads(q, l)
      PROVE  run'[worker'[q].cur].links = ep'[run'[worker'[q].cur].episode].links
  BY <1>5 DEF TickReads, RunRead
<1>6. QED
  BY <1>1, <1>2, <1>3, <1>4, <1>5 DEF TickMoves

\* No tick has read anything to begin with.
LEMMA ReadInit == Init => ReadInv
  BY DEF Init, ReadInv, Reading, NoTick

(***************************************************************************)
(* What is visible rests on what is linked.                                 *)
(***************************************************************************)
VisibleInv ==
  \A l \in Leases :
    run[l].state = "published" =>
      run[l].episode \in Episodes /\ run[l].links \subseteq ep[run[l].episode].links

\* A run publishes what its episode still has; what a repair unlinks it withdraws.
LEMMA VisibleStep ==
  TypeInv /\ CursorInv /\ RowsInv /\ ReadInv /\ VisibleInv /\ [Next]_vars => VisibleInv'
<1> SUFFICES ASSUME TypeInv, CursorInv, RowsInv, ReadInv, VisibleInv, [Next]_vars,
                    NEW l \in Leases, run'[l].state = "published"
             PROVE  /\ run'[l].episode \in Episodes
                    /\ run'[l].links \subseteq ep'[run'[l].episode].links
  BY DEF VisibleInv
<1>1. RunStep(l) /\ ~RunClaimed(l)
  BY RunSteps DEF RunClaimed
<1>2. CASE RunPublished(l)
  <2>1. LinksStep(run[l].episode)
    BY <1>2, LinksSteps DEF RunPublished
  <2>2. LinksStay(run[l].episode)
    BY <1>2, <2>1 DEF RunPublished, Holds, LinksStep, LinksGrow, LinksRetracted
  <2>3. run[l].links = ep[run[l].episode].links
    BY <1>2 DEF RunPublished, Publishes, ReadInv, Reading
  <2>4. QED
    BY <1>2, <2>2, <2>3 DEF RunPublished, LinksStay
<1>3. CASE RunRead(l)
  BY <1>3 DEF RunRead
<1>4. CASE RunKept(run[l], run'[l])
  <2>1. run[l].state = "published" /\ run'[l].episode = run[l].episode /\ run'[l].links = run[l].links
    BY <1>4 DEF RunKept
  <2>2. run[l].episode \in Episodes /\ run[l].links \subseteq ep[run[l].episode].links
    BY <2>1 DEF VisibleInv
  <2>3. LinksStep(run[l].episode)
    BY <2>2, LinksSteps
  <2>4. QED
    BY <2>1, <2>2, <2>3 DEF LinksStep, LinksStay, LinksGrow, LinksRetracted
<1>5. QED
  BY <1>1, <1>2, <1>3, <1>4 DEF RunStep

\* Visible candidates cite only events still linked to their episode, whatever
\* was moved, merged or split since, and whatever was in flight meanwhile.
THEOREM VisibleIsLinked == Spec => []VisibleRestsOnLinks
<1>1. Init => VisibleInv
  BY DEF Init, VisibleInv, NoRun
<1>2. VisibleInv => VisibleRestsOnLinks
  BY DEF VisibleInv, VisibleRestsOnLinks
<1>3. QED
  BY TypeInit, TypeStep, CursorInit, CursorStep, RowsInit, RowsStep, ReadInit, ReadStep,
     VisibleStep, <1>1, <1>2, PTL DEF Spec

(***************************************************************************)
(* Who works on what.  No two ticks have the same attempt before them, and  *)
(* none has one that is published already: this is why staging never hides  *)
(* what another tick has shown.                                             *)
(***************************************************************************)
Owned(q) ==
  worker[q].todo \cup (IF worker[q].pc \in Reading \cup {"mark"} THEN {worker[q].cur} ELSE {})

OwnInv ==
  \A q \in Workers :
    /\ \A p \in Workers : p # q => Owned(p) \cap Owned(q) = {}
    /\ worker[q].pc \in Reading => worker[q].cur \notin worker[q].todo
    /\ \A l \in Owned(q) : l \in Leases /\ run[l].state # "published"

\* What a tick has before it shrinks, or grows by an id nothing refers to.
LEMMA OwnedMoves ==
  ASSUME NEW q \in Workers, TickMoves(q), OwnInv
  PROVE  \/ Owned(q)' \subseteq Owned(q)
         \/ \E l \in Leases : TickClaims(q, l) /\ Owned(q)' \subseteq Owned(q) \cup {l}
<1>1. CASE TickStays(q)
  BY <1>1 DEF TickStays, Owned
<1>2. CASE TickTurns(q)
  BY <1>2 DEF TickTurns, Owned, Reading, Working
<1>3. ASSUME NEW l \in Leases, TickClaims(q, l) PROVE Owned(q)' \subseteq Owned(q) \cup {l}
  BY <1>3 DEF TickClaims, Owned
<1>4. ASSUME NEW l \in Leases, TickReads(q, l) PROVE Owned(q)' \subseteq Owned(q)
  BY <1>4 DEF TickReads, Owned, Reading
<1>5. QED
  BY <1>1, <1>2, <1>3, <1>4 DEF TickMoves

\* A claim takes an id no tick has; publishing an attempt takes it off the tick's hands.
LEMMA OwnStep == TypeInv /\ CursorInv /\ OwnInv /\ [Next]_vars => OwnInv'
<1> SUFFICES ASSUME TypeInv, CursorInv, OwnInv, [Next]_vars, NEW q \in Workers
             PROVE  /\ \A p \in Workers : p # q => Owned(p)' \cap Owned(q)' = {}
                    /\ worker'[q].pc \in Reading => worker'[q].cur \notin worker'[q].todo
                    /\ \A l \in Owned(q)' : l \in Leases /\ run'[l].state # "published"
  BY DEF OwnInv
<1>1. \A p \in Workers : TickMoves(p)
  BY TickMovesOn
<1>2. \A p \in Workers :
        \/ Owned(p)' \subseteq Owned(p)
        \/ \E l \in Leases : TickClaims(p, l) /\ Owned(p)' \subseteq Owned(p) \cup {l}
  BY <1>1, OwnedMoves
<1>3. \A l : Fresh(l) => \A p \in Workers : l \notin Owned(p)
  BY DEF Fresh, Owned
<1>4. ASSUME NEW p \in Workers, NEW r \in Workers, p # r, NEW l \in Leases, TickClaims(p, l)
      PROVE  Owned(r)' = Owned(r)
  BY <1>4 DEF TickClaims, Owned
<1>5. \A p \in Workers : p # q => Owned(p) \cap Owned(q) = {}
  BY DEF OwnInv
<1>6. ASSUME NEW p \in Workers, p # q PROVE Owned(p)' \cap Owned(q)' = {}
  <2>1. CASE Owned(p)' \subseteq Owned(p) /\ Owned(q)' \subseteq Owned(q)
    BY <1>5, <1>6, <2>1
  <2>2. ASSUME NEW l \in Leases, TickClaims(p, l), Owned(p)' \subseteq Owned(p) \cup {l}
        PROVE  Owned(p)' \cap Owned(q)' = {}
    <3>1. Owned(q)' = Owned(q) /\ l \notin Owned(q)
      BY <1>3, <1>4, <1>6, <2>2 DEF TickClaims
    <3>2. QED
      BY <1>5, <1>6, <2>2, <3>1
  <2>3. ASSUME NEW l \in Leases, TickClaims(q, l), Owned(q)' \subseteq Owned(q) \cup {l}
        PROVE  Owned(p)' \cap Owned(q)' = {}
    <3>1. Owned(p)' = Owned(p) /\ l \notin Owned(p)
      BY <1>3, <1>4, <1>6, <2>3 DEF TickClaims
    <3>2. QED
      BY <1>5, <1>6, <2>3, <3>1
  <2>4. QED
    BY <1>2, <2>1, <2>2, <2>3
<1>7. worker'[q].pc \in Reading => worker'[q].cur \notin worker'[q].todo
  BY <1>1 DEF TickMoves, TickStays, TickTurns, TickClaims, TickReads, Reading, Working, OwnInv
<1>8. ASSUME NEW l \in Owned(q)' PROVE l \in Leases /\ run'[l].state # "published"
  <2>1. l \in Leases /\ run[l].state # "published" /\ (l \in Owned(q) \/ Fresh(l))
    BY <1>2 DEF TickClaims, OwnInv, Fresh
  <2>2. RunStep(l)
    BY <2>1, RunSteps
  <2>3. ~RunPublished(l)
    <3>1. SUFFICES ASSUME RunPublished(l), NEW p \in Workers, Publishes(p, l) PROVE FALSE
      BY DEF RunPublished
    <3>2. l \in Owned(p) /\ l \notin worker[p].todo
      BY <3>1 DEF Publishes, Owned, Reading, OwnInv
    <3>3. p = q
      BY <1>3, <1>5, <2>1, <3>2
    <3>4. Owned(p)' = worker[p].todo
      BY <3>1 DEF Publishes, Owned, Reading
    <3>5. QED
      BY <3>2, <3>3, <3>4
  <2>4. QED
    BY <2>1, <2>2, <2>3 DEF RunStep, RunKept, RunRead, RunClaimed
<1>9. QED
  BY <1>6, <1>7, <1>8

\* No tick has anything before it to begin with.
LEMMA OwnInit == Init => OwnInv
  BY DEF Init, OwnInv, Owned, Reading, NoTick

(***************************************************************************)
(* What stands.  An attempt at a job stays current and its candidates stay  *)
(* visible until the job is taken back.                                     *)
(***************************************************************************)
RowStays(r, s) ==
  (r.current => s.current) /\ (r.state = "published" => s.state = "published")

RunStays(l) ==
  run[l].episode \in Episodes =>
    RowStays(run[l], run'[l]) \/ job'[run[l].episode].state \in {"none", "pending"}

\* A tick that changes an attempt's rows has it before it, or sweeps what is staged.
LEMMA RunsStay ==
  TypeInv /\ CursorInv /\ OwnInv /\ [Next]_vars => \A l \in Leases : RunStays(l)
<1> SUFFICES ASSUME TypeInv, CursorInv, OwnInv, [Next]_vars PROVE \A l \in Leases : RunStays(l)
  OBVIOUS
<1>1. run \in [Leases -> RunRow] /\ job \in [Episodes -> JobRow]
  BY DEF TypeInv, TypeOK
<1>2. CASE \A l \in Leases : RowStays(run[l], run'[l])
  BY <1>2 DEF RunStays
<1>3. \A r \in RunRow :
        /\ RowStays(r, r) /\ RowStays(r, Abandoned(r))
        /\ \A f : RowStays(r, [r EXCEPT !.frame = f])
        /\ \A n : RowStays(r, [r EXCEPT !.left = n])
        /\ \A L : RowStays(r, [r EXCEPT !.links = L])
        /\ r.state # "published" => RowStays(r, [r EXCEPT !.state = "staged"])
        /\ RowStays(r, Published(r))
  BY DEF RowStays, Abandoned, Published, RunRow
<1>4. CASE run' = run
  BY <1>1, <1>2, <1>3, <1>4
<1>5. NoJob.state \in {"none", "pending"} /\ FreshJob.state \in {"none", "pending"}
  BY DEF NoJob, FreshJob
<1>6. CASE Lifecycle
  <2>1. ASSUME NEW f \in Episodes, SoftSeal(f) PROVE \A l \in Leases : RunStays(l)
    <3>1. job'[f] = NoJob
      BY <1>1, <2>1 DEF SoftSeal
    <3>2. \A l \in Leases : run[l].episode = f \/ run'[l] = run[l]
      BY <2>1 DEF SoftSeal, JobDeleted
    <3>3. QED
      BY <1>1, <1>3, <1>5, <3>1, <3>2 DEF RunStays
  <2>2. QED
    BY <1>4, <1>6, <2>1 DEF Lifecycle, AppendEvent, HardSeal, Reopen
<1>7. CASE Repair
  <2>1. ASSUME NEW f \in Episodes, RequeueDream(f) PROVE \A l \in Leases : RunStays(l)
    <3>1. job'[f] = FreshJob
      BY <1>1, <2>1 DEF RequeueDream
    <3>2. \A l \in Leases : run[l].episode = f \/ run'[l] = run[l]
      BY <2>1 DEF RequeueDream, Withdrawn
    <3>3. QED
      BY <1>1, <1>3, <1>5, <3>1, <3>2 DEF RunStays
  <2>2. ASSUME NEW S, NEW links, NEW status, Recompute(S, links, status)
        PROVE  \A l \in Leases : RunStays(l)
    <3>1. \A e \in Episodes : e \in S => job'[e] \in {FreshJob, NoJob}
      BY <2>2 DEF Recompute
    <3>2. \A l \in Leases : run[l].episode \in S \/ run'[l] = run[l]
      BY <2>2 DEF Recompute, WithdrawnWithFrames
    <3>3. QED
      BY <1>1, <1>3, <1>5, <3>1, <3>2 DEF RunStays
  <2>3. QED
    BY <1>7, <2>1, <2>2 DEF Repair, Reclassify, Merge, MoveEvent, Split
<1>8. CASE Review
  <2>1. ASSUME NEW k \in Leases, ApproveFrame(k) PROVE \A l \in Leases : RowStays(run[l], run'[l])
    BY <1>1, <2>1, ActivatedRows DEF ApproveFrame, RowStays, SameRun
  <2>2. ASSUME NEW k \in Leases, RejectFrame(k) PROVE \A l \in Leases : RowStays(run[l], run'[l])
    BY <1>1, <1>3, <2>2 DEF RejectFrame
  <2>3. QED
    BY <1>2, <1>8, <2>1, <2>2 DEF Review
<1>9. ASSUME NEW p \in Workers, TickStep(p) PROVE \A l \in Leases : RunStays(l)
  <2>1. CASE TickStart(p)
    BY <1>1, <1>2, <1>3, <2>1 DEF TickStart
  <2>2. ASSUME NEW e \in Episodes, NEW k \in Leases, ClaimRow(p, e, k)
        PROVE  \A l \in Leases : RowStays(run[l], run'[l])
    <3>1. RunClaimed(k) /\ \A l \in Leases : l # k => run'[l] = run[l]
      BY <1>1, <2>2 DEF ClaimRow, NoRun, RunClaimed
    <3>2. RowStays(run[k], run'[k])
      BY <3>1 DEF RunClaimed, Fresh, RowStays
    <3>3. QED
      BY <1>1, <1>3, <3>1, <3>2
  <2>3. ASSUME NEW k \in Leases, ReadEvidence(p, k) PROVE \A l \in Leases : RowStays(run[l], run'[l])
    BY <1>1, <1>3, <2>3 DEF ReadEvidence
  <2>4. ASSUME NEW b \in BOOLEAN, SaveFrame(p, b) PROVE \A l \in Leases : RowStays(run[l], run'[l])
    BY <1>1, <1>3, <2>4 DEF SaveFrame
  <2>5. CASE StageRun(p) \/ \E b \in BOOLEAN : CuratorThrows(p, b)
    <3>1. CASE run' = run
      BY <1>4, <3>1
    <3>2. CASE worker[p].pc = "stage" /\ run' = [run EXCEPT ![worker[p].cur].state = "staged"]
      <4>1. run[worker[p].cur].state # "published"
        BY <3>2 DEF OwnInv, Owned, Reading
      <4>2. QED
        BY <1>1, <1>2, <1>3, <3>2, <4>1
    <3>3. QED
      BY <2>5, <3>1, <3>2 DEF StageRun, CuratorThrows
  <2>6. ASSUME NEW b \in BOOLEAN, CompleteDreamJob(p, b) PROVE \A l \in Leases : RunStays(l)
    <3>1. RunPublished(worker[p].cur)
      BY <2>6, CompletionRuns
    <3>2. RowStays(run[worker[p].cur], run'[worker[p].cur])
      BY <3>1 DEF RunPublished, RowStays
    <3>3. ASSUME NEW l \in Leases, l # worker[p].cur PROVE RowStays(run[l], run'[l])
      <4> DEFINE published == [run EXCEPT ![worker[p].cur] = Published(@)]
      <4>1. worker[p].cur \in Leases
        BY <2>6 DEF CompleteDreamJob, CursorInv, NamesEpisode, Working
      <4>2. published \in [Leases -> RunRow] /\ published[l] = run[l]
        BY <1>1, <3>3, <4>1, RewrittenRows
      <4>3. run' \in {published, [published EXCEPT ![worker[p].cur].frame = "needs_confirmation"],
                      Activated(published, worker[p].cur)}
        BY <2>6 DEF CompleteDreamJob
      <4> HIDE DEF published
      <4>4. run'[l] = published[l] \/ run'[l] = Activated(published, worker[p].cur)[l]
        BY <3>3, <4>2, <4>3
      <4>5. QED
        BY <1>1, <1>3, <4>2, <4>4, ActivatedRows DEF RowStays, SameRun
    <3>4. QED
      BY <1>2, <3>2, <3>3
  <2>7. CASE CompletionFails(p)
    BY <1>1, <1>2, <1>3, <2>7 DEF CompletionFails
  <2>8. CASE FailDreamJob(p)
    <3>1. PICK f : run' = [run EXCEPT ![worker[p].cur].frame = f]
      BY <2>8 DEF FailDreamJob
    <3>2. \A l \in Leases : run'[l] = run[l] \/ run'[l] = [run[l] EXCEPT !.frame = f]
      BY <1>1, <3>1
    <3>3. \A l \in Leases :
            RowStays(run[l], run[l]) /\ RowStays(run[l], [run[l] EXCEPT !.frame = f])
      BY <1>1, <1>3
    <3>4. \A l \in Leases : RowStays(run[l], run'[l])
      BY <3>2, <3>3
    <3>5. QED
      BY <1>2, <3>4
  <2>9. QED
    BY <1>2, <1>4, <1>9, <2>1, <2>2, <2>3, <2>4, <2>5, <2>6, <2>7, <2>8
    DEF TickStep, ExpireLeases, ScheduleRetries, SelectJobs, MissRow, MarkProcessing,
        ClaimsDone, TickDone
<1>10. CASE Elapse
  BY <1>1, <1>2, <1>3, <1>10 DEF Elapse
<1>11. QED
  BY <1>4, <1>6, <1>7, <1>8, <1>9, <1>10 DEF Next, vars, RetryFailed, Crash

(***************************************************************************)
(* A processed job is answered by a run that read what the episode has now. *)
(***************************************************************************)
LeaseInv ==
  \A e \in Episodes :
    job[e].state = "processing" =>
      /\ job[e].lease \in Leases
      /\ run[job[e].lease].episode = e /\ run[job[e].lease].current

DoneInv ==
  \A e \in Episodes :
    job[e].state = "processed" => \E l \in Leases : Answering(e, l) /\ run[l].links = ep[e].links

\* The lease of a processing job names an attempt at it that nothing disowned.
LEMMA LeaseInvStep ==
  TypeInv /\ CursorInv /\ OwnInv /\ LeaseInv /\ [Next]_vars => LeaseInv'
<1> SUFFICES ASSUME TypeInv, CursorInv, OwnInv, LeaseInv, [Next]_vars,
                    NEW e \in Episodes, job'[e].state = "processing"
             PROVE  /\ job'[e].lease \in Leases
                    /\ run'[job'[e].lease].episode = e /\ run'[job'[e].lease].current
  BY DEF LeaseInv
<1>1. JobMoves(e)
  BY JobsMove
<1>2. ASSUME NEW l \in Leases, RunClaimed(l), job'[e].lease = l, run'[l].episode = e
      PROVE  run'[l].current
  BY <1>2 DEF RunClaimed
<1>3. CASE job'[e].state = job[e].state /\ job'[e].lease = job[e].lease
  <2> DEFINE l == job[e].lease
  <2>1. l \in Leases /\ run[l].episode = e /\ run[l].current
    BY <1>3 DEF LeaseInv
  <2>2. RunStep(l) /\ ~RunClaimed(l) /\ RunStays(l)
    BY <2>1, RunSteps, RunsStay DEF RunClaimed, Fresh
  <2>3. run'[l].episode = e
    BY <2>1, <2>2 DEF RunStep, RunKept, RunRead, RunPublished
  <2>4. run'[l].current
    BY <2>1, <2>2 DEF RunStays, RowStays
  <2>5. QED
    BY <1>3, <2>1, <2>3, <2>4
<1>4. QED
  BY <1>1, <1>2, <1>3 DEF JobMoves, RunPublished

\* The answer of a processed job stands; a new one is what its run has read.
LEMMA DoneStep ==
  TypeInv /\ CursorInv /\ RowsInv /\ ReadInv /\ OwnInv /\ LeaseInv /\ DoneInv /\ [Next]_vars
    => DoneInv'
<1> SUFFICES ASSUME TypeInv, CursorInv, RowsInv, ReadInv, OwnInv, LeaseInv, DoneInv, [Next]_vars,
                    NEW e \in Episodes, job'[e].state = "processed"
             PROVE  \E l \in Leases : Answering(e, l)' /\ run'[l].links = ep'[e].links
  BY DEF DoneInv
<1>1. JobMoves(e) /\ LinksStep(e)
  BY JobsMove, LinksSteps
<1>2. CASE job[e].state = "processed"
  <2>1. PICK l \in Leases : Answering(e, l) /\ run[l].links = ep[e].links
    BY <1>2 DEF DoneInv
  <2>2. LinksStay(e)
    BY <1>1, <1>2 DEF LinksStep, LinksGrow, LinksRetracted
  <2>3. RunStep(l) /\ ~RunClaimed(l) /\ RunStays(l)
    BY <2>1, RunSteps, RunsStay DEF RunClaimed, Fresh, Answering
  <2>4. run'[l].state = "published" /\ run'[l].current
    BY <2>1, <2>3 DEF RunStays, RowStays, Answering
  <2>5. run'[l].episode = e /\ run'[l].links = ep'[e].links
    BY <2>1, <2>2, <2>3 DEF RunStep, RunKept, RunRead, RunPublished, Answering, LinksStay
  <2>6. QED
    BY <2>4, <2>5 DEF Answering
<1>3. ASSUME NEW l \in Leases, RunPublished(l), run[l].episode = e
      PROVE  Answering(e, l)' /\ run'[l].links = ep'[e].links
  <2>1. run[l].current
    BY <1>3 DEF RunPublished, Holds, LeaseInv
  <2>2. run[l].links = ep[e].links
    BY <1>3 DEF RunPublished, Publishes, ReadInv, Reading
  <2>3. LinksStay(e)
    BY <1>1, <1>3 DEF RunPublished, Holds, LinksStep, LinksGrow, LinksRetracted
  <2>4. QED
    BY <1>3, <2>1, <2>2, <2>3 DEF RunPublished, Answering, LinksStay
<1>4. QED
  BY <1>1, <1>2, <1>3 DEF JobMoves

\* A processed job was answered by a run that read the evidence the episode has
\* now: no event linked or moved since was left out of its dream.
THEOREM ProcessedIsCurrent == Spec => []ProcessedMeansCurrent
<1>1. Init => LeaseInv /\ DoneInv
  BY DEF Init, LeaseInv, DoneInv, NoJob
<1>2. DoneInv => ProcessedMeansCurrent
  BY DEF DoneInv, ProcessedMeansCurrent
<1>3. QED
  BY TypeInit, TypeStep, CursorInit, CursorStep, RowsInit, RowsStep, ReadInit, ReadStep,
     OwnInit, OwnStep, LeaseInvStep, DoneStep, <1>1, <1>2, PTL DEF Spec

(***************************************************************************)
(* Frames.  One becomes active only in a statement that supersedes the      *)
(* episode's other active frame and finds its evidence still linked.        *)
(***************************************************************************)
FrameInv ==
  /\ \A l \in Leases : run[l].frame # "none" => run[l].episode \in Episodes
  /\ OneActiveFrame

FrameKept(r, s) ==
  /\ s.episode = r.episode
  /\ s.frame = "active" => r.frame = "active"
  /\ s.frame # "none" => r.frame # "none"

FrameActivated(l) ==
  /\ run'[l].episode = run[l].episode /\ run'[l].links = run[l].links
  /\ run[l].links \subseteq ep[run[l].episode].links
  /\ \A e \in Episodes : LinksStay(e)
  /\ \A k \in Leases : k # l /\ run[k].episode = run[l].episode => run'[k].frame # "active"

FrameStep(l) ==
  \/ FrameKept(run[l], run'[l])
  \/ run'[l].frame = "none"
  \/ /\ run'[l].episode = run[l].episode /\ run[l].episode \in Episodes
     /\ run'[l].frame = "active" => FrameActivated(l)

\* What other statements do to an attempt's rows activates no frame.
LEMMA FrameRows ==
  ASSUME NEW r \in RunRow
  PROVE  /\ \A s \in {r, Disowned(r), Superseded(r), Retired(r), Published(r), Abandoned(r)} :
              FrameKept(r, s)
         /\ FrameKept(r, Retired(Superseded(r)))
         /\ \A L : FrameKept(r, [r EXCEPT !.links = L])
         /\ \A n : FrameKept(r, [r EXCEPT !.left = n])
         /\ FrameKept(r, [r EXCEPT !.state = "staged"])
         /\ r.frame # "none" => FrameKept(r, [r EXCEPT !.frame = "superseded"])
<1>1. \A s \in RunRow : FrameKept(s, Superseded(s)) /\ FrameKept(s, Retired(s))
  BY DEF FrameKept, Superseded, Retired, RunRow
<1>2. \A s \in {r, Disowned(r), Superseded(r), Retired(r), Published(r), Abandoned(r)} : FrameKept(r, s)
  <2>1. FrameKept(r, r) /\ FrameKept(r, Disowned(r))
    BY DEF FrameKept, Disowned, RunRow
  <2>2. FrameKept(r, Published(r))
    BY DEF FrameKept, Published
  <2>3. FrameKept(r, Abandoned(r))
    BY DEF FrameKept, Abandoned, RunRow
  <2>4. QED
    BY <1>1, <2>1, <2>2, <2>3
<1>3. Superseded(r) \in RunRow
  BY RewrittenRows
<1>4. FrameKept(r, Retired(Superseded(r)))
  BY <1>1, <1>3 DEF FrameKept
<1>5. /\ \A L : FrameKept(r, [r EXCEPT !.links = L])
      /\ \A n : FrameKept(r, [r EXCEPT !.left = n])
      /\ FrameKept(r, [r EXCEPT !.state = "staged"])
      /\ r.frame # "none" => FrameKept(r, [r EXCEPT !.frame = "superseded"])
  BY DEF FrameKept, RunRow
<1>6. QED
  BY <1>2, <1>4, <1>5

\* Activating one frame leaves no other active at its episode.
LEMMA ActivatedFrames ==
  ASSUME NEW r \in [Leases -> RunRow], NEW k \in Leases
  PROVE  /\ \A l \in Leases : l # k => FrameKept(r[l], Activated(r, k)[l])
         /\ \A l \in Leases : l # k /\ r[l].episode = r[k].episode => Activated(r, k)[l].frame # "active"
  BY FrameRows DEF Activated, RunRow

\* Every step of the code treats each attempt's frame in one of those ways.
LEMMA FrameSteps ==
  TypeInv /\ CursorInv /\ FrameInv /\ [Next]_vars => \A l \in Leases : FrameStep(l)
<1> SUFFICES ASSUME TypeInv, CursorInv, FrameInv, [Next]_vars
             PROVE  \A l \in Leases : FrameStep(l)
  OBVIOUS
<1>1. run \in [Leases -> RunRow] /\ ep \in [Episodes -> EpisodeRow]
  BY DEF TypeInv, TypeOK
<1>2. CASE \A l \in Leases : FrameKept(run[l], run'[l])
  BY <1>2 DEF FrameStep
<1>3. CASE run' = run
  BY <1>1, <1>2, <1>3, FrameRows
<1>4. ASSUME NEW c \in Leases, run[c].episode \in Episodes, NEW f, f # "active",
             run' = [run EXCEPT ![c].frame = f]
      PROVE  \A l \in Leases : FrameStep(l)
  <2>1. \A l \in Leases : l # c => FrameKept(run[l], run'[l])
    BY <1>1, <1>4, FrameRows
  <2>2. run'[c].episode = run[c].episode /\ run'[c].frame = f
    BY <1>1, <1>4 DEF RunRow
  <2>3. QED
    BY <1>4, <2>1, <2>2 DEF FrameStep
<1>5. CASE Lifecycle
  <2>1. ASSUME NEW e \in Episodes, SoftSeal(e) PROVE \A l \in Leases : FrameStep(l)
    BY <1>1, <1>2, <2>1, FrameRows DEF SoftSeal, JobDeleted
  <2>2. QED
    BY <1>3, <1>5, <2>1 DEF Lifecycle, AppendEvent, HardSeal, Reopen
<1>6. CASE Repair
  <2>1. ASSUME NEW e \in Episodes, RequeueDream(e) PROVE \A l \in Leases : FrameStep(l)
    BY <1>1, <1>2, <2>1, FrameRows DEF RequeueDream, Withdrawn
  <2>2. ASSUME NEW S, NEW links, NEW status, Recompute(S, links, status)
        PROVE  \A l \in Leases : FrameStep(l)
    BY <1>1, <1>2, <2>2, FrameRows DEF Recompute, WithdrawnWithFrames
  <2>3. QED
    BY <1>6, <2>1, <2>2 DEF Repair, Reclassify, Merge, MoveEvent, Split
<1>7. CASE Review
  <2>1. ASSUME NEW k \in Leases, ApproveFrame(k) PROVE \A l \in Leases : FrameStep(l)
    <3>1. run' = Activated(run, k) /\ ep' = ep /\ run[k].links \subseteq ep[run[k].episode].links
      BY <2>1 DEF ApproveFrame
    <3>2. run[k].episode \in Episodes
      BY <2>1 DEF ApproveFrame, FrameInv
    <3>3. FrameActivated(k)
      BY <1>1, <3>1, ActivatedFrames, ActivatedRows DEF FrameActivated, SameRun, LinksStay
    <3>4. FrameStep(k)
      BY <3>2, <3>3 DEF FrameStep, FrameActivated
    <3>5. \A l \in Leases : l # k => FrameKept(run[l], run'[l])
      BY <1>1, <3>1, ActivatedFrames
    <3>6. QED
      BY <3>4, <3>5 DEF FrameStep
  <2>2. ASSUME NEW k \in Leases, RejectFrame(k) PROVE \A l \in Leases : FrameStep(l)
    <3>1. run[k].episode \in Episodes /\ run' = [run EXCEPT ![k].frame = "superseded"]
      BY <2>2 DEF RejectFrame, FrameInv
    <3>2. QED
      BY <1>4, <3>1
  <2>3. QED
    BY <1>7, <2>1, <2>2 DEF Review
<1>8. ASSUME NEW p \in Workers, TickStep(p) PROVE \A l \in Leases : FrameStep(l)
  <2> DEFINE c == worker[p].cur
  <2>1. worker[p].pc \in Working => NamesEpisode(c)
    BY DEF CursorInv
  <2>2. CASE TickStart(p)
    BY <1>1, <1>2, <2>2, FrameRows DEF TickStart
  <2>3. ASSUME NEW e \in Episodes, NEW k \in Leases, ClaimRow(p, e, k)
        PROVE  \A l \in Leases : FrameStep(l)
    <3>1. run'[k].frame = "none" /\ \A l \in Leases : l # k => run'[l] = run[l]
      BY <1>1, <2>3 DEF ClaimRow, NoRun
    <3>2. QED
      BY <1>1, <3>1, FrameRows DEF FrameStep
  <2>4. ASSUME NEW k \in Leases, ReadEvidence(p, k) PROVE \A l \in Leases : FrameStep(l)
    BY <1>1, <1>2, <2>4, FrameRows DEF ReadEvidence
  <2>5. ASSUME NEW b \in BOOLEAN, SaveFrame(p, b) PROVE \A l \in Leases : FrameStep(l)
    BY <1>3, <1>4, <2>1, <2>5 DEF SaveFrame, NamesEpisode, Working
  <2>6. CASE StageRun(p) \/ \E b \in BOOLEAN : CuratorThrows(p, b)
    <3>1. run' = run \/ run' = [run EXCEPT ![c].state = "staged"]
      BY <2>6 DEF StageRun, CuratorThrows
    <3>2. QED
      BY <1>1, <1>2, <1>3, <3>1, FrameRows
  <2>7. ASSUME NEW b \in BOOLEAN, CompleteDreamJob(p, b) PROVE \A l \in Leases : FrameStep(l)
    <3> DEFINE published == [run EXCEPT ![c] = Published(@)]
    <3>1. NamesEpisode(c)
      BY <2>1, <2>7 DEF CompleteDreamJob, Working
    <3>2. /\ published \in [Leases -> RunRow]
          /\ \A l \in Leases : l # c => published[l] = run[l]
          /\ published[c] = Published(run[c])
      BY <1>1, <3>1, RewrittenRows DEF NamesEpisode
    <3>3. \A l \in Leases : FrameKept(run[l], published[l]) /\ published[l].episode = run[l].episode
                            /\ published[l].links = run[l].links
      <4>1. \A r \in RunRow : /\ FrameKept(r, r) /\ FrameKept(r, Published(r))
                              /\ Published(r).episode = r.episode /\ Published(r).links = r.links
        BY FrameRows, RewrittenRows
      <4>2. \A l \in Leases : run[l] \in RunRow /\ published[l] \in {run[l], Published(run[l])}
        BY <1>1, <3>2
      <4>3. QED
        BY <4>1, <4>2
    <3>4. \/ run' = published
          \/ run' = [published EXCEPT ![c].frame = "needs_confirmation"]
          \/ /\ run' = Activated(published, c)
             /\ run[c].links \subseteq ep[run[c].episode].links
      BY <2>7 DEF CompleteDreamJob, MayComplete
    <3>5. \A e \in Episodes : LinksStay(e)
      BY <1>1, <2>7 DEF CompleteDreamJob, EpisodeRow, LinksStay
    <3> HIDE DEF published
    <3>6. CASE run' = published
      BY <1>2, <3>3, <3>6
    <3>7. CASE run' = [published EXCEPT ![c].frame = "needs_confirmation"]
      <4>1. \A l \in Leases : l # c => run'[l] = published[l]
        BY <3>2, <3>7
      <4>2. run'[c].episode = run[c].episode /\ run'[c].frame = "needs_confirmation"
        BY <3>1, <3>2, <3>3, <3>7 DEF NamesEpisode, RunRow
      <4>3. QED
        BY <3>1, <3>3, <4>1, <4>2 DEF FrameStep, NamesEpisode
    <3>8. CASE run' = Activated(published, c) /\ run[c].links \subseteq ep[run[c].episode].links
      <4>1. \A l \in Leases : run'[l].episode = run[l].episode /\ run'[l].links = run[l].links
        BY <3>2, <3>3, <3>8, ActivatedRows DEF SameRun
      <4>2. \A l \in Leases : l # c => FrameKept(run[l], run'[l])
        BY <3>1, <3>2, <3>8, ActivatedFrames DEF NamesEpisode
      <4>3. \A l \in Leases : l # c /\ run[l].episode = run[c].episode => run'[l].frame # "active"
        BY <3>1, <3>2, <3>3, <3>8, ActivatedFrames DEF NamesEpisode
      <4>4. FrameActivated(c)
        BY <3>1, <3>5, <3>8, <4>1, <4>3 DEF FrameActivated, NamesEpisode
      <4>5. QED
        BY <3>1, <4>1, <4>2, <4>4 DEF FrameStep, NamesEpisode
    <3>9. QED
      BY <3>4, <3>6, <3>7, <3>8
  <2>8. CASE CompletionFails(p)
    BY <1>1, <1>2, <2>8, FrameRows DEF CompletionFails
  <2>9. CASE FailDreamJob(p)
    <3>1. run' = [run EXCEPT ![c].frame = IF @ = "staged" THEN "failed" ELSE @] /\ NamesEpisode(c)
      BY <2>1, <2>9 DEF FailDreamJob, Working
    <3>2. \A r \in RunRow : FrameKept(r, [r EXCEPT !.frame = IF @ = "staged" THEN "failed" ELSE @])
      BY DEF FrameKept, RunRow
    <3>3. QED
      BY <1>1, <1>2, <3>1, <3>2, FrameRows
  <2>10. QED
    BY <1>3, <1>8, <2>2, <2>3, <2>4, <2>5, <2>6, <2>7, <2>8, <2>9
    DEF TickStep, ExpireLeases, ScheduleRetries, SelectJobs, MissRow, MarkProcessing,
        ClaimsDone, TickDone
<1>9. CASE Elapse
  BY <1>1, <1>2, <1>9, FrameRows DEF Elapse
<1>10. QED
  BY <1>3, <1>5, <1>6, <1>7, <1>8, <1>9 DEF Next, vars, RetryFailed, Crash

\* An active frame's evidence is unlinked only by a repair, which retires the frame.
LEMMA FrameInvStep ==
  TypeInv /\ CursorInv /\ RowsInv /\ FrameInv /\ [Next]_vars => FrameInv'
<1> SUFFICES ASSUME TypeInv, CursorInv, RowsInv, FrameInv, [Next]_vars PROVE FrameInv'
  OBVIOUS
<1>1. \A l \in Leases : FrameStep(l) /\ RunStep(l)
  BY FrameSteps, RunSteps
<1>2. \A l \in Leases : run'[l].frame # "none" =>
        run'[l].episode \in Episodes /\ run'[l].episode = run[l].episode
  BY <1>1 DEF FrameStep, FrameKept, FrameInv
<1>3. \A l \in Leases : run'[l].frame = "active" => run[l].frame = "active" \/ FrameActivated(l)
  BY <1>1 DEF FrameStep, FrameKept
<1>4. ASSUME NEW l \in Leases, run'[l].frame = "active"
      PROVE  run'[l].links \subseteq ep'[run'[l].episode].links
  <2> DEFINE e == run[l].episode
  <2>1. e \in Episodes /\ run'[l].episode = e
    BY <1>2, <1>4
  <2>2. LinksStep(e)
    BY <2>1, LinksSteps
  <2>3. CASE FrameActivated(l)
    BY <2>1, <2>3 DEF FrameActivated, LinksStay
  <2>4. CASE run[l].frame = "active"
    <3>1. run[l].links \subseteq ep[e].links
      BY <2>4 DEF FrameInv, OneActiveFrame
    <3>2. ep[e].links \subseteq ep'[e].links
      BY <1>4, <2>2 DEF LinksStep, LinksStay, LinksGrow, LinksRetracted
    <3>3. \/ run'[l].links = run[l].links
          \/ run'[l].links = ep[e].links /\ ep' = ep
      BY <1>1, <1>4 DEF RunStep, RunKept, RunRead, RunClaimed, RunPublished
    <3>4. QED
      BY <2>1, <3>1, <3>2, <3>3
  <2>5. QED
    BY <1>3, <1>4, <2>3, <2>4
<1>5. ASSUME NEW l \in Leases, NEW m \in Leases, run'[l].frame = "active", run'[m].frame = "active",
             run'[m].episode = run'[l].episode
      PROVE  l = m
  <2>1. run[m].episode = run[l].episode
    BY <1>2, <1>5
  <2>2. ~FrameActivated(l) /\ ~FrameActivated(m) => run[l].frame = "active" /\ run[m].frame = "active"
    BY <1>3, <1>5
  <2>3. QED
    BY <1>5, <2>1, <2>2 DEF FrameActivated, FrameInv, OneActiveFrame
<1>6. QED
  BY <1>2, <1>4, <1>5 DEF FrameInv, OneActiveFrame

\* At most one active frame per episode, resting on events still linked to it:
\* publish and review never trip the partial unique index.
THEOREM OneFrameActive == Spec => []OneActiveFrame
<1>1. Init => FrameInv
  BY DEF Init, FrameInv, OneActiveFrame, NoRun
<1>2. FrameInv => OneActiveFrame
  BY DEF FrameInv
<1>3. QED
  BY TypeInit, TypeStep, CursorInit, CursorStep, RowsInit, RowsStep, FrameInvStep, <1>1, <1>2, PTL
  DEF Spec

(***************************************************************************)
(* DreamQueue implements DreamOutcome: whatever the overlapping ticks,      *)
(* expiring leases and dying processes do, seen from outside a request is   *)
(* revised, refused, or answered once from the evidence at hand.            *)
(***************************************************************************)

OutcomeInv ==
  TypeInv /\ CursorInv /\ RowsInv /\ ReadInv /\ OwnInv /\ LeaseInv /\ DoneInv /\ AnswerInv

\* What the refinement mapping shows as the answers to the request on e.
Shown(e) == {<<l, run[l].links>> : l \in {k \in Leases : Answering(e, k)}}

\* The invariants the mapping rests on hold initially.
LEMMA OutcomeInvInit == Init => OutcomeInv
<1>1. Init => LeaseInv /\ DoneInv /\ AnswerInv
  BY DEF Init, LeaseInv, DoneInv, AnswerInv, Answering, NoJob, NoRun
<1>2. QED
  BY <1>1, TypeInit, CursorInit, RowsInit, ReadInit, OwnInit DEF OutcomeInv

\* ... and are preserved by every step.
LEMMA OutcomeInvStep == OutcomeInv /\ [Next]_vars => OutcomeInv'
  BY TypeStep, CursorStep, RowsStep, ReadStep, OwnStep, LeaseInvStep, DoneStep, AnswerStep
  DEF OutcomeInv

(***************************************************************************)
(* What is shown of one episode.                                            *)
(***************************************************************************)

\* Only a processed job shows an answer,
LEMMA NothingShown ==
  ASSUME AnswerInv, NEW e \in Episodes, job[e].state # "processed" PROVE Shown(e) = {}
  BY DEF AnswerInv, Shown

\* and it shows one, from the evidence the episode has.
LEMMA OneShown ==
  ASSUME AnswerInv, DoneInv, NEW e \in Episodes, job[e].state = "processed"
  PROVE  \E l \in Leases : Answering(e, l) /\ Shown(e) = {<<l, ep[e].links>>}
<1>1. PICK l \in Leases : Answering(e, l) /\ run[l].links = ep[e].links
  BY DEF DoneInv
<1>2. \A k \in Leases : Answering(e, k) => k = l
  BY <1>1 DEF AnswerInv
<1>3. {k \in Leases : Answering(e, k)} = {l}
  BY <1>1, <1>2
<1>4. Shown(e) = {<<l, run[l].links>>}
  BY <1>3 DEF Shown
<1>5. QED
  BY <1>1, <1>4

\* The answer to a job that stays processed stays what it was.
LEMMA ShownStays ==
  ASSUME OutcomeInv, OutcomeInv', [Next]_vars, NEW e \in Episodes,
         job[e].state = "processed", job'[e].state = "processed"
  PROVE  Shown(e)' = Shown(e)
<1>1. PICK l \in Leases : Answering(e, l) /\ Shown(e) = {<<l, ep[e].links>>}
  BY OneShown DEF OutcomeInv
<1>2. PICK m \in Leases : Answering(e, m)' /\ Shown(e)' = {<<m, ep'[e].links>>}
  <2>1. AnswerInv' /\ DoneInv'
    BY DEF OutcomeInv
  <2>2. PICK m \in Leases : Answering(e, m)' /\ run'[m].links = ep'[e].links
    BY <2>1 DEF DoneInv
  <2>3. \A k \in Leases : Answering(e, k)' => k = m
    BY <2>1, <2>2 DEF AnswerInv
  <2>4. {k \in Leases : Answering(e, k)'} = {m}
    BY <2>2, <2>3
  <2>5. Shown(e)' = {<<m, run'[m].links>>}
    BY <2>4 DEF Shown
  <2>6. QED
    BY <2>2, <2>5
<1>3. RunStays(l) /\ RunStep(l) /\ ~RunClaimed(l)
  BY <1>1, RunsStay, RunSteps DEF OutcomeInv, RunClaimed, Fresh, Answering
<1>4. run'[l].episode = e /\ run'[l].state = "published" /\ run'[l].current
  BY <1>1, <1>3 DEF RunStays, RowStays, RunStep, RunKept, RunRead, RunPublished, Answering
<1>5. m = l
  BY <1>2, <1>4 DEF OutcomeInv, AnswerInv, Answering
<1>6. LinksStay(e)
  BY LinksSteps DEF OutcomeInv, LinksStep, LinksGrow, LinksRetracted
<1>7. QED
  BY <1>1, <1>2, <1>5, <1>6 DEF LinksStay

(***************************************************************************)
(* What a step means to the requests.  Only three statements end the work   *)
(* on a job; all others leave a request as it is or make it anew.           *)
(***************************************************************************)
Finishes(e) ==
  job[e].state = "processing" /\ job'[e].state \in {"processed", "failed_terminal"}

\* A request that is not ended is what it was, or dropped, or made anew.
LEMMA Unfinished ==
  ASSUME TypeInv, [Next]_vars, NEW e \in Episodes, ~Finishes(e)
  PROVE  Request(e)' = Request(e) \/ job'[e].state \in {"none", "pending"}
<1>1. JobStep(job[e], job'[e])
  BY JobSteps
<1>2. QED
  BY <1>1
  DEF Finishes, Request, JobStep, JobClaimed, JobReleased, JobScheduled, JobAged, NoJob, FreshJob,
      Nudged

\* A step that ends no request revises some.
LEMMA ReviseStep ==
  ASSUME OutcomeInv, OutcomeInv', [Next]_vars, \A e \in Episodes : ~Finishes(e)
  PROVE  Outcome!Next
<1>0. PICK S \in SUBSET Episodes : S = {e \in Episodes : job'[e].state \in {"none", "pending"}}
  OBVIOUS
<1>1. TypeInv /\ TypeInv' /\ RowsInv /\ AnswerInv /\ AnswerInv' /\ DoneInv
  BY DEF OutcomeInv
<1>2. ASSUME NEW e \in S PROVE Request(e)' \in {"none", "wanted"} /\ Shown(e)' = {}
  <2>1. Request(e)' \in {"none", "wanted"}
    BY <1>0, <1>2 DEF Request
  <2>2. Shown(e)' = {}
    BY <1>0, <1>1, <1>2 DEF AnswerInv, Shown
  <2>3. QED
    BY <2>1, <2>2
<1>3. ASSUME NEW e \in Episodes \ S
      PROVE  ep'[e].links = ep[e].links /\ Request(e)' = Request(e) /\ Shown(e)' = Shown(e)
  <2>1. Request(e)' = Request(e)
    BY <1>0, <1>1, <1>3, Unfinished
  <2>2. ep'[e].links = ep[e].links
    BY <1>0, <1>1, <1>3, LinksSteps DEF LinksStep, LinksStay, LinksGrow, LinksRetracted
  <2>3. CASE job[e].state = "processed"
    <3>1. job'[e].state = "processed"
      BY <2>1, <2>3 DEF Request
    <3>2. QED
      BY <2>1, <2>2, <2>3, <3>1, ShownStays
  <2>4. CASE job[e].state # "processed"
    <3>1. job'[e].state # "processed"
      BY <2>1, <2>4 DEF Request
    <3>2. Shown(e) = {} /\ Shown(e)' = {}
      BY <1>1, <2>4, <3>1 DEF AnswerInv, Shown
    <3>3. QED
      BY <2>1, <2>2, <3>2
  <2>5. QED
    BY <2>3, <2>4
<1>4. Links' \in [Episodes -> SUBSET Events]
  BY <1>1 DEF TypeInv, TypeOK, EpisodeRow, Links
<1>5. \A e \in Episodes : Request(e)' \in {"none", "wanted", "done", "refused"}
  BY DEF Request
<1>6. Outcome!Revise(S)
  <2> DEFINE requests == [e \in Episodes |-> Request(e)]
             answers  == [e \in Episodes |-> Shown(e)]
  <2>1. requests' \in [Episodes -> {"none", "wanted", "done", "refused"}]
    BY <1>5
  <2>2. \A e \in S : requests'[e] \in {"none", "wanted"}
    BY <1>2
  <2>3. \A e \in Episodes \ S : Links'[e] = Links[e] /\ requests'[e] = requests[e]
    BY <1>3 DEF Links
  <2>4. answers' = [e \in Episodes |-> IF e \in S THEN {} ELSE answers[e]]
    BY <1>2, <1>3
  <2>5. QED
    BY <1>4, <2>1, <2>2, <2>3, <2>4 DEF Outcome!Revise, Shown
<1>7. QED
  BY <1>6 DEF Outcome!Next

\* An episode whose request is neither ended nor made anew shows what it showed.
LEMMA ShownSame ==
  ASSUME OutcomeInv, OutcomeInv', [Next]_vars, NEW e \in Episodes, Request(e)' = Request(e)
  PROVE  Shown(e)' = Shown(e)
<1>1. AnswerInv /\ AnswerInv'
  BY DEF OutcomeInv
<1>2. CASE job[e].state = "processed"
  <2>1. job'[e].state = "processed"
    BY <1>2 DEF Request
  <2>2. QED
    BY <1>2, <2>1, ShownStays
<1>3. CASE job[e].state # "processed"
  <2>1. job'[e].state # "processed"
    BY <1>3 DEF Request
  <2>2. Shown(e) = {} /\ Shown(e)' = {}
    BY <1>1, <1>3, <2>1 DEF AnswerInv, Shown
  <2>3. QED
    BY <2>2
<1>4. QED
  BY <1>2, <1>3

\* A step that ends requests without an answer refuses them.
LEMMA RefuseStep ==
  ASSUME OutcomeInv, OutcomeInv', [Next]_vars, \A e \in Episodes : LinksStay(e),
         \A e \in Episodes :
           \/ job[e].state = "processing" /\ job'[e].state = "failed_terminal"
           \/ Request(e)' = Request(e)
  PROVE  Outcome!Next
<1> DEFINE requests == [e \in Episodes |-> Request(e)]
           answers  == [e \in Episodes |-> Shown(e)]
<1>1. PICK S \in SUBSET Episodes : S = {e \in Episodes : Request(e)' # Request(e)}
  OBVIOUS
<1>2. ASSUME NEW e \in S PROVE Request(e) = "wanted" /\ Request(e)' = "refused" /\ Shown(e)' = Shown(e)
  <2>1. job[e].state = "processing" /\ job'[e].state = "failed_terminal"
    BY <1>1, <1>2
  <2>2. AnswerInv /\ AnswerInv'
    BY DEF OutcomeInv
  <2>3. Shown(e) = {} /\ Shown(e)' = {}
    BY <2>1, <2>2 DEF AnswerInv, Shown
  <2>4. Request(e) = "wanted" /\ Request(e)' = "refused"
    BY <2>1 DEF Request
  <2>5. QED
    BY <2>3, <2>4
<1>3. ASSUME NEW e \in Episodes \ S PROVE Request(e)' = Request(e) /\ Shown(e)' = Shown(e)
  BY <1>1, <1>3, ShownSame
<1>4. Links' = Links
  BY DEF LinksStay, Links
<1>5. requests' = [e \in Episodes |-> IF e \in S THEN "refused" ELSE requests[e]]
  BY <1>2, <1>3
<1>6. answers' = answers
  BY <1>2, <1>3
<1>7. \A e \in S : requests[e] = "wanted"
  BY <1>2
<1>8. Outcome!Refuse(S)
  BY <1>4, <1>5, <1>6, <1>7 DEF Outcome!Refuse, Shown
<1>9. QED
  BY <1>8 DEF Outcome!Next

\* The completing transaction answers one request, from the evidence at hand.
LEMMA PublishStep ==
  ASSUME OutcomeInv, OutcomeInv', [Next]_vars, \A e \in Episodes : LinksStay(e),
         NEW l \in Leases, RunPublished(l),
         \A e \in Episodes : e # run[l].episode => job'[e] = job[e]
  PROVE  Outcome!Next
<1> DEFINE requests == [e \in Episodes |-> Request(e)]
           answers  == [e \in Episodes |-> Shown(e)]
<1>1. PICK e \in Episodes : e = run[l].episode
  BY DEF RunPublished
<1>2. Request(e) = "wanted" /\ Request(e)' = "done"
  BY <1>1 DEF RunPublished, Holds, Request
<1>3. Shown(e)' = {<<l, ep[e].links>>}
  <2>1. AnswerInv' /\ LeaseInv /\ ReadInv
    BY DEF OutcomeInv
  <2>2. Answering(e, l)'
    BY <1>1, <2>1 DEF RunPublished, Holds, LeaseInv, Answering
  <2>3. \A k \in Leases : Answering(e, k)' => k = l
    BY <2>1, <2>2 DEF AnswerInv
  <2>4. {k \in Leases : Answering(e, k)'} = {l}
    BY <2>2, <2>3
  <2>5. run'[l].links = ep[e].links
    BY <1>1, <2>1 DEF RunPublished, Publishes, ReadInv, Reading
  <2>6. QED
    BY <2>4, <2>5 DEF Shown
<1>4. ASSUME NEW f \in Episodes, f # e PROVE Request(f)' = Request(f) /\ Shown(f)' = Shown(f)
  <2>1. Request(f)' = Request(f)
    BY <1>1, <1>4 DEF Request
  <2>2. QED
    BY <2>1, ShownSame
<1>5. Links' = Links
  BY DEF LinksStay, Links
<1>6. requests' = [requests EXCEPT ![e] = "done"]
  BY <1>2, <1>4
<1>7. answers' = [answers EXCEPT ![e] = {<<l, Links[e]>>}]
  BY <1>3, <1>4 DEF Links
<1>8. Outcome!Publish(e, l)
  BY <1>2, <1>5, <1>6, <1>7 DEF Outcome!Publish, Shown
<1>9. QED
  BY <1>8 DEF Outcome!Next

\* Only an expiry, a failure and a completion end the work on a job.
LEMMA FinishingSteps ==
  ASSUME TypeInv, [Next]_vars, NEW e \in Episodes, Finishes(e)
  PROVE  \E p \in Workers :
           ExpireLeases(p) \/ FailDreamJob(p) \/ \E b \in BOOLEAN : CompleteDreamJob(p, b)
<1>1. job \in [Episodes -> JobRow]
  BY DEF TypeInv, TypeOK
<1>2. /\ job'[e] \notin {job[e], NoJob, FreshJob, Enqueued(job[e])}
      /\ job'[e].state \in {"processed", "failed_terminal"} /\ job[e].state = "processing"
  BY DEF Finishes, NoJob, FreshJob, Enqueued
<1>3. ~Lifecycle
  BY <1>1, <1>2 DEF Lifecycle, AppendEvent, SoftSeal, HardSeal, Reopen
<1>4. \A S, links, status : ~Recompute(S, links, status)
  BY <1>1, <1>2 DEF Recompute
<1>5. ~Repair
  BY <1>1, <1>2, <1>4 DEF Repair, Reclassify, Merge, MoveEvent, Split, RequeueDream
<1>6. ~RetryFailed
  BY <1>2, RetriedJobs
<1>7. ~Elapse
  BY <1>1, <1>2 DEF Elapse, JobRow
<1>8. \A p \in Workers : ~ScheduleRetries(p)
  BY <1>1, <1>2 DEF ScheduleRetries, JobRow
<1>9. \A p \in Workers, f \in Episodes, l \in Leases : ~ClaimRow(p, f, l)
  BY <1>1, <1>2 DEF ClaimRow, Claimable
<1>10. job' # job
  BY <1>2
<1>11. PICK p \in Workers : TickStep(p)
  BY <1>3, <1>5, <1>6, <1>7, <1>10 DEF Next, vars, Review, ApproveFrame, RejectFrame, Crash
<1>12. QED
  BY <1>8, <1>9, <1>10, <1>11
  DEF TickStep, TickStart, SelectJobs, MissRow, MarkProcessing, ClaimsDone, ReadEvidence,
      SaveFrame, StageRun, CuratorThrows, CompletionFails, TickDone

\* Every step of the backlog is a step of what it promises.
LEMMA OutcomeStep == OutcomeInv /\ OutcomeInv' /\ [Next]_vars => Outcome!Next
<1> SUFFICES ASSUME OutcomeInv, OutcomeInv', [Next]_vars PROVE Outcome!Next
  OBVIOUS
<1>1. /\ job \in [Episodes -> JobRow] /\ ep \in [Episodes -> EpisodeRow]
      /\ TypeInv /\ CursorInv /\ RowsInv
  BY DEF OutcomeInv, TypeInv, TypeOK
<1>2. CASE \A e \in Episodes : ~Finishes(e)
  BY <1>2, ReviseStep
<1>3. ASSUME NEW d \in Episodes, Finishes(d) PROVE Outcome!Next
  <2>1. PICK p \in Workers :
          ExpireLeases(p) \/ FailDreamJob(p) \/ \E b \in BOOLEAN : CompleteDreamJob(p, b)
    BY <1>1, <1>3, FinishingSteps
  <2>2. \A j \in JobRow, n \in Nat :
          /\ Released(j, "failed_terminal", n).state = "failed_terminal"
          /\ Released(j, "failed_retryable", n).state = "failed_retryable"
          /\ Released(j, "processed", n).state = "processed"
    BY ReleasedType DEF JobState
  <2>3. \A e \in Episodes :
          job[e].state = "processing" /\ job'[e].state = "failed_retryable" => Request(e)' = Request(e)
    BY DEF Request
  <2>4. \A e \in Episodes : job'[e] = job[e] => Request(e)' = Request(e)
    BY DEF Request
  <2>5. CASE ExpireLeases(p)
    <3>1. \A e \in Episodes : LinksStay(e)
      BY <1>1, <2>5 DEF ExpireLeases, EpisodeRow, LinksStay
    <3>2. \A e \in Episodes :
            \/ job'[e] = job[e]
            \/ /\ job[e].state = "processing"
               /\ \/ job'[e] = Released(job[e], "failed_terminal", job[e].retry)
                  \/ job'[e] = Released(job[e], "failed_retryable", RetryMs)
      BY <2>5 DEF ExpireLeases, Expired
    <3>3. \A e \in Episodes : job[e].retry \in Nat
      BY <1>1 DEF JobRow
    <3>4. \A e \in Episodes :
            \/ job'[e] = job[e]
            \/ /\ job[e].state = "processing"
               /\ job'[e].state \in {"failed_terminal", "failed_retryable"}
      BY <1>1, <2>2, <3>2, <3>3, ConstantsAssumption
    <3>5. QED
      BY <2>3, <2>4, <3>1, <3>4, RefuseStep
  <2>6. CASE FailDreamJob(p)
    <3> DEFINE c == run[worker[p].cur].episode
    <3>1. \/ job' = job /\ ep' = ep
          \/ /\ job[c].state = "processing"
             /\ \/ job' = [job EXCEPT ![c] = Released(job[c], "failed_terminal", 0)]
                \/ job' = [job EXCEPT ![c] = Released(job[c], "failed_retryable", RetryMs)]
             /\ ep' = [ep EXCEPT ![c].dreamed = FALSE]
      BY <2>6 DEF FailDreamJob, Holds
    <3>2. \A e \in Episodes : LinksStay(e)
      <4>1. \/ ep' = ep
            \/ ep' = [ep EXCEPT ![c].dreamed = FALSE]
        BY <3>1
      <4>2. QED
        BY <1>1, <4>1 DEF EpisodeRow, LinksStay
    <3>3. \A e \in Episodes :
            \/ job'[e] = job[e]
            \/ /\ job[e].state = "processing"
               /\ job'[e].state \in {"failed_terminal", "failed_retryable"}
      <4>1. \A e \in Episodes :
              \/ job'[e] = job[e]
              \/ /\ job[e].state = "processing"
                 /\ job'[e] \in {Released(job[e], "failed_terminal", 0),
                                 Released(job[e], "failed_retryable", RetryMs)}
        BY <1>1, <3>1
      <4>2. RetryMs \in Nat /\ 0 \in Nat
        BY ConstantsAssumption
      <4>3. \A e \in Episodes : job[e] \in JobRow
        BY <1>1
      <4>4. QED
        BY <2>2, <4>1, <4>2, <4>3
    <3>4. QED
      BY <2>3, <2>4, <3>2, <3>3, RefuseStep
  <2>7. ASSUME NEW b \in BOOLEAN, CompleteDreamJob(p, b) PROVE Outcome!Next
    <3>1. RunPublished(worker[p].cur) /\ worker[p].cur \in Leases
      BY <1>1, <2>7, CompletionRuns DEF CompleteDreamJob, CursorInv, NamesEpisode, Working
    <3>2. \A e \in Episodes : LinksStay(e)
      BY <1>1, <2>7 DEF CompleteDreamJob, EpisodeRow, LinksStay
    <3>3. \A e \in Episodes : e # run[worker[p].cur].episode => job'[e] = job[e]
      BY <2>7, CompletedJob
    <3>4. QED
      BY <3>1, <3>2, <3>3, PublishStep
  <2>8. QED
    BY <2>1, <2>5, <2>6, <2>7
<1>4. QED
  BY <1>2, <1>3

\* An empty database has no evidence, no requests and no answers.
LEMMA OutcomeStart == Init => Outcome!Init
<1> SUFFICES ASSUME Init PROVE Outcome!Init
  OBVIOUS
<1>1. Links = [e \in Episodes |-> {}]
  BY DEF Init, Links
<1>2. \A e \in Episodes : Request(e) = "none" /\ Shown(e) = {}
  BY DEF Init, NoJob, Request, Shown, Answering, NoRun
<1>3. QED
  BY <1>1, <1>2 DEF Outcome!Init, Shown

\* The leased, retried, crash-prone backlog implements the promise: requests to
\* dream are answered at most once, each from the evidence at that moment.
THEOREM BacklogImplementsOutcome == Spec => ImplementsOutcome
<1>1. Outcome!Next => [Outcome!Next]_(Outcome!vars)
  OBVIOUS
<1>2. QED
  BY OutcomeInvInit, OutcomeInvStep, OutcomeStart, OutcomeStep, <1>1, PTL
  DEF Spec, ImplementsOutcome, Outcome!Spec
=============================================================================
