---------------------------- MODULE DeliveryProofs ----------------------------
(***************************************************************************)
(* What is done again is done once, for any number of operations, rows,    *)
(* processes and retries.                                                  *)
(*                                                                         *)
(*  - Effects: the argument is about one operation: who calls for it, what *)
(*    is still on its way, what has happened, and what its row admits.     *)
(*  - The audit of effects: a row is in the outbox until its event is in   *)
(*    the log, and what a projection publishes has every event that its    *)
(*    readers see.                                                         *)
(***************************************************************************)
EXTENDS HandoverProofs

-----------------------------------------------------------------------------
(* The effects.                                                              *)

Calls(p, k) == proc[p].pc = "calling" /\ proc[p].key = k

\* What the rows, the calls under way and the effects of one operation have to do
\* with each other.
RowInv(r) ==
  /\ r.status = "none" => ~r.dead /\ r.outcome = "none"
  /\ r.status = "in_progress" => ~r.dead /\ r.outcome = "none"
  /\ r.status = "executed" <=> r.outcome = "executed"
  /\ r.status = "failed" => r.outcome \in {"not_executed", "unknown"}
  /\ r.status = "failed" /\ ~r.dead => r.outcome = "not_executed"
  /\ r.status = "executed" \/ r.dead => r.left = 0 /\ r.retry = 0

KeyInv(k) ==
  /\ RowInv(row[k])
  /\ \A p, q \in Procs : Calls(p, k) /\ Calls(q, k) => p = q
  /\ \A p \in Procs : Calls(p, k) =>
       orphans[k] = 0 /\ applied[k] = IF proc[p].acted THEN 1 ELSE 0
  /\ applied[k] + orphans[k] <= 1
  /\ row[k].outcome = "not_executed" \/ row[k].status = "none" => applied[k] = 0 /\ Quiet(k)
  /\ row[k].status = "executed" => applied[k] = 1
  /\ row[k].status = "in_progress" => \A p \in Procs : Calls(p, k) => row[k].owner = p

Inv == TypeOK /\ \A k \in Keys : KeyInv(k)

-----------------------------------------------------------------------------
(* Rows.                                                                    *)

LEMMA Rows ==
  ASSUME NEW r \in Row, RowInv(r)
  PROVE  /\ NoRow \in Row /\ RowInv(NoRow)
         /\ Outrun(r) \in Row /\ RowInv(Outrun(r))
         /\ \A p \in Procs : Claimable(r) => Claimed(p, r) \in Row /\ RowInv(Claimed(p, r))
<1>1. NoRow \in Row /\ RowInv(NoRow)
  BY DEF NoRow, Row, Outcome, RowInv
<1>2. Outrun(r) \in Row /\ RowInv(Outrun(r))
  BY DEF Outrun, Row, Outcome, RowInv
<1>3. ASSUME NEW p \in Procs, Claimable(r) PROVE Claimed(p, r) \in Row /\ RowInv(Claimed(p, r))
  <2>1. r.dead = FALSE /\ r.retry \in Nat
    BY <1>3 DEF Claimable, RowInv, Row
  <2>2. Claimed(p, r) = [status |-> "in_progress", outcome |-> "none", owner |-> p,
                         left |-> LeaseMs, retry |-> r.retry, dead |-> FALSE]
    BY <2>1 DEF Claimed
  <2>3. QED
    BY <2>1, <2>2, ExecutionAssumption DEF Row, Outcome, RowInv
<1>4. QED
  BY <1>1, <1>2, <1>3

LEMMA SettledRow ==
  ASSUME NEW outcome \in {"executed", "not_executed", "unknown"}, NEW replay \in BOOLEAN
  PROVE  /\ Settled(outcome, replay) \in Row /\ RowInv(Settled(outcome, replay))
         /\ Settled(outcome, replay).outcome = outcome
         /\ Settled(outcome, replay).status = IF outcome = "executed" THEN "executed" ELSE "failed"
<1>1. CASE outcome = "executed"
  BY <1>1 DEF Settled, Row, Outcome, RowInv
<1>2. CASE outcome # "executed" /\ replay /\ outcome = "not_executed"
  BY <1>2, ExecutionAssumption DEF Settled, Row, Outcome, RowInv
<1>3. CASE outcome # "executed" /\ ~(replay /\ outcome = "not_executed")
  BY <1>3 DEF Settled, Row, Outcome, RowInv
<1>4. QED
  BY <1>1, <1>2, <1>3

\* A key nobody touches keeps its invariant.
LEMMA Untouched ==
  ASSUME NEW k \in Keys, KeyInv(k), row'[k] = row[k], applied'[k] = applied[k], orphans'[k] = orphans[k],
         \A p \in Procs : Calls(p, k)' <=> Calls(p, k),
         \A p \in Procs : Calls(p, k) => proc'[p].acted = proc[p].acted
  PROVE  KeyInv(k)'
  BY DEF KeyInv, Quiet, Calls

\* A process that stops calling, for whatever reason, leaves an idle row.
LEMMA IdleProc ==
  ASSUME TypeOK, NEW p \in Procs, NEW told \in {"nothing", "executed", "not_executed", "unknown", "in_progress"}
  PROVE  /\ Returned(p, told) \in [Procs -> Proc]
         /\ Returned(p, told)[p].pc = "idle" /\ Returned(p, told)[p].told = told
         /\ Returned(p, told)[p].key = proc[p].key
         /\ \A q \in Procs \ {p} : Returned(p, told)[q] = proc[q]
<1> DEFINE old == proc[p]
           new == [old EXCEPT !.pc = "idle", !.told = told, !.tries = 0, !.acted = FALSE, !.lost = FALSE]
<1>1. old \in Proc /\ proc \in [Procs -> Proc]
  BY DEF TypeOK
<1>2. new \in Proc /\ new.pc = "idle" /\ new.told = told /\ new.key = old.key
  BY <1>1 DEF Proc
<1>3. Returned(p, told) = [proc EXCEPT ![p] = new]
  BY DEF Returned, TypeOK, Proc
<1> HIDE DEF new
<1>4. QED
  BY <1>1, <1>2, <1>3
-----------------------------------------------------------------------------
(* The steps.                                                               *)

\* Taking up an operation: only one that is known not to have happened is claimed.
LEMMA TakeStep ==
  ASSUME Inv, NEW p \in Procs, NEW k \in Keys, NEW todo \in SUBSET Keys,
         proc[p].pc = "idle", Take(p, k, todo), UNCHANGED <<applied, orphans>>
  PROVE  Inv'
<1>1. row[k] \in Row /\ RowInv(row[k]) /\ KeyInv(k) /\ TypeOK
  BY DEF Inv, TypeOK, KeyInv
<1>2. CASE Claimable(row[k])
  <2> DEFINE claim == [pc |-> "calling", key |-> k, tries |-> 1, acted |-> FALSE,
                       lost |-> FALSE, told |-> "nothing", todo |-> todo]
  <2>1. /\ row' = [row EXCEPT ![k] = Claimed(p, row[k])] /\ proc' = [proc EXCEPT ![p] = claim]
    BY <1>2 DEF Take
  <2>2. claim \in Proc /\ Claimed(p, row[k]) \in Row /\ RowInv(Claimed(p, row[k]))
    BY <1>1, <1>2, Rows DEF Proc
  <2>3. /\ row'[k] = Claimed(p, row[k]) /\ proc'[p] = claim
        /\ \A j \in Keys \ {k} : row'[j] = row[j]
        /\ \A q \in Procs \ {p} : proc'[q] = proc[q]
        /\ TypeOK'
    BY <1>1, <2>1, <2>2 DEF TypeOK
  <2>4. row[k].outcome = "not_executed" \/ row[k].status = "none"
    BY <1>1, <1>2 DEF Claimable, RowInv
  <2>5. applied[k] = 0 /\ orphans[k] = 0 /\ \A q \in Procs : ~Calls(q, k)
    BY <1>1, <2>4 DEF KeyInv, Quiet, Calls
  <2>6. \A q \in Procs : Calls(q, k)' => q = p
    BY <2>3, <2>5 DEF Calls
  <2>7. row'[k].status = "in_progress" /\ row'[k].owner = p /\ row'[k].outcome = "none"
    BY <2>3 DEF Claimed
  <2>8. KeyInv(k)'
    BY <2>2, <2>3, <2>5, <2>6, <2>7 DEF KeyInv, Quiet
  <2>9. ASSUME NEW j \in Keys \ {k} PROVE KeyInv(j)'
    <3>1. \A q \in Procs : Calls(q, j)' <=> Calls(q, j)
      BY <2>3 DEF Calls
    <3>2. \A q \in Procs : Calls(q, j) => proc'[q].acted = proc[q].acted
      BY <2>3 DEF Calls
    <3>3. KeyInv(j)
      BY DEF Inv
    <3>4. QED
      BY <2>3, <3>1, <3>2, <3>3, Untouched
  <2>10. QED
    BY <2>3, <2>8, <2>9 DEF Inv
<1>3. CASE ~Claimable(row[k])
  <2> DEFINE idle == [pc |-> "idle", key |-> k, tries |-> 0, acted |-> FALSE,
                      lost |-> FALSE, told |-> Declined(row[k]), todo |-> todo]
             left == IF Running(row[k]) /\ row[k].left = 0 THEN Outrun(row[k]) ELSE row[k]
  <2>1. row' = [row EXCEPT ![k] = left] /\ proc' = [proc EXCEPT ![p] = idle]
    BY <1>3 DEF Take
  <2>2. idle \in Proc
    BY DEF Proc, Declined
  <2>3. left \in Row /\ RowInv(left)
    BY <1>1, Rows
  <2>4. /\ row'[k] = left /\ proc'[p] = idle
        /\ \A j \in Keys \ {k} : row'[j] = row[j]
        /\ \A q \in Procs \ {p} : proc'[q] = proc[q]
        /\ TypeOK'
    BY <1>1, <2>1, <2>2, <2>3 DEF TypeOK
  <2>5. /\ \A q \in Procs, j \in Keys : Calls(q, j)' <=> Calls(q, j)
        /\ \A q \in Procs, j \in Keys : Calls(q, j) => proc'[q].acted = proc[q].acted
    BY <2>4 DEF Calls
  <2>6. ASSUME NEW j \in Keys, row'[j] = row[j] PROVE KeyInv(j)'
    BY <2>5, <2>6, Untouched DEF Inv
  <2>7. CASE left = row[k]
    BY <2>4, <2>6, <2>7 DEF Inv
  <2>8. CASE left = Outrun(row[k])
    <3>1. row'[k].status = "failed" /\ row'[k].outcome = "unknown"
      BY <2>4, <2>8 DEF Outrun
    <3>2. KeyInv(k)'
      BY <1>1, <2>3, <2>4, <2>5, <3>1 DEF KeyInv
    <3>3. QED
      BY <2>4, <2>6, <3>2 DEF Inv
  <2>9. QED
    BY <2>7, <2>8
<1>4. QED
  BY <1>2, <1>3

\* Renewing a lease changes no more than the time it has left.
LEMMA HeartbeatStep ==
  ASSUME Inv, NEW p \in Procs, Heartbeat(p)
  PROVE  Inv'
<1>0. PICK k \in Keys : k = proc[p].key
  BY DEF Inv, TypeOK, Proc
<1>1. /\ row[k] \in Row /\ KeyInv(k) /\ TypeOK /\ UNCHANGED <<applied, orphans>>
      /\ proc[p] \in Proc /\ Calls(p, k)
  BY <1>0 DEF Inv, TypeOK, Proc, Heartbeat, Calls
<1>2. CASE Owns(p, row[k]) /\ row' = [row EXCEPT ![k].left = LeaseMs] /\ UNCHANGED proc
  <2>1. row' = [row EXCEPT ![k] = [row[k] EXCEPT !.left = LeaseMs]]
    BY <1>2
  <2>2. [row[k] EXCEPT !.left = LeaseMs] \in Row
    BY <1>1, ExecutionAssumption DEF Row
  <2>3. TypeOK' /\ row'[k] = [row[k] EXCEPT !.left = LeaseMs] /\ \A j \in Keys \ {k} : row'[j] = row[j]
    BY <1>1, <1>2, <2>1, <2>2 DEF TypeOK
  <2>4. /\ row'[k].status = row[k].status /\ row'[k].outcome = row[k].outcome
        /\ row'[k].owner = row[k].owner /\ row'[k].dead = row[k].dead /\ row[k].status = "in_progress"
    BY <1>1, <1>2, <2>3 DEF Row, Owns, Running
  <2>5. RowInv(row'[k])
    BY <1>1, <2>4 DEF KeyInv, RowInv
  <2>6. \A q \in Procs, j \in Keys : (Calls(q, j)' <=> Calls(q, j)) /\ proc'[q].acted = proc[q].acted
    BY <1>2 DEF Calls
  <2>7. KeyInv(k)'
    BY <1>1, <1>2, <2>4, <2>5, <2>6 DEF KeyInv, Quiet
  <2>8. \A j \in Keys \ {k} : KeyInv(j)'
    BY <1>1, <2>3, <2>6, Untouched DEF Inv
  <2>9. QED
    BY <1>1, <2>3, <2>7, <2>8 DEF Inv
<1>3. CASE proc' = [proc EXCEPT ![p].lost = TRUE] /\ UNCHANGED row
  <2>1. [proc[p] EXCEPT !.lost = TRUE] \in Proc
    BY <1>1 DEF Proc
  <2>2. proc' = [proc EXCEPT ![p] = [proc[p] EXCEPT !.lost = TRUE]]
    BY <1>3
  <2>3. TypeOK'
    BY <1>1, <1>3, <2>1, <2>2 DEF TypeOK
  <2>4. \A q \in Procs, j \in Keys : (Calls(q, j)' <=> Calls(q, j)) /\ proc'[q].acted = proc[q].acted
    BY <1>1, <2>2 DEF Calls, TypeOK, Proc
  <2>5. \A j \in Keys : KeyInv(j)'
    BY <1>1, <1>3, <2>4, Untouched DEF Inv
  <2>6. QED
    BY <2>3, <2>5 DEF Inv
<1>4. QED
  BY <1>0, <1>2, <1>3 DEF Heartbeat

\* The one call that can act does so once.
LEMMA ActStep ==
  ASSUME Inv, NEW p \in Procs, Act(p)
  PROVE  Inv'
<1>0. PICK k \in Keys : k = proc[p].key
  BY DEF Inv, TypeOK, Proc
<1> DEFINE new == [proc[p] EXCEPT !.acted = TRUE]
<1>1. /\ KeyInv(k) /\ TypeOK /\ UNCHANGED <<row, orphans>>
      /\ proc[p] \in Proc /\ Calls(p, k) /\ ~proc[p].acted
  BY <1>0 DEF Inv, TypeOK, Proc, Act, Calls
<1>2. new \in Proc /\ new.pc = proc[p].pc /\ new.key = k /\ new.acted = TRUE
  BY <1>0, <1>1 DEF Proc
<1>3. proc' = [proc EXCEPT ![p] = new] /\ applied' = [applied EXCEPT ![k] = applied[k] + 1]
  BY <1>0 DEF Act
<1> HIDE DEF new
<1>4. /\ TypeOK' /\ proc'[p] = new /\ \A q \in Procs \ {p} : proc'[q] = proc[q]
      /\ applied'[k] = applied[k] + 1 /\ \A j \in Keys \ {k} : applied'[j] = applied[j]
  BY <1>1, <1>2, <1>3 DEF TypeOK
<1>5. \A q \in Procs, j \in Keys : Calls(q, j)' <=> Calls(q, j)
  BY <1>0, <1>1, <1>2, <1>4 DEF Calls
<1>6. orphans[k] = 0 /\ applied[k] = 0
  BY <1>1 DEF KeyInv
<1>7. /\ ~(row[k].outcome = "not_executed" \/ row[k].status = "none")
      /\ row[k].status # "executed"
  BY <1>1, <1>6 DEF KeyInv, Quiet, Calls
<1>8. \A q \in Procs : Calls(q, k) => q = p
  BY <1>1 DEF KeyInv
<1>9. KeyInv(k)'
  <2>1. /\ row' = row /\ RowInv(row[k])
        /\ row[k].status = "in_progress" => \A q \in Procs : Calls(q, k) => row[k].owner = q
    BY <1>1 DEF KeyInv
  <2>2. \A q \in Procs : Calls(q, k)' => orphans'[k] = 0 /\ applied'[k] = IF proc'[q].acted THEN 1 ELSE 0
    BY <1>1, <1>2, <1>4, <1>5, <1>6, <1>8
  <2>3. applied'[k] + orphans'[k] <= 1
    BY <1>1, <1>4, <1>6
  <2>4. \A q, o \in Procs : Calls(q, k)' /\ Calls(o, k)' => q = o
    BY <1>1, <1>5, <1>8
  <2>5. QED
    BY <1>1, <1>5, <1>7, <2>1, <2>2, <2>3, <2>4 DEF KeyInv
<1>10. ASSUME NEW j \in Keys \ {k} PROVE KeyInv(j)'
  <2>1. \A q \in Procs : Calls(q, j) => proc'[q].acted = proc[q].acted
    BY <1>0, <1>4 DEF Calls
  <2>2. QED
    BY <1>1, <1>4, <1>5, <2>1, Untouched DEF Inv
<1>11. QED
  BY <1>1, <1>4, <1>9, <1>10 DEF Inv

\* A call nobody waits for acts, once.
LEMMA OrphanActsStep ==
  ASSUME Inv, NEW k \in Keys, OrphanActs(k)
  PROVE  Inv'
<1>1. KeyInv(k) /\ TypeOK /\ UNCHANGED <<row, proc>> /\ orphans[k] \in Nat /\ orphans[k] > 0 /\ applied[k] \in Nat
  BY DEF Inv, TypeOK, OrphanActs
<1>2. /\ applied' = [applied EXCEPT ![k] = applied[k] + 1]
      /\ orphans' = [orphans EXCEPT ![k] = orphans[k] - 1]
  BY DEF OrphanActs
<1>3. orphans[k] = 1 /\ applied[k] = 0
  BY <1>1 DEF KeyInv
<1>4. /\ TypeOK' /\ applied'[k] = 1 /\ orphans'[k] = 0
      /\ \A j \in Keys \ {k} : applied'[j] = applied[j] /\ orphans'[j] = orphans[j]
  BY <1>1, <1>2, <1>3 DEF TypeOK
<1>5. \A q \in Procs, j \in Keys : (Calls(q, j)' <=> Calls(q, j)) /\ proc'[q].acted = proc[q].acted
  BY <1>1 DEF Calls
<1>6. KeyInv(k)'
  BY <1>1, <1>3, <1>4, <1>5 DEF KeyInv, Quiet
<1>7. \A j \in Keys \ {k} : KeyInv(j)'
  BY <1>1, <1>4, <1>5, Untouched DEF Inv
<1>8. QED
  BY <1>4, <1>6, <1>7 DEF Inv
\* A process stops calling for k: it has an answer, or dies.  What it sent and was not
\* acted on may still arrive, unless it is known not to.
LEMMA LeaveKey ==
  ASSUME Inv, NEW p \in Procs, NEW k \in Keys, Calls(p, k),
         NEW new \in Proc, new.pc = "idle", proc' = [proc EXCEPT ![p] = new],
         NEW r \in Row, RowInv(r), row' = [row EXCEPT ![k] = r], UNCHANGED applied,
         \/ UNCHANGED orphans
         \/ /\ r.outcome # "not_executed" /\ ~proc[p].acted
            /\ orphans' = [orphans EXCEPT ![k] = orphans[k] + 1],
         r = row[k] \/ r.status \in {"executed", "failed"},
         r = row[k] \/ (r.status = "executed" => proc[p].acted),
         r = row[k] \/ (r.outcome = "not_executed" => ~proc[p].acted)
  PROVE  Inv'
<1>1. KeyInv(k) /\ TypeOK
  BY DEF Inv
<1>2. /\ row'[k] = r /\ \A j \in Keys \ {k} : row'[j] = row[j]
      /\ proc'[p] = new /\ \A q \in Procs \ {p} : proc'[q] = proc[q]
      /\ orphans[k] \in Nat /\ applied[k] \in Nat
  BY <1>1 DEF TypeOK
<1>3. /\ orphans[k] = 0 /\ applied[k] = IF proc[p].acted THEN 1 ELSE 0
      /\ \A q \in Procs : Calls(q, k) => q = p
      /\ ~(row[k].outcome = "not_executed" \/ row[k].status = "none")
  BY <1>1 DEF KeyInv, Quiet, Calls
<1>4. \A q \in Procs : ~Calls(q, k)'
  BY <1>2, <1>3 DEF Calls
<1>5. /\ orphans' \in [Keys -> Nat] /\ orphans'[k] \in {0, 1}
      /\ orphans'[k] = 1 => ~proc[p].acted /\ r.outcome # "not_executed"
      /\ \A j \in Keys \ {k} : orphans'[j] = orphans[j]
  <2>1. CASE UNCHANGED orphans
    BY <1>1, <1>3, <2>1 DEF TypeOK
  <2>2. CASE /\ r.outcome # "not_executed" /\ ~proc[p].acted
             /\ orphans' = [orphans EXCEPT ![k] = orphans[k] + 1]
    BY <1>1, <1>3, <2>2 DEF TypeOK
  <2>3. QED
    BY <2>1, <2>2
<1>6. TypeOK'
  BY <1>1, <1>5 DEF TypeOK
<1>7. r.status # "none"
  BY <1>3
<1>8. r.outcome = "not_executed" => applied[k] = 0 /\ orphans'[k] = 0
  BY <1>3, <1>5
<1>9. r.status = "executed" => applied[k] = 1
  BY <1>1, <1>3 DEF KeyInv
<1>10. applied[k] + orphans'[k] <= 1
  BY <1>3, <1>5
<1>11. KeyInv(k)'
  BY <1>2, <1>4, <1>7, <1>8, <1>9, <1>10 DEF KeyInv, Quiet, Calls
<1>12. ASSUME NEW j \in Keys \ {k} PROVE KeyInv(j)'
  <2>1. \A q \in Procs : (Calls(q, j)' <=> Calls(q, j)) /\ (Calls(q, j) => proc'[q].acted = proc[q].acted)
    BY <1>2 DEF Calls
  <2>2. QED
    BY <1>2, <1>5, <2>1, Untouched DEF Inv
<1>13. QED
  BY <1>6, <1>11, <1>12 DEF Inv

\* An answer repeats the call, or settles the row, or leaves it to others.
LEMMA AnswerStep ==
  ASSUME Inv, NEW p \in Procs, NEW outcome \in Outcome, NEW store \in {"said", "unsaid", "refused"},
         NEW replay \in BOOLEAN, Answer(p, outcome, store, replay)
  PROVE  Inv'
<1>0. PICK k \in Keys : k = proc[p].key
  BY DEF Inv, TypeOK, Proc
<1>1. /\ KeyInv(k) /\ TypeOK /\ proc[p] \in Proc /\ row[k] \in Row /\ RowInv(row[k]) /\ UNCHANGED applied
      /\ Calls(p, k) /\ outcome \in {"executed", "not_executed", "unknown"}
      /\ outcome = "executed" => applied[k] > 0
      /\ outcome = "not_executed" => ~proc[p].acted
  BY <1>0 DEF Inv, TypeOK, KeyInv, Answer, Answers, Calls
<1>2. applied[k] = IF proc[p].acted THEN 1 ELSE 0
  BY <1>1 DEF KeyInv
<1>3. CASE CallsAgain(p, outcome)
  <2> DEFINE new == [proc[p] EXCEPT !.tries = @ + 1, !.acted = FALSE]
  <2>1. /\ proc' = [proc EXCEPT ![p].tries = @ + 1, ![p].acted = FALSE]
        /\ UNCHANGED <<row, orphans>> /\ outcome = "not_executed"
    BY <1>3 DEF Answer, CallsAgain
  <2>2. proc' = [proc EXCEPT ![p] = new]
    BY <1>1, <2>1 DEF TypeOK, Proc
  <2>3. new \in Proc /\ new.pc = "calling" /\ new.key = k /\ new.acted = FALSE
    <3>1. proc[p].tries \in Nat /\ proc[p].tries + 1 \in Nat
      BY <1>1 DEF Proc
    <3>2. new \in Proc
      BY <1>1, <3>1 DEF Proc
    <3>3. new.pc = proc[p].pc /\ new.key = proc[p].key /\ new.acted = FALSE
      BY <1>1 DEF Proc
    <3>4. QED
      BY <1>0, <1>1, <3>2, <3>3 DEF Calls
  <2> HIDE DEF new
  <2>4. proc'[p] = new /\ (\A q \in Procs \ {p} : proc'[q] = proc[q]) /\ TypeOK'
    BY <1>1, <2>1, <2>2, <2>3 DEF TypeOK
  <2>5. \A q \in Procs, j \in Keys :
          (Calls(q, j)' <=> Calls(q, j)) /\ (Calls(q, j) => proc'[q].acted = proc[q].acted)
    BY <1>0, <1>1, <2>1, <2>3, <2>4 DEF Calls, Proc
  <2>6. \A j \in Keys : KeyInv(j)'
    BY <1>1, <2>1, <2>5, Untouched DEF Inv
  <2>7. QED
    BY <2>4, <2>6 DEF Inv
<1>4. CASE ~CallsAgain(p, outcome)
  <2> DEFINE finish == /\ ~(outcome = "executed" /\ proc[p].lost)
                       /\ store # "refused" /\ MaySettle(p, row[k])
             told == IF finish /\ store = "said" THEN outcome ELSE "unknown"
             r == IF finish THEN Settled(outcome, replay) ELSE row[k]
  <2>1. /\ proc' = Returned(p, told)
        /\ row' = IF finish THEN [row EXCEPT ![k] = Settled(outcome, replay)] ELSE row
        /\ \/ UNCHANGED orphans
           \/ /\ outcome = "unknown" /\ ~proc[p].acted
              /\ orphans' = [orphans EXCEPT ![k] = orphans[k] + 1]
    BY <1>0, <1>4 DEF Answer
  <2>2. told \in {"nothing", "executed", "not_executed", "unknown", "in_progress"}
    BY <1>1
  <2>3. PICK new \in Proc : proc' = [proc EXCEPT ![p] = new] /\ new.pc = "idle"
    <3> HIDE DEF told
    <3>1. /\ proc' \in [Procs -> Proc] /\ proc'[p].pc = "idle"
          /\ \A q \in Procs \ {p} : proc'[q] = proc[q]
      BY <1>1, <2>1, <2>2, IdleProc
    <3>2. proc' = [proc EXCEPT ![p] = proc'[p]]
      BY <1>1, <3>1 DEF TypeOK
    <3>3. QED
      BY <3>1, <3>2
  <2>4. r \in Row /\ RowInv(r) /\ row' = [row EXCEPT ![k] = r]
    <3>1. CASE finish
      BY <1>1, <2>1, <3>1, SettledRow
    <3>2. CASE ~finish
      BY <1>1, <2>1, <3>2 DEF TypeOK
    <3>3. QED
      BY <3>1, <3>2
  <2>5. /\ r = row[k] \/ r.status \in {"executed", "failed"}
        /\ r = row[k] \/ (r.status = "executed" => proc[p].acted)
        /\ r = row[k] \/ (r.outcome = "not_executed" => ~proc[p].acted)
        /\ outcome = "unknown" => r.outcome # "not_executed"
    <3>1. CASE finish
      BY <1>1, <1>2, <3>1, SettledRow
    <3>2. CASE ~finish
      BY <1>1, <3>2 DEF KeyInv, Quiet, Calls
    <3>3. QED
      BY <3>1, <3>2
  <2> HIDE DEF r, finish, told
  <2>6. \/ UNCHANGED orphans
        \/ /\ r.outcome # "not_executed" /\ ~proc[p].acted
           /\ orphans' = [orphans EXCEPT ![k] = orphans[k] + 1]
    BY <2>1, <2>5
  <2>7. QED
    BY <1>1, <2>3, <2>4, <2>5, <2>6, LeaveKey
<1>5. QED
  BY <1>3, <1>4

\* A process dies between two operations, or in a call.
LEMMA CrashStep ==
  ASSUME Inv, NEW p \in Procs, Crash(p)
  PROVE  Inv'
<1>0. PICK k \in Keys : k = proc[p].key
  BY DEF Inv, TypeOK, Proc
<1> DEFINE new == [proc[p] EXCEPT !.pc = "idle", !.told = "nothing", !.todo = {},
                                  !.tries = 0, !.acted = FALSE, !.lost = FALSE]
<1>1. /\ KeyInv(k) /\ TypeOK /\ proc[p] \in Proc /\ UNCHANGED <<row, applied>>
      /\ proc' = [proc EXCEPT ![p].pc = "idle", ![p].told = "nothing", ![p].todo = {},
                              ![p].tries = 0, ![p].acted = FALSE, ![p].lost = FALSE]
      /\ \/ UNCHANGED orphans
         \/ /\ Calls(p, k) /\ ~proc[p].acted
            /\ orphans' = [orphans EXCEPT ![k] = orphans[k] + 1]
  BY <1>0 DEF Inv, TypeOK, Crash, Calls
<1>2. proc' = [proc EXCEPT ![p] = new]
  BY <1>1 DEF TypeOK, Proc
<1>3. new \in Proc /\ new.pc = "idle"
  BY <1>1 DEF Proc
<1> HIDE DEF new
<1>4. CASE Calls(p, k)
  <2>1. row[k] \in Row /\ RowInv(row[k]) /\ row[k].outcome # "not_executed"
        /\ row' = [row EXCEPT ![k] = row[k]]
    BY <1>1, <1>4 DEF KeyInv, TypeOK, Quiet, Calls
  <2>2. \/ UNCHANGED orphans
        \/ /\ row[k].outcome # "not_executed" /\ ~proc[p].acted
           /\ orphans' = [orphans EXCEPT ![k] = orphans[k] + 1]
    BY <1>1, <2>1
  <2>3. UNCHANGED applied
    BY <1>1
  <2>4. QED
    BY <1>2, <1>3, <1>4, <2>1, <2>2, <2>3, LeaveKey
<1>5. CASE ~Calls(p, k)
  <2>1. TypeOK' /\ proc'[p] = new /\ \A q \in Procs \ {p} : proc'[q] = proc[q]
    <3>1. UNCHANGED <<row, applied, orphans>>
      BY <1>1, <1>5
    <3>2. QED
      BY <1>2, <1>3, <3>1 DEF Inv, TypeOK
  <2>2. \A q \in Procs, j \in Keys :
          (Calls(q, j)' <=> Calls(q, j)) /\ (Calls(q, j) => proc'[q].acted = proc[q].acted)
    BY <1>0, <1>3, <1>5, <2>1 DEF Calls
  <2>3. \A j \in Keys : KeyInv(j)'
    BY <1>1, <1>5, <2>2, Untouched DEF Inv
  <2>4. QED
    BY <2>1, <2>3 DEF Inv
<1>6. QED
  BY <1>4, <1>5

\* Time takes a lease or a delay nearer to its end.
LEMMA ElapseStep ==
  ASSUME Inv, Elapse
  PROVE  /\ Inv'
         /\ \A k \in Keys : row[k].status = "executed" \/ row[k].dead => row'[k] = row[k]
         /\ \A k \in Keys : row'[k].status = row[k].status /\ row'[k].outcome = row[k].outcome
<1>1. /\ row' = [k \in Keys |-> [row[k] EXCEPT !.left = Less(@), !.retry = Less(@)]]
      /\ UNCHANGED <<proc, applied, orphans>> /\ TypeOK
  BY DEF Inv, Elapse
<1>2. \A n \in Nat : Less(n) \in Nat /\ (n = 0 => Less(n) = 0)
  BY DEF Less
<1>3. ASSUME NEW r \in Row, RowInv(r)
      PROVE  LET s == [r EXCEPT !.left = Less(@), !.retry = Less(@)]
             IN  /\ s \in Row /\ RowInv(s) /\ s.status = r.status /\ s.outcome = r.outcome
                 /\ s.owner = r.owner
                 /\ r.status = "executed" \/ r.dead => s = r
  <2> DEFINE s == [r EXCEPT !.left = Less(@), !.retry = Less(@)]
  <2>1. r.left \in Nat /\ r.retry \in Nat
    BY DEF Row
  <2>2. s \in Row
    BY <1>2, <2>1 DEF Row
  <2>3. s.status = r.status /\ s.outcome = r.outcome /\ s.owner = r.owner /\ s.dead = r.dead
    BY DEF Row
  <2>4. s.left = Less(r.left) /\ s.retry = Less(r.retry)
    BY DEF Row
  <2> HIDE DEF s
  <2>5. RowInv(s)
    BY <1>2, <1>3, <2>3, <2>4 DEF RowInv
  <2>6. r.status = "executed" \/ r.dead => s = r
    <3>1. r.status = "executed" \/ r.dead => s.left = r.left /\ s.retry = r.retry
      BY <1>2, <1>3, <2>4 DEF RowInv
    <3>2. QED
      BY <2>2, <2>3, <3>1 DEF Row
  <2>7. QED
    BY <2>2, <2>3, <2>5, <2>6 DEF s
<1>4. ASSUME NEW k \in Keys
      PROVE  /\ row'[k] \in Row /\ RowInv(row'[k]) /\ row'[k].status = row[k].status
             /\ row'[k].outcome = row[k].outcome /\ row'[k].owner = row[k].owner
             /\ row[k].status = "executed" \/ row[k].dead => row'[k] = row[k]
  <2>1. row[k] \in Row /\ RowInv(row[k])
    BY DEF Inv, TypeOK, KeyInv
  <2>2. row'[k] = [row[k] EXCEPT !.left = Less(@), !.retry = Less(@)]
    BY <1>1
  <2>3. QED
    BY <1>3, <2>1, <2>2
<1>5. TypeOK'
  BY <1>1, <1>4 DEF TypeOK
<1>6. ASSUME NEW k \in Keys PROVE KeyInv(k)'
  <2>1. \A q \in Procs : Calls(q, k)' <=> Calls(q, k)
    BY <1>1 DEF Calls
  <2>2. KeyInv(k)
    BY DEF Inv
  <2>3. QED
    BY <1>1, <1>4, <2>1, <2>2 DEF KeyInv, Quiet
<1>7. QED
  BY <1>4, <1>5, <1>6 DEF Inv
\* Looking for what is due touches no operation.
LEMMA ReplayPendingStep ==
  ASSUME Inv, NEW p \in Procs, ReplayPending(p)
  PROVE  Inv'
<1>1. PICK due \in SUBSET Keys : proc' = [proc EXCEPT ![p].todo = due]
  BY DEF ReplayPending
<1>2. TypeOK /\ proc[p] \in Proc /\ UNCHANGED <<row, applied, orphans>>
  BY DEF Inv, TypeOK, ReplayPending
<1>3. [proc[p] EXCEPT !.todo = due] \in Proc
  BY <1>2 DEF Proc
<1>4. proc' = [proc EXCEPT ![p] = [proc[p] EXCEPT !.todo = due]]
  BY <1>1
<1>5. TypeOK'
  BY <1>2, <1>3, <1>4 DEF TypeOK
<1>6. \A q \in Procs, j \in Keys : (Calls(q, j)' <=> Calls(q, j)) /\ proc'[q].acted = proc[q].acted
  BY <1>2, <1>4 DEF Calls, TypeOK, Proc
<1>7. \A j \in Keys : KeyInv(j)'
  BY <1>2, <1>6, Untouched DEF Inv
<1>8. QED
  BY <1>5, <1>7 DEF Inv

\* execute and replayPending take an operation up in the same way.
LEMMA Taking ==
  ASSUME Inv, NEW p \in Procs, (\E k \in Keys : Execute(p, k)) \/ ReplayNext(p)
  PROVE  \E k \in Keys, todo \in SUBSET Keys :
           proc[p].pc = "idle" /\ Take(p, k, todo) /\ UNCHANGED <<applied, orphans>>
<1>1. CASE \E k \in Keys : Execute(p, k)
  BY <1>1 DEF Execute
<1>2. CASE ReplayNext(p)
  <2>1. proc[p].todo \in SUBSET Keys
    BY DEF Inv, TypeOK, Proc
  <2>2. PICK k \in proc[p].todo : Take(p, k, proc[p].todo \ {k})
    BY <1>2 DEF ReplayNext
  <2>3. QED
    BY <1>2, <2>1, <2>2 DEF ReplayNext
<1>3. QED
  BY <1>1, <1>2

LEMMA PolicyInit == Init => Inv
<1> SUFFICES ASSUME Init PROVE Inv
  OBVIOUS
<1>1. NoRow \in Row /\ RowInv(NoRow)
  BY DEF NoRow, Row, Outcome, RowInv
<1>2. /\ row = [k \in Keys |-> NoRow] /\ applied = [k \in Keys |-> 0] /\ orphans = [k \in Keys |-> 0]
      /\ proc \in [Procs -> Proc] /\ \A p \in Procs : proc[p].pc = "idle"
  <2>1. PICK k \in Keys : proc = [p \in Procs |->
                [pc |-> "idle", key |-> k, tries |-> 0, acted |-> FALSE, lost |-> FALSE,
                 told |-> "nothing", todo |-> {}]]
    BY DEF Init
  <2> DEFINE idle == [pc |-> "idle", key |-> k, tries |-> 0, acted |-> FALSE, lost |-> FALSE,
                      told |-> "nothing", todo |-> {}]
  <2>2. idle \in Proc /\ idle.pc = "idle"
    BY DEF Proc
  <2>3. proc = [p \in Procs |-> idle]
    BY <2>1
  <2> HIDE DEF idle
  <2>4. QED
    BY <2>2, <2>3 DEF Init
<1>3. TypeOK
  BY <1>1, <1>2 DEF TypeOK
<1>4. ASSUME NEW k \in Keys PROVE KeyInv(k)
  <2>1. row[k] = NoRow /\ applied[k] = 0 /\ orphans[k] = 0
    BY <1>2
  <2>2. \A p \in Procs : ~Calls(p, k)
    BY <1>2 DEF Calls
  <2>3. row[k].status = "none" /\ RowInv(row[k])
    BY <1>1, <2>1 DEF NoRow
  <2>4. QED
    BY <2>1, <2>2, <2>3 DEF KeyInv, Quiet, Calls
<1>5. QED
  BY <1>3, <1>4 DEF Inv

LEMMA StepKeeps ==
  ASSUME Inv, NEW p \in Procs, Step(p)
  PROVE  Inv'
<1>1. CASE (\E k \in Keys : Execute(p, k)) \/ ReplayNext(p)
  BY <1>1, Taking, TakeStep
<1>2. CASE ReplayPending(p)
  BY <1>2, ReplayPendingStep
<1>3. CASE Heartbeat(p)
  BY <1>3, HeartbeatStep
<1>4. ASSUME NEW o \in Outcome, NEW store \in {"said", "unsaid", "refused"}, NEW replay \in BOOLEAN,
             Answer(p, o, store, replay)
      PROVE  Inv'
  BY <1>4, AnswerStep
<1>5. QED
  BY <1>1, <1>2, <1>3, <1>4 DEF Step

LEMMA PolicyNext == Inv /\ [Next]_vars => Inv'
<1> SUFFICES ASSUME Inv, [Next]_vars PROVE Inv'
  OBVIOUS
<1>1. ASSUME NEW p \in Procs, Step(p) \/ Act(p) \/ Crash(p) PROVE Inv'
  BY <1>1, StepKeeps, ActStep, CrashStep
<1>2. ASSUME NEW k \in Keys, OrphanActs(k) PROVE Inv'
  BY <1>2, OrphanActsStep
<1>3. CASE Elapse
  BY <1>3, ElapseStep
<1>4. CASE UNCHANGED vars
  <2>1. TypeOK'
    BY <1>4 DEF vars, Inv, TypeOK
  <2>2. \A k \in Keys : KeyInv(k)'
    BY <1>4, Untouched DEF vars, Inv, Calls
  <2>3. QED
    BY <2>1, <2>2 DEF Inv
<1>5. QED
  BY <1>1, <1>2, <1>3, <1>4 DEF Next

LEMMA InvAlways == Spec => []Inv
  BY PolicyInit, PolicyNext, PTL DEF Spec

\* Rows and executions keep their types.
THEOREM PolicyTypes == Spec => []TypeOK
  BY InvAlways, PTL DEF Inv

\* However leases run out, calls outlive those who wait for them and processes die,
\* an effect happens at most once.
THEOREM AtMostOnce == Spec => []EffectAtMostOnce
<1>1. Inv => EffectAtMostOnce
  <2> SUFFICES ASSUME Inv, NEW k \in Keys PROVE applied[k] <= 1
    BY DEF EffectAtMostOnce
  <2>1. applied[k] \in Nat /\ orphans[k] \in Nat
    BY DEF Inv, TypeOK
  <2>2. applied[k] + orphans[k] <= 1
    BY DEF Inv, KeyInv
  <2>3. QED
    BY <2>1, <2>2
<1>2. QED
  BY <1>1, InvAlways, PTL

\* Where the row says that the effect has not happened, it has not, and nobody is
\* about to make it happen.
THEOREM KnownNotExecuted == Spec => []NotExecutedIsKnown
<1>1. Inv => NotExecutedIsKnown
  BY DEF Inv, KeyInv, NotExecutedIsKnown
<1>2. QED
  BY <1>1, InvAlways, PTL

-----------------------------------------------------------------------------
(* What a step can do to a row, and what it may say of it.                  *)

\* One row is claimed, renewed, settled or left alone.
RowEffect ==
  /\ UNCHANGED applied
  /\ \E k \in Keys :
       /\ \A j \in Keys \ {k} : row'[j] = row[j]
       /\ \/ row'[k] = row[k]
          \/ Claimable(row[k]) /\ row'[k].status = "in_progress"
          \/ Running(row[k]) /\ row'[k].status \in {"in_progress", "executed", "failed"}

\* What an execution reports, the row says as well.
SaysSo(p) ==
  proc'[p].told # proc[p].told /\ proc'[p].told \in {"executed", "not_executed"}
    => row'[proc'[p].key].outcome = proc'[p].told

Telling == \A p \in Procs : SaysSo(p)

LEMMA TakeEffect ==
  ASSUME Inv, NEW p \in Procs, NEW k \in Keys, NEW todo \in SUBSET Keys,
         Take(p, k, todo), UNCHANGED <<applied, orphans>>
  PROVE  RowEffect /\ Telling
<1>1. row \in [Keys -> Row] /\ proc \in [Procs -> Proc] /\ RowInv(row[k])
  BY DEF Inv, TypeOK, KeyInv
<1>2. CASE Claimable(row[k])
  <2>1. /\ row' = [row EXCEPT ![k] = Claimed(p, row[k])]
        /\ \A q \in Procs \ {p} : proc'[q] = proc[q]
        /\ proc'[p].told = "nothing"
    BY <1>1, <1>2 DEF Take
  <2>2. row'[k].status = "in_progress"
    BY <1>1, <2>1 DEF Claimed
  <2>3. QED
    BY <1>1, <1>2, <2>1, <2>2 DEF RowEffect, Telling, SaysSo
<1>3. CASE ~Claimable(row[k])
  <2>1. /\ row' = [row EXCEPT ![k] = IF Running(row[k]) /\ row[k].left = 0 THEN Outrun(row[k]) ELSE row[k]]
        /\ \A q \in Procs \ {p} : proc'[q] = proc[q]
        /\ proc'[p].told = Declined(row[k]) /\ proc'[p].key = k
    BY <1>1, <1>3 DEF Take
  <2>2. RowEffect
    BY <1>1, <2>1 DEF RowEffect, Outrun
  <2>3. Declined(row[k]) \in {"executed", "not_executed"} => row'[k].outcome = Declined(row[k])
    BY <1>1, <2>1 DEF Declined, Running, RowInv
  <2>4. QED
    BY <2>1, <2>2, <2>3 DEF Telling, SaysSo
<1>4. QED
  BY <1>2, <1>3

LEMMA AnswerEffect ==
  ASSUME Inv, NEW p \in Procs, NEW outcome \in Outcome, NEW store \in {"said", "unsaid", "refused"},
         NEW replay \in BOOLEAN, Answer(p, outcome, store, replay)
  PROVE  RowEffect /\ Telling
<1>0. PICK k \in Keys : k = proc[p].key
  BY DEF Inv, TypeOK, Proc
<1>1. /\ row \in [Keys -> Row] /\ proc \in [Procs -> Proc] /\ TypeOK /\ UNCHANGED applied
      /\ outcome \in {"executed", "not_executed", "unknown"}
  BY DEF Inv, TypeOK, Answer, Answers
<1>2. CASE CallsAgain(p, outcome)
  <2>1. proc' = [proc EXCEPT ![p].tries = @ + 1, ![p].acted = FALSE] /\ UNCHANGED row
    BY <1>2 DEF Answer
  <2>2. \A q \in Procs : proc'[q].told = proc[q].told
    BY <1>1, <2>1 DEF Proc
  <2>3. QED
    BY <1>1, <2>1, <2>2 DEF RowEffect, Telling, SaysSo
<1>3. CASE ~CallsAgain(p, outcome)
  <2> DEFINE finish == /\ ~(outcome = "executed" /\ proc[p].lost)
                       /\ store # "refused" /\ MaySettle(p, row[k])
             told == IF finish /\ store = "said" THEN outcome ELSE "unknown"
  <2>1. /\ proc' = Returned(p, told)
        /\ row' = IF finish THEN [row EXCEPT ![k] = Settled(outcome, replay)] ELSE row
    BY <1>0, <1>3 DEF Answer
  <2>2. told \in {"nothing", "executed", "not_executed", "unknown", "in_progress"}
    BY <1>1
  <2>3. /\ proc'[p].told = told /\ proc'[p].key = k /\ \A q \in Procs \ {p} : proc'[q] = proc[q]
    BY <1>0, <1>1, <2>1, <2>2, IdleProc
  <2>4. finish => /\ Running(row[k]) /\ row'[k].status \in {"executed", "failed"}
                  /\ row'[k].outcome = outcome /\ \A j \in Keys \ {k} : row'[j] = row[j]
    BY <1>1, <2>1, SettledRow DEF MaySettle, Owns
  <2>5. ~finish => row' = row /\ told = "unknown"
    BY <2>1
  <2>6. finish => told \in {outcome, "unknown"}
    OBVIOUS
  <2> HIDE DEF finish, told
  <2>7. RowEffect
    BY <1>1, <2>4, <2>5 DEF RowEffect
  <2>8. told \in {"executed", "not_executed"} => row'[k].outcome = told
    BY <2>4, <2>5, <2>6
  <2>9. QED
    BY <2>3, <2>7, <2>8 DEF Telling, SaysSo
<1>4. QED
  BY <1>2, <1>3

LEMMA OtherEffect ==
  ASSUME Inv, NEW p \in Procs, ReplayPending(p) \/ Heartbeat(p) \/ Crash(p)
  PROVE  RowEffect /\ Telling
<1>0. PICK k \in Keys : k = proc[p].key
  BY DEF Inv, TypeOK, Proc
<1>1. row \in [Keys -> Row] /\ proc \in [Procs -> Proc]
  BY DEF Inv, TypeOK
<1>2. UNCHANGED applied
  BY DEF ReplayPending, Heartbeat, Crash
<1>3. CASE Heartbeat(p) /\ Owns(p, row[k]) /\ row' = [row EXCEPT ![k].left = LeaseMs] /\ UNCHANGED proc
  <2>1. row'[k].status = "in_progress" /\ Running(row[k]) /\ \A j \in Keys \ {k} : row'[j] = row[j]
    BY <1>1, <1>3 DEF Owns, Running, Row
  <2>2. QED
    BY <1>2, <1>3, <2>1 DEF RowEffect, Telling, SaysSo
<1>4. CASE UNCHANGED row /\ \A q \in Procs : proc'[q].told \in {proc[q].told, "nothing"}
  BY <1>0, <1>2, <1>4 DEF RowEffect, Telling, SaysSo
<1>5. CASE Heartbeat(p) /\ proc' = [proc EXCEPT ![p].lost = TRUE] /\ UNCHANGED row
  <2>1. \A q \in Procs : proc'[q].told = proc[q].told
    BY <1>1, <1>5 DEF Proc
  <2>2. QED
    BY <1>4, <1>5, <2>1
<1>6. CASE ReplayPending(p)
  <2>1. PICK due \in SUBSET Keys : proc' = [proc EXCEPT ![p].todo = due]
    BY <1>6 DEF ReplayPending
  <2>2. \A q \in Procs : proc'[q].told = proc[q].told
    BY <1>1, <2>1 DEF Proc
  <2>3. QED
    BY <1>4, <1>6, <2>2 DEF ReplayPending
<1>7. CASE Crash(p)
  <2>1. /\ UNCHANGED row
        /\ proc' = [proc EXCEPT ![p].pc = "idle", ![p].told = "nothing", ![p].todo = {},
                                ![p].tries = 0, ![p].acted = FALSE, ![p].lost = FALSE]
    BY <1>7 DEF Crash
  <2>2. \A q \in Procs : proc'[q].told \in {proc[q].told, "nothing"}
    BY <1>1, <2>1 DEF Proc
  <2>3. QED
    BY <1>4, <2>1, <2>2
<1>8. QED
  BY <1>0, <1>3, <1>5, <1>6, <1>7 DEF Heartbeat

\* A step of an execution, short of the external system's.
LEMMA StepEffect ==
  ASSUME Inv, NEW p \in Procs, Step(p) \/ Crash(p)
  PROVE  RowEffect /\ Telling
<1>1. CASE (\E k \in Keys : Execute(p, k)) \/ ReplayNext(p)
  BY <1>1, Taking, TakeEffect
<1>2. CASE ReplayPending(p) \/ Heartbeat(p) \/ Crash(p)
  BY <1>2, OtherEffect
<1>3. ASSUME NEW o \in Outcome, NEW store \in {"said", "unsaid", "refused"}, NEW replay \in BOOLEAN,
             Answer(p, o, store, replay)
      PROVE  RowEffect /\ Telling
  BY <1>3, AnswerEffect
<1>4. QED
  BY <1>1, <1>2, <1>3 DEF Step

\* The external system says nothing and writes no row.
LEMMA ActEffect ==
  ASSUME Inv, (\E p \in Procs : Act(p)) \/ (\E k \in Keys : OrphanActs(k)) \/ Elapse \/ UNCHANGED vars
  PROVE  \A p \in Procs : proc'[p].told = proc[p].told
<1>1. proc \in [Procs -> Proc]
  BY DEF Inv, TypeOK
<1>2. ASSUME NEW p \in Procs, Act(p) PROVE \A q \in Procs : proc'[q].told = proc[q].told
  <2>1. proc' = [proc EXCEPT ![p] = [proc[p] EXCEPT !.acted = TRUE]]
    BY <1>2 DEF Act
  <2>2. [proc[p] EXCEPT !.acted = TRUE].told = proc[p].told
    BY <1>1 DEF Proc
  <2>3. QED
    BY <1>1, <2>1, <2>2
<1>3. QED
  BY <1>2 DEF OrphanActs, Elapse, vars

\* What an execution returns is so at the moment it returns.
THEOREM ReportsAreSo == Spec => ReportsAreTrue
<1> DEFINE So == \A p \in Procs, k \in Keys :
                   proc'[p].told # proc[p].told /\ proc'[p].key = k =>
                     /\ proc'[p].told = "executed" => applied'[k] = 1
                     /\ proc'[p].told = "not_executed" => applied'[k] = 0 /\ Quiet(k)'
<1>1. Inv /\ Inv' /\ [Next]_vars => [So]_vars
  <2> SUFFICES ASSUME Inv, Inv', [Next]_vars, NEW p \in Procs, NEW k \in Keys,
                      proc'[p].told # proc[p].told, proc'[p].key = k
               PROVE  /\ proc'[p].told = "executed" => applied'[k] = 1
                      /\ proc'[p].told = "not_executed" => applied'[k] = 0 /\ Quiet(k)'
    OBVIOUS
  <2>1. Telling
    BY StepEffect, ActEffect DEF Next
  <2>2. proc'[p].told \in {"executed", "not_executed"} => row'[k].outcome = proc'[p].told
    BY <2>1 DEF Telling, SaysSo
  <2>3. KeyInv(k)'
    BY DEF Inv
  <2>4. QED
    BY <2>2, <2>3 DEF KeyInv, RowInv
<1>2. QED
  BY <1>1, InvAlways, PTL DEF Spec, ReportsAreTrue

\* What is settled for good stays settled.
THEOREM DeadRowsStay == Spec => DeadStays
<1> DEFINE Stays == \A k \in Keys : row[k].status = "executed" \/ row[k].dead => row'[k] = row[k]
<1>1. Inv /\ [Next]_vars => [Stays]_vars
  <2> SUFFICES ASSUME Inv, [Next]_vars PROVE Stays
    OBVIOUS
  <2>1. \A k \in Keys : RowInv(row[k])
    BY DEF Inv, KeyInv
  <2>2. RowEffect => Stays
    BY <2>1 DEF RowEffect, Claimable, Running, RowInv
  <2>3. Elapse => Stays
    BY ElapseStep
  <2>4. (\E p \in Procs : Act(p)) \/ (\E k \in Keys : OrphanActs(k)) \/ UNCHANGED vars => Stays
    BY DEF Act, OrphanActs, vars
  <2>5. QED
    BY <2>2, <2>3, <2>4, StepEffect DEF Next
<1>2. QED
  BY <1>1, InvAlways, PTL DEF Spec, DeadStays

-----------------------------------------------------------------------------
(* The executor implements EffectOnce.                                      *)

Happened == [k \in Keys |-> applied[k] > 0]

LEMMA HappenedMeans ==
  /\ \A k \in Keys : Happened[k] = (applied[k] > 0)
  /\ Happened = [k \in Keys |-> Happened[k]]
  BY Zenon DEF Happened

LEMMA HappenedNext ==
  /\ \A k \in Keys : Happened'[k] = (applied'[k] > 0)
  /\ Happened' = [k \in Keys |-> Happened'[k]]
  BY Zenon DEF Happened

\* What a row's verdict is.
Reads(k) == /\ row[k].status = "none" => Verdict[k] = "not_executed"
            /\ row[k].status = "in_progress" => Verdict[k] = "open"
            /\ row[k].status \in {"executed", "failed"} =>
                 /\ Verdict[k] = row[k].outcome
                 /\ row[k].outcome \in {"executed", "not_executed", "unknown"}

LEMMA Verdicts == Inv => \A k \in Keys : Reads(k)
<1> SUFFICES ASSUME Inv, NEW k \in Keys PROVE Reads(k)
  OBVIOUS
<1>1. row[k] \in Row /\ RowInv(row[k])
  BY DEF Inv, TypeOK, KeyInv
<1>2. QED
  BY <1>1 DEF Verdict, Row, Outcome, RowInv, Reads

LEMMA VerdictsNext == Inv' => (\A k \in Keys : Reads(k))'
  BY Verdicts, PTL

\* A row that is claimed, renewed or settled.
LEMMA RowImplements ==
  ASSUME Inv, Inv', RowEffect
  PROVE  [Effect!Next]_<<Verdict, Happened>>
<1>0. \A k \in Keys : Reads(k) /\ Reads(k)'
  BY Verdicts, VerdictsNext
<1>1. UNCHANGED Happened
  BY DEF RowEffect, Happened
<1>2. PICK k \in Keys :
        /\ \A j \in Keys \ {k} : row'[j] = row[j]
        /\ \/ row'[k] = row[k]
           \/ Claimable(row[k]) /\ row'[k].status = "in_progress"
           \/ Running(row[k]) /\ row'[k].status \in {"in_progress", "executed", "failed"}
  BY DEF RowEffect
<1>3. Verdict' = [Verdict EXCEPT ![k] = Verdict'[k]]
  <2>1. \A j \in Keys \ {k} : Verdict'[j] = Verdict[j]
    BY <1>2 DEF Verdict
  <2>2. Verdict = [j \in Keys |-> Verdict[j]] /\ Verdict' = [j \in Keys |-> Verdict'[j]]
    BY DEF Verdict
  <2>3. QED
    BY <2>1, <2>2
<1>4. CASE Verdict'[k] = Verdict[k]
  <2>1. Verdict = [j \in Keys |-> Verdict[j]] /\ Verdict' = [j \in Keys |-> Verdict'[j]]
    BY DEF Verdict
  <2>2. \A j \in Keys : Verdict'[j] = Verdict[j]
    BY <1>2, <1>4 DEF Verdict
  <2>3. Verdict' = Verdict
    BY <2>1, <2>2
  <2>4. QED
    BY <1>1, <2>3
<1>5. CASE Claimable(row[k]) /\ row'[k].status = "in_progress"
  <2>1. Verdict[k] = "not_executed"
    BY <1>0, <1>5 DEF Reads, Claimable, Inv, KeyInv, RowInv
  <2>2. Verdict'[k] = "open"
    BY <1>0, <1>5 DEF Reads
  <2>3. Effect!Open(k)
    BY <1>1, <1>3, <2>1, <2>2 DEF Effect!Open, Happened
  <2>4. QED
    BY <2>3 DEF Effect!Next
<1>6. CASE Running(row[k]) /\ row'[k].status = "in_progress"
  BY <1>0, <1>4, <1>6 DEF Running, Reads
<1>7. CASE Running(row[k]) /\ row'[k].status \in {"executed", "failed"}
  <2>1. Verdict[k] = "open"
    BY <1>0, <1>7 DEF Running, Reads
  <2>2. Verdict'[k] = row'[k].outcome /\ Verdict'[k] \in Effect!Verdicts \ {"open"}
    BY <1>0, <1>7 DEF Effect!Verdicts, Reads
  <2>3. KeyInv(k)' /\ applied' = applied
    BY DEF Inv, RowEffect
  <2>4. /\ Verdict'[k] = "executed" => applied[k] = 1
        /\ Verdict'[k] = "not_executed" => applied[k] = 0
    BY <2>2, <2>3 DEF KeyInv, RowInv
  <2>5. /\ Verdict'[k] = "executed" => Happened[k]
        /\ Verdict'[k] = "not_executed" => ~Happened[k]
    <3>1. CASE applied[k] = 1
      <4>1. applied[k] > 0
        BY <3>1
      <4>2. Happened[k]
        BY <4>1, HappenedMeans, Zenon
      <4>3. Verdict'[k] # "not_executed"
        BY <2>4, <3>1
      <4>4. QED
        BY <4>2, <4>3
    <3>2. CASE applied[k] = 0
      <4>1. ~(applied[k] > 0)
        BY <3>2
      <4>2. ~Happened[k]
        BY <4>1, HappenedMeans, Zenon
      <4>3. Verdict'[k] # "executed"
        BY <2>4, <3>2
      <4>4. QED
        BY <4>2, <4>3
    <3>3. QED
      BY <2>4, <3>1, <3>2
  <2>6. Effect!Settle(k)
    BY <1>1, <1>3, <2>1, <2>2, <2>5 DEF Effect!Settle, Happened
  <2>7. QED
    BY <2>6 DEF Effect!Next
<1>8. QED
  BY <1>2, <1>4, <1>5, <1>6, <1>7 DEF Verdict

\* The effect of a call, whoever waits for it.
LEMMA EffectImplements ==
  ASSUME Inv, NEW k \in Keys, UNCHANGED row, applied[k] = 0, ~Quiet(k),
         applied' = [applied EXCEPT ![k] = 1]
  PROVE  [Effect!Next]_<<Verdict, Happened>>
<1>1. KeyInv(k) /\ applied \in [Keys -> Nat]
  BY DEF Inv, TypeOK
<1>2. Verdict[k] \in {"open", "unknown"}
  <2>1. Reads(k) /\ row[k].status \in {"none", "in_progress", "executed", "failed"}
    BY <1>1, Verdicts DEF TypeOK, Row, Inv
  <2>2. /\ row[k].outcome # "not_executed" /\ row[k].status # "none" /\ row[k].status # "executed"
        /\ row[k].outcome # "executed"
    BY <1>1 DEF KeyInv, RowInv
  <2>3. QED
    BY <2>1, <2>2 DEF Reads
<1>3. UNCHANGED Verdict
  BY DEF Verdict
<1>4. ~Happened[k] /\ Happened' = [Happened EXCEPT ![k] = TRUE]
  <2>1. \A j \in Keys \ {k} : applied'[j] = applied[j]
    BY <1>1
  <2>2. applied'[k] = 1
    BY <1>1
  <2>3. Happened'[k] = TRUE /\ \A j \in Keys \ {k} : Happened'[j] = Happened[j]
    <3>1. applied'[k] > 0
      BY <2>2
    <3>2. Happened'[k] = TRUE
      BY <3>1, HappenedNext, Zenon
    <3>3. \A j \in Keys \ {k} : Happened'[j] = Happened[j]
      <4> TAKE j \in Keys \ {k}
      <4>1. applied'[j] = applied[j] /\ j \in Keys
        BY <2>1
      <4>2. Happened'[j] = (applied'[j] > 0) /\ Happened[j] = (applied[j] > 0)
        BY <4>1, HappenedMeans, HappenedNext, Zenon
      <4>3. QED
        BY <4>1, <4>2, Zenon
    <3>4. QED
      BY <3>2, <3>3
  <2>4. Happened = [j \in Keys |-> Happened[j]] /\ Happened' = [j \in Keys |-> Happened'[j]]
    BY HappenedMeans, HappenedNext
  <2>5. ~Happened[k]
    <3>1. ~(applied[k] > 0)
      OBVIOUS
    <3>2. QED
      BY <3>1, HappenedMeans, Zenon
  <2>6. QED
    BY <2>3, <2>4, <2>5, Zenon
<1>5. Effect!Happen(k)
  BY <1>2, <1>3, <1>4 DEF Effect!Happen, Happened
<1>6. QED
  BY <1>5 DEF Effect!Next

\* With leases, retries and crashes hidden, the executor does what EffectOnce allows.
THEOREM EffectsOnce == Spec => ImplementsEffectOnce
<1>1. Init => Effect!Init
  <2> SUFFICES ASSUME Init PROVE Effect!Init
    OBVIOUS
  <2>1. \A k \in Keys : row[k].status = "none" /\ applied[k] = 0
    BY DEF Init, NoRow
  <2>2. \A k \in Keys : Verdict[k] = "not_executed"
    BY <2>1 DEF Verdict
  <2>3. Verdict = [k \in Keys |-> "not_executed"]
    <3>1. Verdict = [k \in Keys |-> Verdict[k]]
      BY DEF Verdict
    <3>2. QED
      BY <2>2, <3>1
  <2>4. ASSUME NEW k \in Keys PROVE (applied[k] > 0) = FALSE
    <3>1. applied[k] = 0
      BY <2>1
    <3>2. (0 > 0) = FALSE
      OBVIOUS
    <3>3. QED
      BY <3>1, <3>2, Zenon
  <2>5. Happened = [k \in Keys |-> FALSE]
    BY <2>4, Zenon DEF Happened
  <2>6. QED
    BY <2>3, <2>5 DEF Effect!Init, Happened
<1>2. Inv /\ Inv' /\ [Next]_vars => [Effect!Next]_<<Verdict, Happened>>
  <2> SUFFICES ASSUME Inv, Inv', [Next]_vars PROVE [Effect!Next]_<<Verdict, Happened>>
    OBVIOUS
  <2>1. ASSUME NEW p \in Procs, Step(p) \/ Crash(p) PROVE [Effect!Next]_<<Verdict, Happened>>
    BY <2>1, StepEffect, RowImplements
  <2>2. ASSUME NEW p \in Procs, Act(p) PROVE [Effect!Next]_<<Verdict, Happened>>
    <3>1. PICK k \in Keys : k = proc[p].key
      BY DEF Inv, TypeOK, Proc
    <3>2. /\ KeyInv(k) /\ Calls(p, k) /\ ~proc[p].acted /\ UNCHANGED row
          /\ applied' = [applied EXCEPT ![k] = applied[k] + 1]
      BY <2>2, <3>1 DEF Inv, Act, Calls
    <3>3. applied[k] = 0 /\ ~Quiet(k)
      BY <3>2 DEF KeyInv, Quiet, Calls
    <3>4. applied' = [applied EXCEPT ![k] = 1]
      BY <3>2, <3>3
    <3>5. QED
      BY <3>2, <3>3, <3>4, EffectImplements
  <2>3. ASSUME NEW k \in Keys, OrphanActs(k) PROVE [Effect!Next]_<<Verdict, Happened>>
    <3>1. /\ KeyInv(k) /\ orphans[k] > 0 /\ orphans[k] \in Nat /\ applied[k] \in Nat /\ UNCHANGED row
          /\ applied' = [applied EXCEPT ![k] = applied[k] + 1]
      BY <2>3 DEF Inv, TypeOK, OrphanActs
    <3>2. applied[k] = 0 /\ ~Quiet(k)
      BY <3>1 DEF KeyInv, Quiet
    <3>3. applied' = [applied EXCEPT ![k] = 1]
      BY <3>1, <3>2
    <3>4. QED
      BY <3>1, <3>2, <3>3, EffectImplements
  <2>4. CASE Elapse
    <3>1. UNCHANGED applied /\ \A k \in Keys : row'[k].status = row[k].status /\ row'[k].outcome = row[k].outcome
      BY <2>4, ElapseStep DEF Elapse
    <3>2. UNCHANGED <<Verdict, Happened>>
      BY <3>1 DEF Verdict, Happened
    <3>3. QED
      BY <3>2
  <2>5. CASE UNCHANGED vars
    BY <2>5 DEF vars, Verdict, Happened
  <2>6. QED
    BY <2>1, <2>2, <2>3, <2>4, <2>5 DEF Next
<1>3. QED
  BY <1>1, <1>2, InvAlways, PTL DEF Spec, ImplementsEffectOnce, Effect!Spec, Happened

-----------------------------------------------------------------------------
(* The audit and its projection.                                             *)

\* A row in the hands of a flusher was not given up, and what it deletes is in the log.
FlushInv ==
  /\ \A r \in outbox : /\ ~r.dead => r.attempts < MaxAttempts
                       /\ r.record.version <= command[r.record.key]
  /\ \A f \in Flushers : \A r \in flush[f].rows \cup flush[f].row : r.attempts < MaxAttempts
  /\ \A f \in Flushers : \A r, s \in flush[f].row : r = s
  /\ \A f \in Flushers : flush[f].pc = "delete" => \A r \in flush[f].row : Audit!InLog(r.record)

\* What a table shows is what its events say; it has the events up to n.
Shows(table) == \A k \in Keys : table[k].seq > 0 =>
                  table[k].seq <= Len(log) /\ log[table[k].seq] = [key |-> k, version |-> table[k].version]
Covers(table, n) == \A k \in Keys : \A i \in 1..n : log[i].key = k => i <= table[k].seq

\* Where the projector is: what a rebuild will publish has every event the readers see.
ReadInv ==
  /\ Shows(model) /\ Shows(proj.stage)
  /\ ckpt.status = "ready" => Covers(model, ckpt.seq)
  /\ proj.pc \in {"replay", "rebuild"} => proj.cursor <= proj.through
  /\ proj.pc = "replay" => Covers(model, proj.cursor)
  /\ proj.pc = "rebuild" => Covers(proj.stage, proj.cursor) /\ \A k \in Keys : model[k].seq <= proj.through
  /\ proj.pc = "checkpoint" => Covers(model, proj.through)

AuditInv == Audit!TypeOK /\ FlushInv /\ Audit!RecordedOnce /\ Audit!AuditKept /\ ReadInv

LEMMA AuditInit == Audit!Init => AuditInv
<1> SUFFICES ASSUME Audit!Init PROVE AuditInv
  OBVIOUS
<1>1. Audit!TypeOK
  BY Projecting DEF Audit!Init, Audit!TypeOK, Audit!ProjectionAssumption, Audit!Away, Audit!Rest, Audit!Unshown, Audit!Shown
<1>2. FlushInv /\ Audit!RecordedOnce /\ Audit!AuditKept
  BY DEF Audit!Init, FlushInv, Audit!RecordedOnce, Audit!AuditKept, Audit!Away
<1>3. ReadInv
  BY DEF Audit!Init, ReadInv, Shows, Covers, Audit!Rest, Audit!Unshown
<1>4. QED
  BY <1>1, <1>2, <1>3 DEF AuditInv

-----------------------------------------------------------------------------
(* The outbox and its flushers.                                              *)

Projector == <<model, ckpt, proj>>

\* What a log that only grows leaves to the projector.
LEMMA LogGrows ==
  ASSUME Audit!TypeOK, ReadInv, UNCHANGED Projector,
         UNCHANGED log \/ \E r \in Audit!Record : log' = Append(log, r)
  PROVE  /\ ReadInv' /\ log' \in Seq(Audit!Record)
         /\ model' \in [Keys -> Audit!Shown]
         /\ ckpt' \in [status : {"none", "building", "ready"}, seq : 0..Len(log')]
         /\ proj' \in [pc : {"away", "replay", "rebuild", "checkpoint"}, stage : [Keys -> Audit!Shown],
                       cursor : 0..Len(log'), through : 0..Len(log')]
<1>1. /\ log' \in Seq(Audit!Record) /\ Len(log) <= Len(log') /\ Len(log) \in Nat /\ Len(log') \in Nat
      /\ \A i \in 1..Len(log) : log'[i] = log[i]
  <2>1. log \in Seq(Audit!Record)
    BY DEF Audit!TypeOK
  <2>2. CASE UNCHANGED log
    BY <2>1, <2>2
  <2>3. ASSUME NEW r \in Audit!Record, log' = Append(log, r)
        PROVE  /\ log' \in Seq(Audit!Record) /\ Len(log') = Len(log) + 1 /\ Len(log) \in Nat
               /\ \A i \in 1..Len(log) : log'[i] = log[i]
    BY <2>1, <2>3, AppendProperties
  <2>4. QED
    BY <2>2, <2>3
<1>2. ckpt.seq \in 0..Len(log) /\ proj.cursor \in 0..Len(log) /\ proj.through \in 0..Len(log)
  BY DEF Audit!TypeOK
<1>3. \A table \in [Keys -> Audit!Shown] : Shows(table) => Shows(table)'
  <2> SUFFICES ASSUME NEW table \in [Keys -> Audit!Shown], Shows(table) PROVE Shows(table)'
    OBVIOUS
  <2>1. \A k \in Keys : table[k].seq \in Nat
    BY DEF Audit!Shown
  <2>2. QED
    BY <1>1, <2>1 DEF Shows
<1>4. \A table : \A n \in 0..Len(log) : Covers(table, n) => Covers(table, n)'
  BY <1>1 DEF Covers
<1>5. model \in [Keys -> Audit!Shown] /\ proj.stage \in [Keys -> Audit!Shown]
  BY DEF Audit!TypeOK
<1>6. Shows(model)' /\ Shows(proj.stage)'
  BY <1>3, <1>5 DEF ReadInv, Projector, Shows
<1>8. /\ Covers(model, ckpt.seq) => Covers(model, ckpt.seq)'
      /\ Covers(model, proj.cursor) => Covers(model, proj.cursor)'
      /\ Covers(model, proj.through) => Covers(model, proj.through)'
      /\ Covers(proj.stage, proj.cursor) => Covers(proj.stage, proj.cursor)'
  BY <1>2, <1>1 DEF Projector, Covers
<1>9. ReadInv'
  BY <1>6, <1>8 DEF ReadInv, Projector
<1>7. QED
  BY <1>1, <1>2, <1>9 DEF Audit!TypeOK, Projector

LEMMA LogKeeps ==
  ASSUME Audit!TypeOK, UNCHANGED log \/ \E r \in Audit!Record : log' = Append(log, r), NEW x, Audit!InLog(x)
  PROVE  Audit!InLog(x)'
<1>1. log \in Seq(Audit!Record)
  BY DEF Audit!TypeOK
<1>2. CASE UNCHANGED log
  BY <1>2 DEF Audit!InLog
<1>3. ASSUME NEW r \in Audit!Record, log' = Append(log, r) PROVE Audit!InLog(x)'
  <2>1. /\ Len(log') = Len(log) + 1 /\ Len(log) \in Nat
        /\ \A i \in 1..Len(log) : log'[i] = log[i]
    BY <1>1, <1>3, AppendProperties
  <2>2. QED
    BY <2>1 DEF Audit!InLog
<1>4. QED
  BY <1>2, <1>3

FlushType == [pc : {"away", "scan", "look", "append", "delete"},
              rows : SUBSET Audit!OutboxRow, row : SUBSET Audit!OutboxRow]

\* What becomes of one flusher: its rows were not given up, and it deletes what is in the log.
LEMMA FlusherMoves ==
  ASSUME AuditInv, NEW f \in Flushers, NEW new \in FlushType, flush' = [flush EXCEPT ![f] = new],
         UNCHANGED log \/ \E r \in Audit!Record : log' = Append(log, r),
         \A r \in new.rows \cup new.row : r.attempts < MaxAttempts, \A r, s \in new.row : r = s,
         new.pc = "delete" => \A r \in new.row : Audit!InLog(r.record)'
  PROVE  /\ flush' \in [Flushers -> FlushType]
         /\ \A g \in Flushers : \A r \in flush'[g].rows \cup flush'[g].row : r.attempts < MaxAttempts
         /\ \A g \in Flushers : \A r, s \in flush'[g].row : r = s
         /\ \A g \in Flushers : flush'[g].pc = "delete" => \A r \in flush'[g].row : Audit!InLog(r.record)'
<1>1. flush \in [Flushers -> FlushType]
  BY DEF AuditInv, Audit!TypeOK, FlushType
<1>2. flush' \in [Flushers -> FlushType] /\ flush'[f] = new /\ \A g \in Flushers \ {f} : flush'[g] = flush[g]
  BY <1>1
<1>3. \A g \in Flushers : flush[g].pc = "delete" => \A r \in flush[g].row : Audit!InLog(r.record)'
  BY LogKeeps DEF AuditInv, FlushInv
<1>4. QED
  BY <1>2, <1>3 DEF AuditInv, FlushInv

\* A step that moves flushers only.
LEMMA OnlyFlushers ==
  ASSUME AuditInv, NEW f \in Flushers, NEW new \in FlushType, flush' = [flush EXCEPT ![f] = new],
         \A r \in new.rows \cup new.row : r.attempts < MaxAttempts, \A r, s \in new.row : r = s,
         new.pc = "delete" => \A r \in new.row : Audit!InLog(r.record),
         UNCHANGED <<command, outbox, log, model, ckpt, proj>>
  PROVE  AuditInv'
<1>1. /\ flush' \in [Flushers -> FlushType]
      /\ \A g \in Flushers : \A r \in flush'[g].rows \cup flush'[g].row : r.attempts < MaxAttempts
      /\ \A g \in Flushers : \A r, s \in flush'[g].row : r = s
      /\ \A g \in Flushers : flush'[g].pc = "delete" => \A r \in flush'[g].row : Audit!InLog(r.record)'
  <2>1. \A r : Audit!InLog(r) => Audit!InLog(r)'
    BY DEF Audit!InLog
  <2>2. new.pc = "delete" => \A r \in new.row : Audit!InLog(r.record)'
    BY <2>1
  <2>3. QED
    BY <2>2, FlusherMoves
<1>2. ReadInv'
  BY LogGrows DEF AuditInv, Projector
<1>3. Audit!TypeOK'
  BY <1>1 DEF AuditInv, Audit!TypeOK, FlushType
<1>4. FlushInv'
  BY <1>1 DEF AuditInv, FlushInv
<1>5. Audit!RecordedOnce' /\ Audit!AuditKept'
  BY DEF AuditInv, Audit!RecordedOnce, Audit!AuditKept, Audit!InLog
<1>6. QED
  BY <1>2, <1>3, <1>4, <1>5 DEF AuditInv

LEMMA QuietFlush ==
  ASSUME AuditInv, NEW f \in Flushers, Audit!Open(f) \/ Audit!Scan(f) \/ Audit!Look(f) \/ Audit!FlusherDies(f)
  PROVE  AuditInv'
<1>1. flush[f] \in FlushType /\ Audit!Away \in FlushType
  BY DEF AuditInv, Audit!TypeOK, FlushType, Audit!Away
<1>2. (\A r \in flush[f].rows \cup flush[f].row : r.attempts < MaxAttempts) /\ \A r, s \in flush[f].row : r = s
  BY DEF AuditInv, FlushInv
<1>3. CASE Audit!Open(f)
  <2> DEFINE new == [flush[f] EXCEPT !.pc = "scan"]
  <2>1. flush' = [flush EXCEPT ![f] = new] /\ UNCHANGED <<command, outbox, log, model, ckpt, proj>>
    BY <1>3 DEF Audit!Open
  <2>2. new \in FlushType /\ new.pc = "scan" /\ new.rows = flush[f].rows /\ new.row = flush[f].row
    BY <1>1 DEF FlushType
  <2> HIDE DEF new
  <2>3. /\ \A r \in new.rows \cup new.row : r.attempts < MaxAttempts
        /\ \A r, s \in new.row : r = s
        /\ new.pc # "delete"
    BY <1>2, <2>2
  <2>4. QED
    BY <2>1, <2>2, <2>3, OnlyFlushers
<1>4. CASE Audit!Scan(f)
  <2> DEFINE new == IF Audit!Due = {} THEN Audit!Away ELSE [pc |-> "look", rows |-> Audit!Due, row |-> {}]
  <2>1. flush' = [flush EXCEPT ![f] = new] /\ UNCHANGED <<command, outbox, log, model, ckpt, proj>>
    BY <1>4 DEF Audit!Scan
  <2>2. Audit!Due \subseteq Audit!OutboxRow /\ \A r \in Audit!Due : r.attempts < MaxAttempts
    BY DEF Audit!Due, AuditInv, Audit!TypeOK, FlushInv
  <2>3. /\ new \in FlushType /\ new.pc # "delete" /\ new.row = {}
        /\ \A r \in new.rows : r.attempts < MaxAttempts
    BY <1>1, <2>2 DEF FlushType, Audit!Away
  <2> HIDE DEF new
  <2>4. QED
    BY <2>1, <2>3, OnlyFlushers
<1>5. CASE Audit!Look(f)
  <2>1. PICK one \in flush[f].rows :
          flush' = [flush EXCEPT ![f] = [pc |-> IF Audit!InLog(one.record) THEN "delete" ELSE "append",
                                         rows |-> @.rows \ {one}, row |-> {one}]]
    BY <1>5 DEF Audit!Look
  <2> DEFINE new == [pc |-> IF Audit!InLog(one.record) THEN "delete" ELSE "append",
                     rows |-> flush[f].rows \ {one}, row |-> {one}]
  <2>2. flush' = [flush EXCEPT ![f] = new] /\ UNCHANGED <<command, outbox, log, model, ckpt, proj>>
    BY <1>5, <2>1 DEF Audit!Look
  <2>3. new \in FlushType
    BY <1>1 DEF FlushType
  <2>4. /\ \A r \in new.rows \cup new.row : r.attempts < MaxAttempts
        /\ \A r, s \in new.row : r = s
        /\ new.pc = "delete" => \A r \in new.row : Audit!InLog(r.record)
    BY <1>2
  <2> HIDE DEF new
  <2>5. QED
    BY <2>2, <2>3, <2>4, OnlyFlushers
<1>6. CASE Audit!FlusherDies(f)
  <2>1. flush' = [flush EXCEPT ![f] = Audit!Away] /\ UNCHANGED <<command, outbox, log, model, ckpt, proj>>
    BY <1>6 DEF Audit!FlusherDies
  <2>2. Audit!Away.pc = "away" /\ Audit!Away.rows = {} /\ Audit!Away.row = {}
    BY DEF Audit!Away
  <2>3. QED
    BY <1>1, <2>1, <2>2, OnlyFlushers
<1>7. QED
  BY <1>3, <1>4, <1>5, <1>6

\* Rows come back to the outbox with what is known of their records.
OutboxFits(some) == /\ some \subseteq Audit!OutboxRow
                    /\ \A r, s \in some : r.record = s.record => r = s
                    /\ \A r \in some : /\ ~r.dead => r.attempts < MaxAttempts
                                       /\ r.record.version <= command[r.record.key]

\* A flusher that rewrites the outbox, and keeps in it every record that is not in the log.
LEMMA Rewrites ==
  ASSUME AuditInv, NEW f \in Flushers, NEW new \in FlushType, flush' = [flush EXCEPT ![f] = new],
         \A r \in new.rows \cup new.row : r.attempts < MaxAttempts, \A r, s \in new.row : r = s,
         new.pc # "delete",
         OutboxFits(outbox'),
         \A r \in outbox : Audit!InLog(r.record) \/ \E s \in outbox' : s.record = r.record,
         UNCHANGED <<command, log, model, ckpt, proj>>
  PROVE  AuditInv'
<1>1. /\ flush' \in [Flushers -> FlushType]
      /\ \A g \in Flushers : \A r \in flush'[g].rows \cup flush'[g].row : r.attempts < MaxAttempts
      /\ \A g \in Flushers : \A r, s \in flush'[g].row : r = s
      /\ \A g \in Flushers : flush'[g].pc = "delete" => \A r \in flush'[g].row : Audit!InLog(r.record)'
  BY FlusherMoves
<1>2. ReadInv'
  BY LogGrows DEF AuditInv, Projector
<1>3. Audit!TypeOK'
  BY <1>1 DEF AuditInv, Audit!TypeOK, FlushType, OutboxFits
<1>4. FlushInv'
  BY <1>1 DEF AuditInv, FlushInv, OutboxFits
<1>5. Audit!RecordedOnce'
  BY DEF AuditInv, Audit!RecordedOnce
<1>6. Audit!AuditKept'
  BY DEF AuditInv, Audit!AuditKept, Audit!InLog
<1>7. QED
  BY <1>2, <1>3, <1>4, <1>5, <1>6 DEF AuditInv

LEMMA FitsNow == ASSUME AuditInv PROVE OutboxFits(outbox)
  BY DEF AuditInv, Audit!TypeOK, FlushInv, OutboxFits

LEMMA DeleteStep ==
  ASSUME AuditInv, NEW f \in Flushers, Audit!Delete(f)
  PROVE  AuditInv'
<1> DEFINE new == [pc |-> Audit!NextPc(flush[f].rows), rows |-> flush[f].rows, row |-> {}]
<1>1. PICK one \in flush[f].row : outbox' = Audit!Others(one)
  BY DEF Audit!Delete
<1>2. /\ flush' = [flush EXCEPT ![f] = new] /\ UNCHANGED <<command, log, model, ckpt, proj>>
      /\ flush[f].pc = "delete"
  BY DEF Audit!Delete
<1>3. Audit!InLog(one.record)
  BY <1>2 DEF AuditInv, FlushInv
<1>4. flush[f] \in FlushType
  BY DEF AuditInv, Audit!TypeOK, FlushType
<1>5. /\ new \in FlushType /\ new.pc # "delete"
      /\ \A r \in new.rows \cup new.row : r.attempts < MaxAttempts
      /\ \A r, s \in new.row : r = s
  BY <1>4 DEF FlushType, Audit!NextPc, AuditInv, FlushInv
<1> HIDE DEF new
<1>6. OutboxFits(outbox')
  BY <1>1, FitsNow DEF Audit!Others, OutboxFits
<1>7. \A r \in outbox : Audit!InLog(r.record) \/ \E s \in outbox' : s.record = r.record
  BY <1>1, <1>3 DEF Audit!Others
<1>8. QED
  BY <1>2, <1>5, <1>6, <1>7, Rewrites

LEMMA RowFailsStep ==
  ASSUME AuditInv, NEW f \in Flushers, Audit!RowFails(f)
  PROVE  AuditInv'
<1>1. PICK one \in IF flush[f].pc = "look" THEN flush[f].rows ELSE flush[f].row :
        /\ outbox' = IF \E r \in outbox : r.record = one.record
                     THEN Audit!Others(one) \cup Audit!Failed(one) ELSE outbox
        /\ flush' = [flush EXCEPT ![f] = [pc |-> Audit!NextPc(@.rows \ {one}),
                                          rows |-> @.rows \ {one}, row |-> {}]]
  BY DEF Audit!RowFails
<1> DEFINE new == [pc |-> Audit!NextPc(flush[f].rows \ {one}), rows |-> flush[f].rows \ {one}, row |-> {}]
<1>2. /\ flush' = [flush EXCEPT ![f] = new] /\ UNCHANGED <<command, log, model, ckpt, proj>>
  BY <1>1 DEF Audit!RowFails
<1>4. flush[f] \in FlushType
  BY DEF AuditInv, Audit!TypeOK, FlushType
<1>5. /\ new \in FlushType /\ new.pc # "delete"
      /\ \A r \in new.rows \cup new.row : r.attempts < MaxAttempts
      /\ \A r, s \in new.row : r = s
  BY <1>4 DEF FlushType, Audit!NextPc, AuditInv, FlushInv
<1> HIDE DEF new
<1>6. one \in Audit!OutboxRow /\ one.attempts < MaxAttempts
  BY <1>1, <1>4 DEF FlushType, AuditInv, FlushInv
<1> DEFINE last == one.attempts + 1 >= MaxAttempts
           back == [one EXCEPT !.attempts = @ + 1, !.due = last, !.dead = last]
<1>8. Audit!Failed(one) = {back}
  BY DEF Audit!Failed
<1>12. last \in BOOLEAN /\ (~last => one.attempts + 1 < MaxAttempts) /\ MaxAttempts \in Nat
  BY <1>6, Projecting DEF Audit!OutboxRow, Audit!ProjectionAssumption
<1> HIDE DEF last
<1>7. /\ back \in Audit!OutboxRow /\ back.record = one.record
      /\ ~back.dead => back.attempts < MaxAttempts
  <2>1. one.attempts + 1 \in 0..MaxAttempts
    BY <1>6, <1>12 DEF Audit!OutboxRow
  <2>2. /\ back \in Audit!OutboxRow /\ back.record = one.record /\ back.attempts = one.attempts + 1
        /\ back.dead = last
    BY <1>6, <1>12, <2>1 DEF Audit!OutboxRow
  <2>3. QED
    BY <1>12, <2>2
<1> HIDE DEF back
<1>9. OutboxFits(outbox')
  <2>1. OutboxFits(outbox)
    BY FitsNow
  <2>2. CASE ~\E r \in outbox : r.record = one.record
    BY <1>1, <2>1, <2>2
  <2>3. ASSUME NEW r \in outbox, r.record = one.record PROVE OutboxFits(outbox')
    <3>1. outbox' = Audit!Others(one) \cup {back}
      BY <1>1, <1>8, <2>3
    <3>2. back.record.version <= command[back.record.key]
      BY <1>7, <2>1, <2>3 DEF OutboxFits
    <3>3. QED
      BY <1>7, <2>1, <3>1, <3>2 DEF OutboxFits, Audit!Others
  <2>4. QED
    BY <2>2, <2>3
<1>10. \A r \in outbox : \E s \in outbox' : s.record = r.record
  BY <1>1, <1>7, <1>8 DEF Audit!Others
<1>11. QED
  BY <1>2, <1>5, <1>9, <1>10, Rewrites

LEMMA AppendEventStep ==
  ASSUME AuditInv, NEW f \in Flushers, Audit!AppendEvent(f)
  PROVE  AuditInv'
<1>1. PICK one \in flush[f].row : ~Audit!InLog(one.record) /\ log' = Append(log, one.record)
  BY DEF Audit!AppendEvent, Audit!Accepts
<1> DEFINE new == [flush[f] EXCEPT !.pc = "delete"]
<1>2. flush' = [flush EXCEPT ![f] = new] /\ UNCHANGED <<command, outbox, model, ckpt, proj>>
  BY DEF Audit!AppendEvent
<1>3. flush[f] \in FlushType
  BY DEF AuditInv, Audit!TypeOK, FlushType
<1>4. one \in Audit!OutboxRow /\ one.record \in Audit!Record
  BY <1>3 DEF FlushType, Audit!OutboxRow
<1>5. /\ new \in FlushType /\ new.row = flush[f].row
      /\ \A r \in new.rows \cup new.row : r.attempts < MaxAttempts
      /\ \A r \in new.row : r = one
  BY <1>1, <1>3 DEF FlushType, AuditInv, FlushInv
<1> HIDE DEF new
<1>6. /\ log \in Seq(Audit!Record) /\ Len(log') = Len(log) + 1 /\ Len(log) \in Nat
      /\ \A i \in 1..Len(log) : log'[i] = log[i]
      /\ log'[Len(log) + 1] = one.record
  BY <1>1, <1>4, AppendProperties DEF AuditInv, Audit!TypeOK
<1>7. Audit!InLog(one.record)'
  BY <1>6 DEF Audit!InLog
<1>8. /\ flush' \in [Flushers -> FlushType]
      /\ \A g \in Flushers : \A r \in flush'[g].rows \cup flush'[g].row : r.attempts < MaxAttempts
      /\ \A g \in Flushers : \A r, s \in flush'[g].row : r = s
      /\ \A g \in Flushers : flush'[g].pc = "delete" => \A r \in flush'[g].row : Audit!InLog(r.record)'
  BY <1>1, <1>2, <1>4, <1>5, <1>7, FlusherMoves
<1>9. /\ ReadInv' /\ log' \in Seq(Audit!Record)
      /\ ckpt' \in [status : {"none", "building", "ready"}, seq : 0..Len(log')]
      /\ proj' \in [pc : {"away", "replay", "rebuild", "checkpoint"}, stage : [Keys -> Audit!Shown],
                    cursor : 0..Len(log'), through : 0..Len(log')]
  BY <1>1, <1>2, <1>4, LogGrows DEF AuditInv, Projector
<1>10. Audit!TypeOK'
  BY <1>2, <1>8, <1>9 DEF AuditInv, Audit!TypeOK, FlushType
<1>11. FlushInv'
  BY <1>2, <1>8 DEF AuditInv, FlushInv
<1>12. Audit!RecordedOnce'
  <2>1. \A i \in 1..Len(log) : log[i] # one.record
    BY <1>1 DEF Audit!InLog
  <2>2. QED
    BY <1>6, <2>1 DEF AuditInv, Audit!RecordedOnce
<1>13. Audit!AuditKept'
  <2>1. \A x : Audit!InLog(x) => Audit!InLog(x)'
    BY <1>1, <1>4, LogKeeps DEF AuditInv
  <2>2. QED
    BY <1>2, <2>1 DEF AuditInv, Audit!AuditKept
<1>14. QED
  BY <1>9, <1>10, <1>11, <1>12, <1>13 DEF AuditInv

LEMMA FinishStep ==
  ASSUME AuditInv, NEW f \in Flushers, NEW k \in Keys, Audit!Finish(f, k)
  PROVE  AuditInv'
<1> DEFINE r == [key |-> k, version |-> command[k] + 1]
           one == [record |-> r, attempts |-> 0, due |-> TRUE, dead |-> FALSE]
           new == [flush[f] EXCEPT !.pc = "scan"]
<1>1. /\ r.version <= MaxVersions /\ command' = [command EXCEPT ![k] = r.version]
      /\ outbox' = outbox \cup {one} /\ flush' = [flush EXCEPT ![f] = new]
      /\ UNCHANGED <<log, model, ckpt, proj>>
  BY DEF Audit!Finish
<1>2. flush[f] \in FlushType /\ command \in [Keys -> 0..MaxVersions] /\ MaxVersions \in Nat
  BY Projecting DEF AuditInv, Audit!TypeOK, FlushType, Audit!ProjectionAssumption
<1>3. /\ r \in Audit!Record /\ one \in Audit!OutboxRow /\ one.attempts < MaxAttempts
      /\ one.record = r /\ r.key = k /\ r.version = command[k] + 1
  BY <1>1, <1>2, Projecting DEF Audit!Record, Audit!OutboxRow, Audit!ProjectionAssumption
<1>4. /\ new \in FlushType /\ new.pc = "scan"
      /\ \A x \in new.rows \cup new.row : x.attempts < MaxAttempts
      /\ \A x, y \in new.row : x = y
  BY <1>2 DEF FlushType, AuditInv, FlushInv
<1> HIDE DEF one, r, new
<1>5. /\ flush' \in [Flushers -> FlushType]
      /\ \A g \in Flushers : \A x \in flush'[g].rows \cup flush'[g].row : x.attempts < MaxAttempts
      /\ \A g \in Flushers : \A x, y \in flush'[g].row : x = y
      /\ \A g \in Flushers : flush'[g].pc = "delete" => \A x \in flush'[g].row : Audit!InLog(x.record)'
  BY <1>1, <1>4, FlusherMoves
<1>6. command' \in [Keys -> 0..MaxVersions] /\ command'[k] = r.version /\ \A q \in Keys \ {k} : command'[q] = command[q]
  BY <1>1, <1>2, <1>3
<1>7. \A x \in outbox : x.record # r
  BY <1>2, <1>3 DEF AuditInv, FlushInv
<1>8. \A x \in outbox : x.record.version <= command'[x.record.key] /\ x.record.key \in Keys
  <2>1. \A x \in outbox : x.record.key \in Keys /\ x.record.version \in Nat /\ x.record.version <= command[x.record.key]
    BY DEF AuditInv, Audit!TypeOK, Audit!OutboxRow, Audit!Record, FlushInv
  <2>2. QED
    BY <1>2, <1>3, <1>6, <2>1
<1>9. ReadInv'
  BY <1>1, LogGrows DEF AuditInv, Projector
<1>10. Audit!TypeOK'
  BY <1>1, <1>3, <1>5, <1>6, <1>7 DEF AuditInv, Audit!TypeOK, FlushType
<1>11. FlushInv'
  BY <1>1, <1>2, <1>3, <1>5, <1>6, <1>8 DEF AuditInv, FlushInv
<1>12. Audit!RecordedOnce'
  BY <1>1 DEF AuditInv, Audit!RecordedOnce
<1>13. Audit!AuditKept'
  <2> SUFFICES ASSUME NEW q \in Keys, NEW v \in 1..command'[q]
               PROVE  Audit!InLog([key |-> q, version |-> v])' \/ \E x \in outbox' : x.record = [key |-> q, version |-> v]
    BY DEF Audit!AuditKept
  <2>1. CASE v \in 1..command[q]
    BY <1>1, <2>1 DEF AuditInv, Audit!AuditKept, Audit!InLog
  <2>2. CASE v \notin 1..command[q]
    <3>1. q = k /\ v = command[k] + 1
      BY <1>2, <1>3, <1>6, <2>2
    <3>2. QED
      BY <1>1, <1>3, <3>1 DEF r
  <2>3. QED
    BY <2>1, <2>2
<1>14. QED
  BY <1>9, <1>10, <1>11, <1>12, <1>13 DEF AuditInv

LEMMA RetryTimeStep ==
  ASSUME AuditInv, Audit!RetryTime
  PROVE  AuditInv'
<1>1. PICK r \in outbox : outbox' = (outbox \ {r}) \cup {[r EXCEPT !.due = TRUE]}
  BY DEF Audit!RetryTime
<1> DEFINE due == [r EXCEPT !.due = TRUE]
<1>2. UNCHANGED <<command, log, flush, model, ckpt, proj>>
  BY DEF Audit!RetryTime
<1>3. /\ due \in Audit!OutboxRow /\ due.record = r.record /\ due.dead = r.dead /\ due.attempts = r.attempts
      /\ outbox' = (outbox \ {r}) \cup {due}
  BY <1>1 DEF AuditInv, Audit!TypeOK, Audit!OutboxRow
<1> HIDE DEF due
<1>4. OutboxFits(outbox')
  BY <1>3, FitsNow DEF OutboxFits
<1>5. ReadInv'
  BY <1>2, LogGrows DEF AuditInv, Projector
<1>6. Audit!TypeOK' /\ FlushInv'
  BY <1>2, <1>4 DEF AuditInv, Audit!TypeOK, FlushInv, OutboxFits, Audit!InLog
<1>7. Audit!RecordedOnce' /\ Audit!AuditKept'
  BY <1>2, <1>3 DEF AuditInv, Audit!RecordedOnce, Audit!AuditKept, Audit!InLog
<1>8. QED
  BY <1>5, <1>6, <1>7 DEF AuditInv

-----------------------------------------------------------------------------
(* The projector.                                                            *)

\* An event is applied to a table that has those before it.
LEMMA Applied ==
  ASSUME Audit!TypeOK, NEW table \in [Keys -> Audit!Shown], Shows(table),
         NEW i \in 1..Len(log), Covers(table, i - 1), NEW new, new = Audit!Upsert(table, i)
  PROVE  /\ new \in [Keys -> Audit!Shown] /\ Shows(new) /\ Covers(new, i)
         /\ \A k \in Keys : /\ table[k].seq <= new[k].seq
                            /\ \A n \in Nat : table[k].seq <= n /\ i <= n => new[k].seq <= n
<1>1. log \in Seq(Audit!Record) /\ Len(log) \in Nat
  BY DEF Audit!TypeOK
<1>2. log[i] \in Audit!Record
  BY <1>1
<1>3. log[i].key \in Keys /\ log[i].version \in 0..MaxVersions
  BY <1>2, Projecting DEF Audit!Record, Audit!ProjectionAssumption
<1>4. \A k \in Keys : new[k] = IF log[i].key = k /\ i >= table[k].seq
                               THEN [version |-> log[i].version, seq |-> i] ELSE table[k]
  BY DEF Audit!Upsert
<1>5. new \in [Keys -> Audit!Shown]
  <2>0. [version |-> log[i].version, seq |-> i] \in Audit!Shown
    BY <1>1, <1>3 DEF Audit!Shown
  <2>1. \A k \in Keys : new[k] \in Audit!Shown
    BY <1>4, <2>0
  <2>2. new = [k \in Keys |-> new[k]]
    BY DEF Audit!Upsert
  <2>3. QED
    BY <2>1, <2>2
<1>6. log[i] = [key |-> log[i].key, version |-> log[i].version]
  BY <1>2 DEF Audit!Record
<1>7. \A k \in Keys : table[k] \in Audit!Shown /\ table[k].seq \in Nat
  BY DEF Audit!Shown
<1>8. Shows(new)
  BY <1>1, <1>4, <1>6, <1>7 DEF Shows
<1>9. Covers(new, i)
  BY <1>1, <1>4, <1>7 DEF Covers
<1>10. \A k \in Keys : /\ table[k].seq <= new[k].seq
                       /\ \A n \in Nat : table[k].seq <= n /\ i <= n => new[k].seq <= n
  <2> SUFFICES ASSUME NEW k \in Keys
               PROVE  /\ table[k].seq <= new[k].seq
                      /\ \A n \in Nat : table[k].seq <= n /\ i <= n => new[k].seq <= n
    OBVIOUS
  <2>1. CASE log[i].key = k /\ i >= table[k].seq
    <3>1. new[k].seq = i
      BY <1>4, <2>1
    <3>2. QED
      BY <1>1, <1>7, <2>1, <3>1
  <2>2. CASE ~(log[i].key = k /\ i >= table[k].seq)
    BY <1>4, <1>7, <2>2
  <2>3. QED
    BY <2>1, <2>2
<1>11. QED
  BY <1>5, <1>8, <1>9, <1>10

ProjType == [pc : {"away", "replay", "rebuild", "checkpoint"}, stage : [Keys -> Audit!Shown],
             cursor : 0..Len(log), through : 0..Len(log)]
CkptType == [status : {"none", "building", "ready"}, seq : 0..Len(log)]

\* A step of the projector leaves commands, outbox and log alone.
LEMMA OnlyProjector ==
  ASSUME AuditInv, UNCHANGED <<command, outbox, log, flush>>, model' \in [Keys -> Audit!Shown],
         ckpt' \in CkptType, proj' \in ProjType, ReadInv'
  PROVE  AuditInv'
<1>1. Audit!TypeOK'
  BY DEF AuditInv, Audit!TypeOK, CkptType, ProjType
<1>2. FlushInv' /\ Audit!RecordedOnce' /\ Audit!AuditKept'
  BY DEF AuditInv, FlushInv, Audit!RecordedOnce, Audit!AuditKept, Audit!InLog
<1>3. QED
  BY <1>1, <1>2 DEF AuditInv

NeverBack == \A k \in Keys : model'[k].seq >= model[k].seq

LEMMA UnshownIs == Audit!Unshown \in [Keys -> Audit!Shown] /\ Shows(Audit!Unshown) /\ Covers(Audit!Unshown, 0)
<1>1. Audit!Unshown \in [Keys -> Audit!Shown] /\ \A k \in Keys : Audit!Unshown[k].seq = 0
  BY Projecting DEF Audit!Unshown, Audit!Shown, Audit!ProjectionAssumption
<1>2. QED
  BY <1>1 DEF Shows, Covers

LEMMA RebuildStarts ==
  ASSUME AuditInv, Audit!Rebuild, UNCHANGED <<command, outbox, log, flush, model>>
  PROVE  AuditInv' /\ NeverBack
<1>1. /\ log \in Seq(Audit!Record) /\ Len(log) \in Nat /\ Len(log') = Len(log)
      /\ model \in [Keys -> Audit!Shown] /\ \A k \in Keys : model[k].seq \in Nat
  BY DEF AuditInv, Audit!TypeOK, Audit!Shown
<1>2. ckpt' \in CkptType /\ ckpt'.status # "ready"
  BY <1>1 DEF Audit!Rebuild, CkptType
<1>3. /\ proj' \in ProjType /\ proj'.pc = "rebuild" /\ proj'.stage = Audit!Unshown
      /\ proj'.cursor = 0 /\ proj'.through = Len(log)
  BY <1>1, UnshownIs DEF Audit!Rebuild, ProjType
<1>4. \A k \in Keys : model[k].seq <= Len(log)
  <2> SUFFICES ASSUME NEW k \in Keys PROVE model[k].seq <= Len(log)
    OBVIOUS
  <2>1. model[k].seq > 0 => model[k].seq <= Len(log)
    BY DEF AuditInv, ReadInv, Shows
  <2>2. model[k].seq \in Nat
    BY <1>1
  <2>3. QED
    BY <1>1, <2>1, <2>2
<1>7. Shows(model)' /\ Shows(proj.stage)'
  BY <1>1, <1>3, UnshownIs DEF AuditInv, ReadInv, Shows
<1>8. Covers(proj.stage, proj.cursor)'
  BY <1>3 DEF Covers
<1>9. \A k \in Keys : model'[k].seq <= proj'.through
  BY <1>3, <1>4
<1>5. ReadInv'
  BY <1>1, <1>2, <1>3, <1>7, <1>8, <1>9 DEF ReadInv
<1>6. QED
  BY <1>1, <1>2, <1>3, <1>5, OnlyProjector DEF NeverBack

LEMMA BootstrapStep ==
  ASSUME AuditInv, Audit!Bootstrap \/ Audit!FullRebuild
  PROVE  AuditInv' /\ NeverBack
<1>1. UNCHANGED <<command, outbox, log, flush, model>>
  BY DEF Audit!Bootstrap, Audit!FullRebuild
<1>2. CASE Audit!Rebuild
  BY <1>1, <1>2, RebuildStarts
<1>3. CASE /\ ckpt.status = "ready" /\ UNCHANGED ckpt /\ Len(log) > ckpt.seq
           /\ proj' = [pc |-> "replay", stage |-> Audit!Unshown, cursor |-> ckpt.seq, through |-> Len(log)]
  <2>1. /\ ckpt \in CkptType /\ model \in [Keys -> Audit!Shown] /\ \A k \in Keys : model[k].seq \in Nat
        /\ ckpt.seq \in 0..Len(log) /\ Len(log) \in Nat
    BY DEF AuditInv, Audit!TypeOK, CkptType, Audit!Shown
  <2>2. /\ proj' \in ProjType /\ proj'.pc = "replay" /\ proj'.stage = Audit!Unshown
        /\ proj'.cursor = ckpt.seq /\ proj'.through = Len(log)
    BY <1>3, <2>1, UnshownIs DEF ProjType
  <2>3. Shows(model)' /\ Shows(proj.stage)'
    BY <1>1, <2>2, UnshownIs DEF AuditInv, ReadInv, Shows
  <2>4. Covers(model, ckpt.seq)' /\ Covers(model, proj.cursor)'
    BY <1>1, <1>3, <2>2 DEF AuditInv, ReadInv, Covers
  <2>5. ReadInv'
    BY <2>1, <2>2, <2>3, <2>4 DEF ReadInv
  <2>6. ckpt' \in CkptType /\ model' \in [Keys -> Audit!Shown]
    BY <1>1, <1>3, <2>1
  <2>7. QED
    BY <1>1, <2>1, <2>2, <2>5, <2>6, OnlyProjector DEF NeverBack
<1>4. QED
  BY <1>2, <1>3 DEF Audit!Bootstrap, Audit!FullRebuild, Audit!ReplayFrom

LEMMA ApplyEventStep ==
  ASSUME AuditInv, Audit!ApplyEvent
  PROVE  AuditInv' /\ NeverBack
<1> DEFINE i == proj.cursor + 1
<1>1. /\ UNCHANGED <<command, outbox, log, flush, ckpt>> /\ proj.cursor < proj.through
      /\ \/ /\ proj.pc = "replay" /\ model' = Audit!Upsert(model, i) /\ proj' = [proj EXCEPT !.cursor = i]
         \/ /\ proj.pc = "rebuild" /\ UNCHANGED model
            /\ proj' = [proj EXCEPT !.cursor = i, !.stage = Audit!Upsert(@, i)]
  BY DEF Audit!ApplyEvent
<1>2. /\ proj \in ProjType /\ ckpt \in CkptType /\ model \in [Keys -> Audit!Shown]
      /\ Len(log) \in Nat
  BY DEF AuditInv, Audit!TypeOK, ProjType, CkptType
<1>3. i \in 1..Len(log) /\ i <= proj.through /\ proj.through \in Nat /\ i - 1 = proj.cursor
  BY <1>1, <1>2 DEF ProjType
<1>4. ckpt' \in CkptType
  BY <1>1, <1>2 DEF CkptType
<1> HIDE DEF i
<1>5. CASE proj.pc = "replay" /\ model' = Audit!Upsert(model, i) /\ proj' = [proj EXCEPT !.cursor = i]
  <2>1. /\ model' \in [Keys -> Audit!Shown] /\ Shows(model') /\ Covers(model', i)
        /\ \A k \in Keys : model[k].seq <= model'[k].seq
    BY <1>2, <1>3, <1>5, Applied DEF AuditInv, ReadInv
  <2>2. /\ proj' \in ProjType /\ proj'.pc = "replay" /\ proj'.cursor = i /\ proj'.stage = proj.stage
        /\ proj'.through = proj.through
    BY <1>2, <1>3, <1>5 DEF ProjType
  <2>3. Shows(model)' /\ Shows(proj.stage)' /\ Covers(model, proj.cursor)'
    BY <1>1, <2>1, <2>2 DEF AuditInv, ReadInv, Shows, Covers
  <2>4. \A k \in Keys : model[k].seq \in Nat /\ model'[k].seq \in Nat
    BY <1>2, <2>1 DEF Audit!Shown
  <2>5. ckpt'.status = "ready" => Covers(model, ckpt.seq)'
    <3>1. ckpt.seq \in Nat
      BY <1>2 DEF CkptType
    <3>2. QED
      BY <1>1, <2>1, <2>4, <3>1 DEF AuditInv, ReadInv, Covers
  <2>6. ReadInv'
    BY <1>3, <2>2, <2>3, <2>5 DEF ReadInv
  <2>7. NeverBack
    BY <2>1, <2>4 DEF NeverBack
  <2>8. QED
    BY <1>1, <1>4, <2>1, <2>2, <2>6, <2>7, OnlyProjector
<1>6. CASE proj.pc = "rebuild" /\ UNCHANGED model /\ proj' = [proj EXCEPT !.cursor = i, !.stage = Audit!Upsert(@, i)]
  <2>0. proj.stage \in [Keys -> Audit!Shown] /\ Shows(proj.stage) /\ Covers(proj.stage, i - 1)
    BY <1>2, <1>3, <1>6 DEF AuditInv, ReadInv, ProjType
  <2> DEFINE new == Audit!Upsert(proj.stage, i)
  <2>1. new \in [Keys -> Audit!Shown] /\ Shows(new) /\ Covers(new, i)
    BY <1>3, <2>0, Applied DEF AuditInv
  <2>2. /\ proj' \in ProjType /\ proj'.pc = "rebuild" /\ proj'.cursor = i /\ proj'.stage = new
        /\ proj'.through = proj.through
    <3>1. proj' = [proj EXCEPT !.cursor = i, !.stage = new]
      BY <1>6
    <3> HIDE DEF new
    <3>2. new \in [Keys -> Audit!Shown] /\ i \in 0..Len(log) /\ proj.pc = "rebuild"
      BY <1>3, <1>6, <2>1
    <3>3. QED
      BY <1>2, <3>1, <3>2 DEF ProjType
  <2> HIDE DEF new
  <2>3. Shows(model)' /\ Shows(proj.stage)' /\ Covers(proj.stage, proj.cursor)'
    BY <1>1, <1>6, <2>1, <2>2 DEF AuditInv, ReadInv, Shows, Covers
  <2>4. ckpt'.status = "ready" => Covers(model, ckpt.seq)'
    BY <1>1, <1>6 DEF AuditInv, ReadInv, Covers
  <2>5. \A k \in Keys : model'[k].seq <= proj'.through
    BY <1>6, <2>2 DEF AuditInv, ReadInv
  <2>6. ReadInv'
    BY <1>3, <2>2, <2>3, <2>4, <2>5 DEF ReadInv
  <2>7. NeverBack
    BY <1>2, <1>6 DEF NeverBack, Audit!Shown
  <2>8. QED
    BY <1>1, <1>2, <1>4, <1>6, <2>2, <2>6, <2>7, OnlyProjector
<1>7. QED
  BY <1>1, <1>5, <1>6

\* What a rebuild publishes has every event the readers saw.
LEMMA PublishStep ==
  ASSUME AuditInv, Audit!Publish
  PROVE  AuditInv' /\ NeverBack
<1>1. /\ proj.pc = "rebuild" /\ proj.cursor = proj.through /\ model' = proj.stage
      /\ proj' = [proj EXCEPT !.pc = "checkpoint", !.stage = Audit!Unshown]
      /\ UNCHANGED <<command, outbox, log, flush, ckpt>>
  BY DEF Audit!Publish
<1>2. /\ proj \in ProjType /\ ckpt \in CkptType /\ model \in [Keys -> Audit!Shown]
      /\ Len(log) \in Nat /\ proj.stage \in [Keys -> Audit!Shown]
  BY DEF AuditInv, Audit!TypeOK, ProjType, CkptType
<1>3. /\ proj' \in ProjType /\ proj'.pc = "checkpoint" /\ proj'.stage = Audit!Unshown
      /\ proj'.through = proj.through /\ proj'.cursor = proj.cursor
  BY <1>1, <1>2, UnshownIs DEF ProjType
<1>4. Shows(model)' /\ Shows(proj.stage)' /\ Covers(model, proj.through)'
  BY <1>1, <1>3, UnshownIs DEF AuditInv, ReadInv, Shows, Covers
<1>5. NeverBack
  <2> SUFFICES ASSUME NEW k \in Keys PROVE model'[k].seq >= model[k].seq
    BY DEF NeverBack
  <2>1. model[k].seq \in Nat /\ model'[k].seq \in Nat /\ proj.through \in Nat
    BY <1>1, <1>2 DEF Audit!Shown, ProjType
  <2>2. CASE model[k].seq = 0
    BY <2>1, <2>2
  <2>3. CASE model[k].seq > 0
    <3>0. log[model[k].seq] = [key |-> k, version |-> model[k].version] /\ model[k].seq <= proj.through
      BY <1>1, <2>3 DEF AuditInv, ReadInv, Shows
    <3>1. log[model[k].seq].key = k /\ model[k].seq \in 1..proj.through
      BY <2>1, <2>3, <3>0
    <3>2. model[k].seq <= proj.stage[k].seq
      BY <1>1, <3>1 DEF AuditInv, ReadInv, Covers
    <3>3. QED
      BY <1>1, <2>1, <3>2
  <2>4. QED
    BY <2>1, <2>2, <2>3
<1>6. ckpt'.status = "ready" => Covers(model, ckpt.seq)'
  <2>1. ckpt.seq \in Nat /\ \A k \in Keys : model[k].seq \in Nat /\ model'[k].seq \in Nat
    BY <1>1, <1>2 DEF CkptType, Audit!Shown
  <2>2. QED
    BY <1>1, <1>5, <2>1 DEF NeverBack, AuditInv, ReadInv, Covers
<1>7. ReadInv'
  BY <1>3, <1>4, <1>6 DEF ReadInv
<1>8. ckpt' \in CkptType /\ model' \in [Keys -> Audit!Shown]
  BY <1>1, <1>2
<1>9. QED
  BY <1>1, <1>3, <1>5, <1>7, <1>8, OnlyProjector

\* The projector is done, fails or dies.
LEMMA RestStep ==
  ASSUME AuditInv, Audit!WriteCheckpoint \/ Audit!ProjectionFails \/ Audit!ProjectorDies
  PROVE  AuditInv' /\ NeverBack
<1>1. UNCHANGED <<command, outbox, log, flush, model>>
  BY DEF Audit!WriteCheckpoint, Audit!ProjectionFails, Audit!ProjectorDies
<1>2. CASE Audit!Rebuild
  BY <1>1, <1>2, RebuildStarts
<1>3. /\ proj \in ProjType /\ ckpt \in CkptType /\ model \in [Keys -> Audit!Shown]
      /\ Len(log) \in Nat /\ \A k \in Keys : model[k].seq \in Nat
  BY DEF AuditInv, Audit!TypeOK, ProjType, CkptType, Audit!Shown
<1>4. Audit!Rest \in ProjType' /\ Audit!Rest.pc = "away" /\ Audit!Rest.stage = Audit!Unshown
  BY <1>1, <1>3, UnshownIs DEF Audit!Rest, ProjType
<1>5. CASE proj' = Audit!Rest /\ ckpt' \in CkptType /\ (ckpt'.status = "ready" => Covers(model, ckpt'.seq))
  <2>1. Shows(model)' /\ Shows(proj.stage)'
    BY <1>1, <1>4, <1>5, UnshownIs DEF AuditInv, ReadInv, Shows
  <2>2. ckpt'.status = "ready" => Covers(model, ckpt.seq)'
    BY <1>1, <1>5 DEF Covers
  <2>3. ReadInv'
    BY <1>4, <1>5, <2>1, <2>2 DEF ReadInv
  <2>4. proj' \in ProjType /\ model' \in [Keys -> Audit!Shown]
    BY <1>1, <1>3, <1>4, <1>5 DEF ProjType
  <2>5. QED
    BY <1>1, <1>3, <1>5, <2>3, <2>4, OnlyProjector DEF NeverBack
<1>6. CASE Audit!WriteCheckpoint
  <2>1. Covers(model, proj.through)
    BY <1>6 DEF Audit!WriteCheckpoint, AuditInv, ReadInv
  <2>2. ckpt' \in CkptType /\ ckpt'.seq = proj.through
    BY <1>3, <1>6 DEF Audit!WriteCheckpoint, Audit!Reached, ProjType, CkptType
  <2>3. QED
    BY <1>5, <1>6, <2>1, <2>2 DEF Audit!WriteCheckpoint
<1>7. CASE proj' = Audit!Rest /\ UNCHANGED ckpt
  <2>1. ckpt' \in CkptType
    BY <1>1, <1>3, <1>7
  <2>2. ckpt'.status = "ready" => Covers(model, ckpt'.seq)
    BY <1>7 DEF AuditInv, ReadInv
  <2>3. QED
    BY <1>5, <1>7, <2>1, <2>2
<1>8. QED
  BY <1>2, <1>6, <1>7 DEF Audit!ProjectionFails, Audit!ProjectorDies

LEMMA AuditNext == AuditInv /\ [Audit!Next]_(Audit!vars) => AuditInv' /\ NeverBack
<1> SUFFICES ASSUME AuditInv, [Audit!Next]_(Audit!vars) PROVE AuditInv' /\ NeverBack
  OBVIOUS
<1>1. UNCHANGED model => NeverBack
  BY DEF AuditInv, Audit!TypeOK, NeverBack, Audit!Shown
<1>2. ASSUME NEW f \in Flushers, Audit!Flush(f) \/ Audit!FlusherDies(f) \/ \E k \in Keys : Audit!Finish(f, k)
      PROVE  AuditInv' /\ NeverBack
  <2>1. UNCHANGED model
    BY <1>2 DEF Audit!Flush, Audit!Open, Audit!Scan, Audit!Look, Audit!AppendEvent, Audit!Delete, Audit!RowFails, Audit!FlusherDies, Audit!Finish
  <2>2. AuditInv'
    BY <1>2, QuietFlush, AppendEventStep, DeleteStep, RowFailsStep, FinishStep DEF Audit!Flush
  <2>3. QED
    BY <1>1, <2>1, <2>2
<1>3. CASE Audit!RetryTime
  BY <1>1, <1>3, RetryTimeStep DEF Audit!RetryTime
<1>4. CASE UNCHANGED Audit!vars
  <2>1. AuditInv'
    <3>1. UNCHANGED <<command, outbox, log, flush, model, ckpt, proj>>
      BY <1>4 DEF Audit!vars
    <3>2. Audit!TypeOK' /\ FlushInv' /\ Audit!RecordedOnce' /\ Audit!AuditKept'
      BY <3>1 DEF AuditInv, Audit!TypeOK, FlushInv, Audit!RecordedOnce, Audit!AuditKept, Audit!InLog
    <3>3. ReadInv'
      BY <3>1, LogGrows DEF AuditInv, Projector
    <3>4. QED
      BY <3>2, <3>3 DEF AuditInv
  <2>2. QED
    BY <1>1, <1>4, <2>1 DEF Audit!vars
<1>5. QED
  BY <1>2, <1>3, <1>4, BootstrapStep, ApplyEventStep, PublishStep, RestStep DEF Audit!Next

LEMMA NatOrder == \A T \in SUBSET Nat : T # {} => \E b \in T : \A x \in T : ~(x < b)
<1> DEFINE R == OpToRel(<, Nat)
<1>1. IsWellFoundedOn(R, Nat)
  BY NatLessThanWellFounded
<1>2. \A x, y \in Nat : x < y => <<x, y>> \in R
  BY DEF OpToRel
<1> HIDE DEF R
<1>3. ASSUME NEW T \in SUBSET Nat, T # {} PROVE \E b \in T : \A x \in T : ~(x < b)
  <2>1. PICK b \in T : \A y \in T : <<y, b>> \notin R
    BY <1>1, <1>3, WFMin
  <2>2. QED
    BY <1>2, <2>1
<1>4. QED
  BY <1>3

\* The last event of a key is one of those that a covering table has.
LEMMA LastIsCovered ==
  ASSUME NEW table \in [Keys -> Audit!Shown], NEW n \in Nat, Covers(table, n), NEW k \in Keys
  PROVE  table[k].seq >= Audit!LastSeq(k, n)
<1> DEFINE seqs == {i \in 1..n : log[i].key = k}
<1>1. table[k].seq \in Nat
  BY DEF Audit!Shown
<1>2. CASE seqs = {}
  BY <1>1, <1>2 DEF Audit!LastSeq
<1>3. CASE seqs # {}
  <2> DEFINE T == {n - i : i \in seqs}
  <2>1. T \in SUBSET Nat /\ T # {}
    BY <1>3
  <2>2. PICK b \in T : \A x \in T : ~(x < b)
    BY <2>1, NatOrder
  <2>3. PICK last \in seqs : b = n - last
    BY <2>2
  <2>4. \A j \in seqs : ~(n - j < n - last)
    BY <2>2, <2>3
  <2>5. \A j \in seqs : j <= last
    BY <2>4
  <2>6. Audit!LastSeq(k, n) = CHOOSE i \in seqs : \A j \in seqs : j <= i
    BY <1>3 DEF Audit!LastSeq
  <2> HIDE DEF T, seqs
  <2>7. Audit!LastSeq(k, n) \in seqs
    BY <2>5, <2>6
  <2>8. QED
    BY <1>1, <2>7 DEF seqs, Covers
<1>4. QED
  BY <1>2, <1>3

\* The audit is honest: an event is recorded once, a record is in the log or in the outbox,
\* and a checkpoint that says ready covers what it says, whoever flushes, fails and dies.
THEOREM AuditHonest == Audit!Spec => [](Audit!RecordedOnce /\ Audit!AuditKept /\ Audit!CheckpointIsHonest)
<1>1. AuditInv => Audit!RecordedOnce /\ Audit!AuditKept /\ Audit!CheckpointIsHonest
  <2> SUFFICES ASSUME AuditInv PROVE Audit!RecordedOnce /\ Audit!AuditKept /\ Audit!CheckpointIsHonest
    OBVIOUS
  <2>1. Shows(model) /\ (ckpt.status = "ready" => Covers(model, ckpt.seq))
    BY DEF AuditInv, ReadInv
  <2>2. model \in [Keys -> Audit!Shown] /\ ckpt.seq \in Nat
    BY DEF AuditInv, Audit!TypeOK
  <2>3. Audit!CheckpointIsHonest
    BY <2>1, <2>2, LastIsCovered DEF Audit!CheckpointIsHonest, Shows
  <2>4. QED
    BY <2>3 DEF AuditInv
<1>2. QED
  BY <1>1, AuditInit, AuditNext, PTL DEF Audit!Spec

\* Every variable of the audit and of its projection keeps its type.
THEOREM AuditTyped == Audit!Spec => []Audit!TypeOK
<1>1. AuditInv => Audit!TypeOK
  BY DEF AuditInv
<1>2. QED
  BY <1>1, AuditInit, AuditNext, PTL DEF Audit!Spec

\* No rebuild, replay, failure or death takes a reader of the projection back.
THEOREM ReadersGoOn == Audit!Spec => Audit!ReadersNeverGoBack
<1>1. AuditInv /\ [Audit!Next]_(Audit!vars) => [\A k \in Keys : model'[k].seq >= model[k].seq]_(Audit!vars)
  BY AuditNext DEF NeverBack
<1>2. QED
  BY <1>1, AuditInit, AuditNext, PTL DEF Audit!Spec, Audit!ReadersNeverGoBack

-----------------------------------------------------------------------------
(* What runs side by side.                                                   *)

\* The deliveries share no state: a behaviour of all is one of each, the steps of the
\* others apart.
THEOREM Composition ==
  DeliverySpec => Spec /\ Audit!Spec /\ Import!Spec /\ Source!Spec /\ Queue!Spec
<1>1. Installed => Init /\ Audit!Init /\ Import!Init /\ Source!Init /\ Queue!Init
  BY DEF Installed
<1>2. [SideBySide]_all => /\ [Next]_vars /\ [Audit!Next]_(Audit!vars) /\ [Import!Next]_(Import!vars)
                          /\ [Source!Next]_(Source!vars) /\ [Queue!Next]_(Queue!vars)
  <2> SUFFICES ASSUME [SideBySide]_all
               PROVE  /\ [Next]_vars /\ [Audit!Next]_(Audit!vars) /\ [Import!Next]_(Import!vars)
                      /\ [Source!Next]_(Source!vars) /\ [Queue!Next]_(Queue!vars)
    OBVIOUS
  <2>1. UNCHANGED auditVars => UNCHANGED Audit!vars
    BY DEF auditVars, Audit!vars
  <2>2. UNCHANGED importVars => UNCHANGED Import!vars
    BY DEF importVars, Import!vars
  <2>3. UNCHANGED sourceVars => UNCHANGED Source!vars
    BY DEF sourceVars, Source!vars
  <2>4. UNCHANGED queueVars => UNCHANGED Queue!vars
    BY DEF queueVars, Queue!vars
  <2>5. Source!NextOver(Messages) => Source!Next
    BY DEF Source!NextOver
  <2>6. \/ UNCHANGED <<vars, auditVars, queueVars, importVars, sourceVars>>
        \/ Next /\ UNCHANGED <<auditVars, queueVars, importVars, sourceVars>>
        \/ Audit!Next /\ UNCHANGED <<vars, queueVars, importVars, sourceVars>>
        \/ Queue!Next /\ UNCHANGED <<vars, auditVars, importVars, sourceVars>>
        \/ Import!Next /\ UNCHANGED <<vars, auditVars, queueVars, sourceVars>>
        \/ Source!Next /\ UNCHANGED <<vars, auditVars, queueVars, importVars>>
    BY <2>5 DEF SideBySide, PolicyStep, AuditStep, RetriedStep, QueueStep, ImportStep, ResumeStep,
                SourceStep, WindowedStep, all
  <2> HIDE DEF vars, auditVars, queueVars, importVars, sourceVars
  <2>7. QED
    BY <2>1, <2>2, <2>3, <2>4, <2>6
<1>3. QED
  BY <1>1, <1>2, PTL DEF DeliverySpec, Spec, Audit!Spec, Import!Spec, Source!Spec, Queue!Spec

\* Where "source" runs, every import reads the whole transcript, and does so for good.
LEMMA OneWindow ==
  DeliverySpec => []~(component = "source") \/ ([](component = "source") /\ Source!SpecOver(Messages))
<1> DEFINE Here == component = "source"
<1>1. Installed => Source!Init
  BY DEF Installed
<1>2. [SideBySide]_all => (Here' <=> Here)
  BY DEF SideBySide, PolicyStep, AuditStep, RetriedStep, QueueStep, ImportStep, ResumeStep,
         SourceStep, WindowedStep, Runs, all
<1>3. Here /\ [SideBySide]_all => [Source!NextOver(Messages)]_(Source!vars)
  <2> SUFFICES ASSUME Here, [SideBySide]_all PROVE [Source!NextOver(Messages)]_(Source!vars)
    OBVIOUS
  <2>1. UNCHANGED sourceVars => UNCHANGED Source!vars
    BY DEF sourceVars, Source!vars
  <2>2. SourceStep \/ UNCHANGED all
    BY DEF SideBySide, PolicyStep, AuditStep, RetriedStep, QueueStep, ImportStep, ResumeStep,
           WindowedStep, Runs
  <2>3. Source!NextOver(Messages) \/ UNCHANGED sourceVars
    BY <2>2 DEF SourceStep, all
  <2>4. QED
    BY <2>1, <2>3
<1> HIDE DEF Here
<1>4. DeliverySpec => []~Here \/ ([]Here /\ Source!SpecOver(Messages))
  BY <1>1, <1>2, <1>3, PTL DEF DeliverySpec, Source!SpecOver
<1>5. QED
  BY <1>4 DEF Here

\* An effect happens at most once, and what is said of it is so, whatever else is
\* delivered (ReliablePolicySideEffectExecutor).
THEOREM EffectsDelivered == DeliverySpec => ImplementsEffectOnce
  BY Composition, EffectsOnce, PTL

\* The audit of a policy's execution is in the log once or still in the outbox, and a
\* checkpoint that says ready covers what it says (flushAuditOutbox,
\* PolicyExecutionProjector).
THEOREM AuditDelivered == DeliverySpec => []AuditIsHonest
<1>1. Audit!RecordedOnce /\ Audit!AuditKept /\ Audit!CheckpointIsHonest => AuditIsHonest
  BY DEF AuditIsHonest
<1>2. QED
  BY <1>1, Composition, AuditHonest, PTL

\* No reader of the projection is taken back, whatever else is delivered.
THEOREM ReadersKept == DeliverySpec => ReadersStay
  BY Composition, ReadersGoOn, PTL DEF ReadersStay

\* A queued turn is kept until it is recorded, and is recorded once while none dies and no
\* wait runs out; a line a checkpoint lets an import skip is in the store, from one answer;
\* a record that later runs skip was imported to the end, and a message of a dated line is
\* one event (remember-queue, EpisodeImport, BatchIngestor).
THEOREM HandedOverOnce == DeliverySpec => []DeliveredOnce
<1> DEFINE Here   == component = "source"
           Turns  == Queue!KeptUnlessTorn /\ Queue!RecordedOnce /\ Queue!WorksAlone
           Lines  == Import!CheckpointIsTrue /\ Import!CreatedOnce /\ Import!CommittedIsSettled
           Marks  == Source!MarkedIsImported
           Dates  == Source!DatedOnce
<1>1. Turns /\ Lines /\ Marks /\ (~Here \/ Dates) => DeliveredOnce
  BY DEF DeliveredOnce
<1>2. Queue!Spec => []Turns
  BY JobsKept, OnceHolds, AloneHeld, PTL
<1>3. Import!Spec => []Lines
  BY ImportHolds
<1>4. Source!Spec => []Marks
  BY MarkedHolds
<1>5. Source!SpecOver(Messages) => []Dates
  BY DatedHolds
<1>6. DeliverySpec => []~Here \/ ([]Here /\ Source!SpecOver(Messages))
  BY OneWindow
<1> HIDE DEF Here, Turns, Lines, Marks, Dates
<1>7. QED
  BY <1>1, <1>2, <1>3, <1>4, <1>5, <1>6, Composition, PTL

\* Every variable keeps its type, whichever is delivered.
THEOREM DeliveriesTyped == DeliverySpec => []TypesOK
<1>1. TypeOK /\ Audit!TypeOK /\ Queue!TypeOK /\ Import!TypeOK /\ Source!TypeOK => TypesOK
  BY DEF TypesOK
<1>2. QED
  BY <1>1, Composition, PolicyTypes, AuditTyped, QueueTyped, ImportTyped, SourceTyped, PTL
=============================================================================
