-------------------------- MODULE EventProjection --------------------------
(***************************************************************************)
(* How what happened to a policy execution reaches its read model.  A      *)
(* finished command commits its record together with an outbox row; rows   *)
(* are flushed to the event log by whoever opens the store or finishes the *)
(* next command; a projector replays the log into a read model, or         *)
(* rebuilds that behind a staging table.  Every process can die between    *)
(* two statements, and the event store can refuse.                         *)
(***************************************************************************)
EXTENDS Naturals, Sequences

CONSTANTS Keys,          \* idempotency keys of one project
          Flushers,      \* processes that hold the store
          MaxVersions,   \* bound: records written per key
          MaxAttempts    \* attempts after which a row is given up; the code has 5

ProjectionAssumption == MaxVersions \in Nat /\ MaxAttempts \in Nat \ {0}

VARIABLES command,  \* command[k]: version of the last record of policy_executions
          outbox,   \* rows of policy_execution_audit_outbox
          log,      \* the events, in the order of their global_seq
          flush,    \* flush[f]: where f is in flushAuditOutbox
          model,    \* model[k]: row of policy_execution_read_model
          ckpt,     \* row of policy_projection_state
          proj      \* the projector's run

vars == <<command, outbox, log, flush, model, ckpt, proj>>

Record == [key : Keys, version : 1..MaxVersions]

\* A row that is not due waits for its next_retry_at.
OutboxRow == [record : Record, attempts : 0..MaxAttempts, due : BOOLEAN, dead : BOOLEAN]

\* A row of the read model: the record it shows and the event it comes from.
Shown == [version : 0..MaxVersions, seq : Nat]

Unshown == [k \in Keys |-> [version |-> 0, seq |-> 0]]

TypeOK ==
  /\ command \in [Keys -> 0..MaxVersions]
  /\ outbox \subseteq OutboxRow
  /\ \A r, s \in outbox : r.record = s.record => r = s
  /\ log \in Seq(Record)
  /\ flush \in [Flushers -> [pc : {"away", "scan", "look", "append", "delete"},
                             rows : SUBSET OutboxRow, row : SUBSET OutboxRow]]
  /\ model \in [Keys -> Shown]
  /\ ckpt \in [status : {"none", "building", "ready"}, seq : 0..Len(log)]
  /\ proj \in [pc : {"away", "replay", "rebuild", "checkpoint"}, stage : [Keys -> Shown],
               cursor : 0..Len(log), through : 0..Len(log)]

Away == [pc |-> "away", rows |-> {}, row |-> {}]

Rest == [pc |-> "away", stage |-> Unshown, cursor |-> 0, through |-> 0]

Init == /\ command = [k \in Keys |-> 0]
        /\ outbox = {}
        /\ log = <<>>
        /\ flush = [f \in Flushers |-> Away]
        /\ model = Unshown
        /\ ckpt = [status |-> "none", seq |-> 0]
        /\ proj = Rest

-----------------------------------------------------------------------------
(* Commands and the outbox.                                                 *)

\* finishClaim: the record and its outbox row commit together, then the flush starts.
Finish(f, k) ==
  LET r == [key |-> k, version |-> command[k] + 1]
  IN  /\ flush[f].pc = "away" /\ r.version <= MaxVersions
      /\ command' = [command EXCEPT ![k] = r.version]
      /\ outbox' = outbox \cup {[record |-> r, attempts |-> 0, due |-> TRUE, dead |-> FALSE]}
      /\ flush' = [flush EXCEPT ![f].pc = "scan"]
      /\ UNCHANGED <<log, model, ckpt, proj>>

\* The constructor flushes.
Open(f) == /\ flush[f].pc = "away"
           /\ flush' = [flush EXCEPT ![f].pc = "scan"]
           /\ UNCHANGED <<command, outbox, log, model, ckpt, proj>>

Due == {r \in outbox : r.due /\ ~r.dead}

\* The SELECT of the loop.
Scan(f) ==
  /\ flush[f].pc = "scan"
  /\ flush' = [flush EXCEPT ![f] = IF Due = {} THEN Away
                                   ELSE [pc |-> "look", rows |-> Due, row |-> {}]]
  /\ UNCHANGED <<command, outbox, log, model, ckpt, proj>>

InLog(r) == \E i \in 1..Len(log) : log[i] = r

NextPc(rows) == IF rows = {} THEN "scan" ELSE "look"

\* getEvent(outbox_id).  Rows of one millisecond come in the order of their hashes.
Look(f) ==
  /\ flush[f].pc = "look"
  /\ \E row \in flush[f].rows :
       flush' = [flush EXCEPT ![f] = [pc |-> IF InLog(row.record) THEN "delete" ELSE "append",
                                      rows |-> @.rows \ {row}, row |-> {row}]]
  /\ UNCHANGED <<command, outbox, log, model, ckpt, proj>>

\* Mutant: the event gets an id of its own.
AcceptsAgain(r) == TRUE

\* event_id is the primary key of memory_events.
Accepts(r) == ~InLog(r)

AppendEvent(f) ==
  /\ flush[f].pc = "append"
  /\ \E row \in flush[f].row : Accepts(row.record) /\ log' = Append(log, row.record)
  /\ flush' = [flush EXCEPT ![f].pc = "delete"]
  /\ UNCHANGED <<command, outbox, model, ckpt, proj>>

\* Mutant: a row is put back beside itself.
OthersAndItself(row) == outbox

Others(row) == {r \in outbox : r.record # row.record}

Delete(f) ==
  /\ flush[f].pc = "delete"
  /\ \E row \in flush[f].row : outbox' = Others(row)
  /\ flush' = [flush EXCEPT ![f] = [pc |-> NextPc(@.rows), rows |-> @.rows, row |-> {}]]
  /\ UNCHANGED <<command, log, model, ckpt, proj>>

\* Mutant: a row that failed often enough is dropped.
FailedDropping(row) ==
  IF row.attempts + 1 >= MaxAttempts THEN {}
  ELSE {[row EXCEPT !.attempts = @ + 1, !.due = FALSE]}

\* What the failure of one row leaves: a later attempt, or the dead letters.  The count
\* is the one the SELECT saw.
Failed(row) ==
  LET last == row.attempts + 1 >= MaxAttempts
  IN  {[row EXCEPT !.attempts = @ + 1, !.due = last, !.dead = last]}

\* The event store refuses, or the DELETE does; an id it knows it always refuses.
RowFails(f) ==
  /\ flush[f].pc \in {"look", "append", "delete"}
  /\ \E row \in IF flush[f].pc = "look" THEN flush[f].rows ELSE flush[f].row :
       /\ outbox' = IF \E r \in outbox : r.record = row.record
                    THEN Others(row) \cup Failed(row) ELSE outbox
       /\ flush' = [flush EXCEPT ![f] = [pc |-> NextPc(@.rows \ {row}),
                                         rows |-> @.rows \ {row}, row |-> {}]]
  /\ UNCHANGED <<command, log, model, ckpt, proj>>

FlusherDies(f) == /\ flush[f].pc # "away"
                  /\ flush' = [flush EXCEPT ![f] = Away]
                  /\ UNCHANGED <<command, outbox, log, model, ckpt, proj>>

\* next_retry_at passes.
RetryTime == /\ \E r \in outbox :
                  /\ ~r.due
                  /\ outbox' = (outbox \ {r}) \cup {[r EXCEPT !.due = TRUE]}
             /\ UNCHANGED <<command, log, flush, model, ckpt, proj>>

-----------------------------------------------------------------------------
(* The projector.                                                           *)

\* fullRebuild's start: the high-water mark is read before the status is written.
Rebuild == /\ ckpt' = [status |-> "building", seq |-> 0]
           /\ proj' = [pc |-> "rebuild", stage |-> Unshown, cursor |-> 0, through |-> Len(log)]

\* bootstrap trusts a checkpoint that says ready.
ReplayFrom == ckpt.status = "ready"

Bootstrap ==
  /\ proj.pc = "away"
  /\ IF ReplayFrom
     THEN /\ Len(log) > ckpt.seq
          /\ proj' = [pc |-> "replay", stage |-> Unshown,
                      cursor |-> ckpt.seq, through |-> Len(log)]
          /\ UNCHANGED ckpt
     ELSE Rebuild
  /\ UNCHANGED <<command, outbox, log, flush, model>>

FullRebuild == /\ proj.pc = "away"
               /\ Rebuild
               /\ UNCHANGED <<command, outbox, log, flush, model>>

\* Mutant: the event is applied whatever is shown.
UpsertBlind(table, i) ==
  [k \in Keys |-> IF log[i].key = k THEN [version |-> log[i].version, seq |-> i] ELSE table[k]]

\* upsertReadModel: an event older than the one shown changes nothing.
Upsert(table, i) ==
  [k \in Keys |-> IF log[i].key = k /\ i >= table[k].seq
                  THEN [version |-> log[i].version, seq |-> i] ELSE table[k]]

\* One event of a page.  New events have a greater global_seq than the mark, so that
\* the pages hold the same events whenever they are read.
ApplyEvent ==
  /\ proj.pc \in {"replay", "rebuild"} /\ proj.cursor < proj.through
  /\ LET i == proj.cursor + 1
     IN  IF proj.pc = "replay"
         THEN /\ model' = Upsert(model, i)
              /\ proj' = [proj EXCEPT !.cursor = i]
         ELSE /\ proj' = [proj EXCEPT !.cursor = i, !.stage = Upsert(@, i)]
              /\ UNCHANGED model
  /\ UNCHANGED <<command, outbox, log, flush, ckpt>>

\* The staged rows replace the read model in one transaction.
Publish == /\ proj.pc = "rebuild" /\ proj.cursor = proj.through
           /\ model' = proj.stage
           /\ proj' = [proj EXCEPT !.pc = "checkpoint", !.stage = Unshown]
           /\ UNCHANGED <<command, outbox, log, flush, ckpt>>

\* Mutant: the checkpoint claims what is in the log by now.
ReachedNow == Len(log)

Reached == proj.through

WriteCheckpoint ==
  /\ \/ proj.pc = "checkpoint"
     \/ proj.pc = "replay" /\ proj.cursor = proj.through
  /\ ckpt' = [status |-> "ready", seq |-> Reached]
  /\ proj' = Rest
  /\ UNCHANGED <<command, outbox, log, flush, model>>

\* A replay that throws becomes a rebuild; a rebuild that throws drops its stage.
ProjectionFails ==
  /\ \/ proj.pc = "replay" /\ Rebuild
     \/ proj.pc \in {"rebuild", "checkpoint"} /\ proj' = Rest /\ UNCHANGED ckpt
  /\ UNCHANGED <<command, outbox, log, flush, model>>

\* The projector's process dies; the staging table was a temporary one.
ProjectorDies == /\ proj.pc # "away"
                 /\ proj' = Rest
                 /\ UNCHANGED <<command, outbox, log, flush, model, ckpt>>

Flush(f) == Open(f) \/ Scan(f) \/ Look(f) \/ AppendEvent(f) \/ Delete(f) \/ RowFails(f)

Next == \/ \E f \in Flushers : Flush(f) \/ FlusherDies(f) \/ \E k \in Keys : Finish(f, k)
        \/ RetryTime
        \/ Bootstrap \/ FullRebuild \/ ApplyEvent \/ Publish \/ WriteCheckpoint
        \/ ProjectionFails \/ ProjectorDies

Spec == Init /\ [][Next]_vars

-----------------------------------------------------------------------------
(* Properties                                                               *)

\* However often a row is tried, and by whom, its event is in the log once.
RecordedOnce == \A i, j \in 1..Len(log) : log[i] = log[j] => i = j

\* No crash loses the audit of a record: it is in the log or still in the outbox.
AuditKept ==
  \A k \in Keys : \A v \in 1..command[k] :
    LET r == [key |-> k, version |-> v]
    IN  InLog(r) \/ \E row \in outbox : row.record = r

\* The greatest sequence number up to n of an event of k, 0 if there is none.
LastSeq(k, n) ==
  LET seqs == {i \in 1..n : log[i].key = k}
  IN  IF seqs = {} THEN 0 ELSE CHOOSE i \in seqs : \A j \in seqs : j <= i

\* A checkpoint that says ready can be believed: the read model has every event up to it,
\* and what it shows is what its event says.
CheckpointIsHonest ==
  /\ \A k \in Keys : model[k].seq > 0 =>
       model[k].seq <= Len(log) /\ log[model[k].seq] = [key |-> k, version |-> model[k].version]
  /\ ckpt.status = "ready" => \A k \in Keys : model[k].seq >= LastSeq(k, ckpt.seq)

\* Rebuilds, replays and their failures never take a reader back.
ReadersNeverGoBack == [][\A k \in Keys : model'[k].seq >= model[k].seq]_vars
=============================================================================
