-------------------------- MODULE PolicyExecution --------------------------
(***************************************************************************)
(* ReliablePolicySideEffectExecutor over policy_executions: an operation is *)
(* claimed under a lease, its external effect awaited while a timer renews  *)
(* the lease, retried when it is known not to have happened, and settled.   *)
(* A process may die while its call is on the way, and a call may outlive   *)
(* the one who waits for it.                                                *)
(***************************************************************************)
EXTENDS Integers

CONSTANTS Keys,        \* idempotency keys of one project
          Procs,       \* executions; each has a lease owner of its own
          NoOne,       \* the lease owner of a row nobody holds
          LeaseMs, RetryMs,
          MaxRetries   \* calls an execution repeats

ASSUME ExecutionAssumption ==
  /\ NoOne \notin Procs
  /\ LeaseMs \in Nat \ {0} /\ RetryMs \in Nat /\ MaxRetries \in Nat

VARIABLES row,         \* row[k]: the row of policy_executions
          proc,        \* proc[p]: an execution and what it returned last
          applied,     \* applied[k]: how often the effect has happened
          orphans      \* orphans[k]: calls under way that nobody waits for

vars == <<row, proc, applied, orphans>>

\* "executed" stands for executed and skipped, "not_executed" for
\* definitely_not_executed and failed_before_execution.
Outcome == {"none", "executed", "not_executed", "unknown"}

Row  == [status : {"none", "in_progress", "executed", "failed"}, outcome : Outcome,
         owner : Procs \cup {NoOne}, left : Nat, retry : Nat, dead : BOOLEAN]

Proc == [pc : {"idle", "calling"}, key : Keys, tries : Nat, acted : BOOLEAN,
         lost : BOOLEAN, told : {"nothing", "executed", "not_executed", "unknown", "in_progress"},
         todo : SUBSET Keys]

TypeOK == /\ row \in [Keys -> Row]
          /\ proc \in [Procs -> Proc]
          /\ applied \in [Keys -> Nat]
          /\ orphans \in [Keys -> Nat]

NoRow == [status |-> "none", outcome |-> "none", owner |-> NoOne,
          left |-> 0, retry |-> 0, dead |-> FALSE]

Init == /\ row = [k \in Keys |-> NoRow]
        /\ proc \in {[p \in Procs |->
                        [pc |-> "idle", key |-> k, tries |-> 0, acted |-> FALSE, lost |-> FALSE,
                         told |-> "nothing", todo |-> {}]] : k \in Keys}
        /\ applied = [k \in Keys |-> 0]
        /\ orphans = [k \in Keys |-> 0]

-----------------------------------------------------------------------------
(* Claiming, in one transaction.                                            *)

\* Mutant: a row whose lease ran out is taken over.
ClaimableExpired(r) ==
  \/ r.status = "none" \/ (r.status = "failed" /\ ~r.dead /\ r.retry = 0)
  \/ r.status = "in_progress" /\ r.left = 0

\* A row nobody has started, or one that failed, is not dead and is due.
Claimable(r) == r.status = "none" \/ (r.status = "failed" /\ ~r.dead /\ r.retry = 0)

Running(r) == r.status = "in_progress"

Claimed(p, r) == [status |-> "in_progress", outcome |-> "none", owner |-> p,
                  left |-> LeaseMs, retry |-> r.retry, dead |-> r.dead]

\* Mutant: what a lost lease leaves is tried again later.
OutrunRetried(r) == [status |-> "failed", outcome |-> "not_executed", owner |-> NoOne,
                     left |-> 0, retry |-> 0, dead |-> FALSE]

\* A lease that ran out leaves an outcome nobody knows.
Outrun(r) == [status |-> "failed", outcome |-> "unknown", owner |-> NoOne,
              left |-> 0, retry |-> 0, dead |-> TRUE]

\* What a call returns that does not get to call the delegate.
Declined(r) == CASE r.status = "executed" -> "executed"
                 [] Running(r) /\ r.left > 0 -> "in_progress"
                 [] OTHER -> "unknown"

\* execute: p wants k done.
Take(p, k, todo) ==
  IF Claimable(row[k])
  THEN /\ row' = [row EXCEPT ![k] = Claimed(p, @)]
       /\ proc' = [proc EXCEPT ![p] =
                     [pc |-> "calling", key |-> k, tries |-> 1, acted |-> FALSE,
                      lost |-> FALSE, told |-> "nothing", todo |-> todo]]
  ELSE /\ row' = [row EXCEPT ![k] = IF Running(@) /\ @.left = 0 THEN Outrun(@) ELSE @]
       /\ proc' = [proc EXCEPT ![p] =
                     [pc |-> "idle", key |-> k, tries |-> 0, acted |-> FALSE,
                      lost |-> FALSE, told |-> Declined(row[k]), todo |-> todo]]

Execute(p, k) == /\ proc[p].pc = "idle" /\ proc[p].todo = {}
                 /\ Take(p, k, {})
                 /\ UNCHANGED <<applied, orphans>>

\* replayPending: rows due at one moment, executed one after the other.  Those whose
\* time was long ago may be passed over.
ReplayPending(p) ==
  /\ proc[p].pc = "idle" /\ proc[p].todo = {}
  /\ \E due \in SUBSET {k \in Keys : row[k].status = "failed" /\ Claimable(row[k])} :
       due # {} /\ proc' = [proc EXCEPT ![p].todo = due]
  /\ UNCHANGED <<row, applied, orphans>>

ReplayNext(p) == /\ proc[p].pc = "idle"
                 /\ \E k \in proc[p].todo : Take(p, k, proc[p].todo \ {k})
                 /\ UNCHANGED <<applied, orphans>>

-----------------------------------------------------------------------------
(* The call, its timer, and its answer.                                     *)

Owns(p, r) == Running(r) /\ r.owner = p

\* The timer renews the lease, or learns that it is gone; a store that throws
\* counts as gone.
Heartbeat(p) ==
  /\ proc[p].pc = "calling"
  /\ \/ /\ Owns(p, row[proc[p].key])
        /\ row' = [row EXCEPT ![proc[p].key].left = LeaseMs]
        /\ UNCHANGED proc
     \/ /\ proc' = [proc EXCEPT ![p].lost = TRUE]
        /\ UNCHANGED row
  /\ UNCHANGED <<applied, orphans>>

\* The external system acts on the call.
Act(p) == /\ proc[p].pc = "calling" /\ ~proc[p].acted
          /\ applied' = [applied EXCEPT ![proc[p].key] = @ + 1]
          /\ proc' = [proc EXCEPT ![p].acted = TRUE]
          /\ UNCHANGED <<row, orphans>>

OrphanActs(k) == /\ orphans[k] > 0
                 /\ applied' = [applied EXCEPT ![k] = @ + 1]
                 /\ orphans' = [orphans EXCEPT ![k] = @ - 1]
                 /\ UNCHANGED <<row, proc>>

Returned(p, told) == [proc EXCEPT ![p].pc = "idle", ![p].told = told,
                                  ![p].tries = 0, ![p].acted = FALSE, ![p].lost = FALSE]

\* Mutant: an unknown outcome is scheduled like one known not to have happened.
SettledRetrying(outcome, replay) ==
  IF outcome = "executed"
  THEN [status |-> "executed", outcome |-> outcome, owner |-> NoOne,
        left |-> 0, retry |-> 0, dead |-> FALSE]
  ELSE [status |-> "failed", outcome |-> outcome, owner |-> NoOne, left |-> 0,
        retry |-> IF replay THEN RetryMs ELSE 0, dead |-> ~replay]

\* terminalRecord, with finishFailure's choice between a retry and the dead letters.
Settled(outcome, replay) ==
  IF outcome = "executed"
  THEN [status |-> "executed", outcome |-> outcome, owner |-> NoOne,
        left |-> 0, retry |-> 0, dead |-> FALSE]
  ELSE LET again == replay /\ outcome = "not_executed"
       IN  [status |-> "failed", outcome |-> outcome, owner |-> NoOne, left |-> 0,
            retry |-> IF again THEN RetryMs ELSE 0, dead |-> ~again]

\* Mutant: a late answer settles the row whatever has become of it.
MaySettleLate(p, r) == TRUE

\* finishClaim's WHERE
MaySettle(p, r) == Owns(p, r)

\* The answers a truthful delegate can give.  A call that reports nothing it knows,
\* a timeout for instance, may still be under way.
Answers(p) == (IF applied[proc[p].key] > 0 THEN {"executed"} ELSE {})
              \cup (IF proc[p].acted THEN {} ELSE {"not_executed"}) \cup {"unknown"}

\* Mutant: after an unknown outcome the loop calls again.
CallsAgainBlindly(p, outcome) == outcome # "executed" /\ proc[p].tries <= MaxRetries

CallsAgain(p, outcome) ==
  outcome = "not_executed" /\ proc[p].tries <= MaxRetries /\ ~proc[p].lost

\* The delegate's promise settles and the loop goes on, up to its next await.  The
\* statements that record the outcome may fail ("refused"), and so may what finishClaim
\* does after its commit ("unsaid").
Answer(p, outcome, store, replay) ==
  LET k == proc[p].key
      finish == /\ ~(outcome = "executed" /\ proc[p].lost)
                /\ store # "refused" /\ MaySettle(p, row[k])
  IN  /\ proc[p].pc = "calling" /\ outcome \in Answers(p)
      /\ IF CallsAgain(p, outcome)
         THEN /\ proc' = [proc EXCEPT ![p].tries = @ + 1, ![p].acted = FALSE]
              /\ UNCHANGED row
         ELSE /\ proc' = Returned(p, IF finish /\ store = "said" THEN outcome ELSE "unknown")
              /\ row' = IF finish THEN [row EXCEPT ![k] = Settled(outcome, replay)] ELSE row
      /\ \/ UNCHANGED orphans
         \/ /\ outcome = "unknown" /\ ~proc[p].acted
            /\ orphans' = [orphans EXCEPT ![k] = @ + 1]
      /\ UNCHANGED applied

\* A process dies; what it has sent may arrive.
Crash(p) ==
  /\ proc[p].pc = "calling" \/ proc[p].todo # {}
  /\ proc' = [proc EXCEPT ![p].pc = "idle", ![p].told = "nothing", ![p].todo = {},
                          ![p].tries = 0, ![p].acted = FALSE, ![p].lost = FALSE]
  /\ \/ UNCHANGED orphans
     \/ /\ proc[p].pc = "calling" /\ ~proc[p].acted
        /\ orphans' = [orphans EXCEPT ![proc[p].key] = @ + 1]
  /\ UNCHANGED <<row, applied>>

\* Mutant: a clock that runs below zero.
LessUnbounded(n) == n - 1

Less(n) == IF n > 0 THEN n - 1 ELSE 0

Elapse == /\ row' = [k \in Keys |-> [row[k] EXCEPT !.left = Less(@), !.retry = Less(@)]]
          /\ UNCHANGED <<proc, applied, orphans>>

Step(p) == \/ \E k \in Keys : Execute(p, k)
           \/ ReplayPending(p) \/ ReplayNext(p)
           \/ Heartbeat(p)
           \/ \E o \in Outcome, store \in {"said", "unsaid", "refused"}, replay \in BOOLEAN :
                Answer(p, o, store, replay)

Next == \/ \E p \in Procs : Step(p) \/ Act(p) \/ Crash(p)
        \/ \E k \in Keys : OrphanActs(k)
        \/ Elapse

Spec == Init /\ [][Next]_vars

-----------------------------------------------------------------------------
(* Properties                                                               *)

\* No call for k can still have an effect.
Quiet(k) == orphans[k] = 0 /\ \A p \in Procs : ~(proc[p].pc = "calling" /\ proc[p].key = k)

\* However leases run out and whoever dies, an effect happens at most once.
EffectAtMostOnce == \A k \in Keys : applied[k] <= 1

\* A row that says the effect has not happened can be believed: neither has it
\* happened, nor is anybody, living or dead, still about to make it happen.
NotExecutedIsKnown ==
  \A k \in Keys :
    row[k].outcome = "not_executed" \/ row[k].status = "none" => applied[k] = 0 /\ Quiet(k)

\* What execute reports is so at the moment it reports it.
ReportsAreTrue ==
  [][\A p \in Procs, k \in Keys :
       proc'[p].told # proc[p].told /\ proc'[p].key = k =>
         /\ proc'[p].told = "executed" => applied'[k] = 1
         /\ proc'[p].told = "not_executed" => applied'[k] = 0 /\ Quiet(k)']_vars

\* Executed and dead rows stay as they are.
DeadStays ==
  [][\A k \in Keys : row[k].status = "executed" \/ row[k].dead => row'[k] = row[k]]_vars

\* With leases, retries, heartbeats and crashes as stuttering, the executor implements
\* what EffectOnce promises.
Verdict == [k \in Keys |-> CASE row[k].status = "none" -> "not_executed"
                             [] row[k].status = "in_progress" -> "open"
                             [] OTHER -> row[k].outcome]

Effect == INSTANCE EffectOnce
  WITH verdict <- Verdict, happened <- [k \in Keys |-> applied[k] > 0]

ImplementsEffectOnce == Effect!Spec
=============================================================================
