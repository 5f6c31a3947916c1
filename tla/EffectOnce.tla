----------------------------- MODULE EffectOnce -----------------------------
(***************************************************************************)
(* What the execution of policies promises about one external effect: it   *)
(* happens at most once per operation, it is only tried again when it is   *)
(* known not to have happened, and the ledger claims to know only what is  *)
(* so.                                                                     *)
(***************************************************************************)
CONSTANT Keys          \* the operations, by idempotency key

VARIABLES verdict,     \* what the ledger says of an operation
          happened     \* whether its effect has happened

Verdicts == {"open", "executed", "not_executed", "unknown"}

Init == /\ verdict  = [k \in Keys |-> "not_executed"]
        /\ happened = [k \in Keys |-> FALSE]

\* Somebody takes the operation up: only one that is known not to have happened.
Open(k) == /\ verdict[k] = "not_executed"
           /\ verdict' = [verdict EXCEPT ![k] = "open"]
           /\ UNCHANGED happened

\* The effect happens: never twice, never while the ledger knows better.
Happen(k) == /\ verdict[k] \in {"open", "unknown"} /\ ~happened[k]
             /\ happened' = [happened EXCEPT ![k] = TRUE]
             /\ UNCHANGED verdict

Settle(k) == /\ verdict[k] = "open"
             /\ \E v \in Verdicts \ {"open"} :
                  /\ v = "executed" => happened[k]
                  /\ v = "not_executed" => ~happened[k]
                  /\ verdict' = [verdict EXCEPT ![k] = v]
             /\ UNCHANGED happened

Next == \E k \in Keys : Open(k) \/ Happen(k) \/ Settle(k)

Spec == Init /\ [][Next]_<<verdict, happened>>
=============================================================================
