------------------------- MODULE ProspectiveMemory -------------------------
(***************************************************************************)
(* The prospective memories of a project (intentions, commitments,         *)
(* reminders): candidates proposed from raw events, confirmed by an event  *)
(* in which the user says so, deferred, completed, rejected or expired,    *)
(* and listed when they are due.  propose and resolve are immediate        *)
(* transactions, so each is one step; what is open is their order, over    *)
(* a log of events and a clock that go on.                                 *)
(***************************************************************************)
EXTENDS Naturals, Sequences

CONSTANTS Keys,        \* canonical keys, after trimming and lower-casing
          MaxEvents,   \* bound: raw events ever written
          MaxRows,     \* bound: candidates ever created
          MaxClock     \* bound: the clock

ASSUME ProspectiveAssumption == {MaxEvents, MaxRows, MaxClock} \subseteq Nat

VARIABLES log,          \* the raw events by globalSeq: the kind of each
          rows,         \* prospective_memories, in the order of creation
          transitions,  \* prospective_memory_transitions that confirm: <<row, event>>
          clock

vars == <<log, rows, transitions, clock>>

(* A user's explicit affirmation can confirm; what the assistant says, and *)
(* what a user says without affirming or along with a negation, cannot.    *)
Kinds     == {"affirms", "speaks"}
Terminal  == {"rejected", "completed", "expired"}
Statuses  == {"pending", "confirmed", "deferred"} \cup Terminal
None      == 0
Never     == MaxClock + 1     \* a due_at or deferred_until that is NULL

TypeOK == /\ log \in Seq(Kinds) /\ Len(log) <= MaxEvents /\ clock \in 0..MaxClock
          /\ rows \in Seq([key : Keys, version : 1..MaxRows,
                           evidence : SUBSET (1..Len(log)) \ {{}}, status : Statuses,
                           confirmation : 0..Len(log), due : 0..Never, until : 1..Never])
          /\ transitions \subseteq (DOMAIN rows) \X (DOMAIN log)

Init == log = <<>> /\ rows = <<>> /\ transitions = {} /\ clock = 0

Of(k)     == {i \in DOMAIN rows : rows[i].key = k}
Latest(k) == CHOOSE i \in Of(k) : \A j \in Of(k) : rows[j].version <= rows[i].version

-----------------------------------------------------------------------------
(* The conversation and the clock go on. *)
Say(kind) == /\ Len(log) < MaxEvents
             /\ log' = Append(log, kind)
             /\ UNCHANGED <<rows, transitions, clock>>

Tick == clock < MaxClock /\ clock' = clock + 1 /\ UNCHANGED <<log, rows, transitions>>

(* propose: the evidence of the latest version, as a set, proposes nothing *)
(* new, whatever became of it; any other makes the next version.           *)
Known(k, evidence) == Of(k) # {} /\ rows[Latest(k)].evidence = evidence
NextVersionFromZero(k) == IF Of(k) = {} THEN 0 ELSE rows[Latest(k)].version + 1
NextVersion(k) == IF Of(k) = {} THEN 1 ELSE rows[Latest(k)].version + 1

Propose(k, evidence, due) ==
  /\ Len(rows) < MaxRows /\ ~Known(k, evidence)
  /\ rows' = Append(rows, [key |-> k, version |-> NextVersion(k), evidence |-> evidence,
                           status |-> "pending", confirmation |-> None,
                           due |-> due, until |-> Never])
  /\ UNCHANGED <<log, transitions, clock>>

(* resolve: what confirms is a user's affirmation after all the evidence   *)
(* of the proposal, the confirmation of no other row now.  A deferred row  *)
(* is confirmed anew, by the same event or a later one.                    *)
AffirmsEarly(i, e) == /\ log[e] = "affirms" /\ e \notin rows[i].evidence
                      /\ \A j \in DOMAIN rows : j # i => rows[j].confirmation # e
Affirms(i, e) == /\ log[e] = "affirms" /\ e \notin rows[i].evidence
                 /\ \A s \in rows[i].evidence : s < e
                 /\ \A j \in DOMAIN rows : j # i => rows[j].confirmation # e

Confirm(i, e) ==
  /\ rows[i].status \in {"pending", "deferred"} /\ Affirms(i, e)
  /\ rows' = [rows EXCEPT ![i].status = "confirmed", ![i].confirmation = e, ![i].until = Never]
  /\ transitions' = transitions \cup {<<i, e>>}
  /\ UNCHANGED <<log, clock>>

FromOpen(action) == Statuses \ Terminal
FromAny(action)  == IF action \in {"deferred", "completed"} THEN {"confirmed"} ELSE Statuses
From(action) == IF action \in {"deferred", "completed"} THEN {"confirmed"}
                                                        ELSE Statuses \ Terminal

Resolve(i, action, until) ==
  /\ rows[i].status \in From(action)
  /\ rows' = [rows EXCEPT ![i].status = action, ![i].until = until]
  /\ UNCHANGED <<log, transitions, clock>>

Defer(i) == \E t \in clock + 1..MaxClock : Resolve(i, "deferred", t)

End(i) == \E action \in Terminal : Resolve(i, action, rows[i].until)

Next == \/ \E kind \in Kinds : Say(kind)
        \/ Tick
        \/ \E k \in Keys, evidence \in SUBSET (DOMAIN log) \ {{}}, due \in {clock, clock + 1, Never} :
             Propose(k, evidence, due)
        \/ \E i \in DOMAIN rows : \/ \E e \in DOMAIN log : Confirm(i, e)
                                  \/ Defer(i) \/ End(i)

Spec == Init /\ [][Next]_vars

-----------------------------------------------------------------------------
(* listDue at the current time. *)
IsDue(i) == \/ rows[i].status = "confirmed" /\ rows[i].due <= clock
            \/ rows[i].status = "deferred" /\ rows[i].until <= clock

(* Whatever listDue hands out, in whatever order candidates were proposed  *)
(* anew, confirmed, deferred and confirmed again, rests on a user's        *)
(* affirmation given after all the evidence it was proposed from, and no   *)
(* two candidates it hands out rest on the same one.                       *)
DueIsConsented ==
  \A i \in DOMAIN rows : IsDue(i) =>
    /\ rows[i].confirmation # None
    /\ log[rows[i].confirmation] = "affirms"
    /\ \A e \in rows[i].evidence : e < rows[i].confirmation
    /\ \A j \in DOMAIN rows : IsDue(j) /\ j # i => rows[j].confirmation # rows[i].confirmation

(* The rows carry the audit: every confirmation in force is the subject of *)
(* a transition of that row, and only a row that was once confirmed can    *)
(* have been deferred or completed.                                        *)
ConfirmedOnRecord ==
  \A i \in DOMAIN rows :
    /\ rows[i].confirmation # None => <<i, rows[i].confirmation>> \in transitions
    /\ rows[i].status \in {"confirmed", "deferred", "completed"} => rows[i].confirmation # None

(* A candidate that ended stays as it ended: neither a late confirmation   *)
(* nor a proposal with the same evidence brings the row itself back.       *)
EndedStays ==
  [][\A i \in DOMAIN rows : rows[i].status \in Terminal => rows'[i] = rows[i]]_vars

(* The test at __tests__/prospective-memory-v1.unit.test.ts:125, "does not *)
(* let one user confirmation activate multiple candidates": of two rows    *)
(* ever confirmed, the confirming events are two.                          *)
OneCandidatePerAffirmation ==
  \A s, t \in transitions : s[2] = t[2] => s[1] = t[1]

(* The test at line 50, "rejected candidates do not resurface without new  *)
(* evidence": a new version of a key has evidence that no rejected version *)
(* of it had.                                                              *)
ResurfacesWithNewEvidence ==
  [][\A j \in DOMAIN rows' \ DOMAIN rows : \A i \in Of(rows'[j].key) :
       rows[i].status = "rejected" => ~(rows'[j].evidence \subseteq rows[i].evidence)]_vars
=============================================================================
