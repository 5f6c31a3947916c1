--------------------------- MODULE BeliefRevision ---------------------------
(***************************************************************************)
(* What becomes of one single-valued belief, a preference for instance,    *)
(* that several episodes speak about.  A claim reaches BeliefStore.upsert  *)
(* along two paths: with the frame of an episode when that becomes active, *)
(* and with a Dream candidate when governance promotes it, of itself or    *)
(* after a review.  Repairs withdraw what they invalidate.                 *)
(***************************************************************************)
EXTENDS Naturals, Sequences

CONSTANTS Episodes,      \* each has at most one frame and one preference candidate
          Values,        \* what the preference may be
          Times,         \* when the episodes happened
          MaxBeliefs     \* bound: rows of beliefs

RevisionAssumption == Times \subseteq Nat \ {0} /\ MaxBeliefs \in Nat

VARIABLES claim,     \* claim[e]: what episode e says, and since when; it never changes
          frame,     \* frame[e]: status of the latest memory frame of e
          cand,      \* cand[e]: the latest preference candidate of e
          run,       \* the candidates a governance run has listed and not yet taken
          beliefs    \* the rows of the key, in the order of their insertion

vars == <<claim, frame, cand, run, beliefs>>

Claim  == [value : Values, when : Times]
Source == {"frame", "candidate"}

CandStatus == {"none", "candidate", "needs_confirmation", "promoted", "rejected", "superseded"}

\* by is superseded_by_belief_id, as a position; 0 for NULL.
Belief == [value : Values, when : Times, source : Source, episode : Episodes,
           status : {"active", "suspect", "superseded"}, by : 0..MaxBeliefs]

TypeOK == /\ claim \in [Episodes -> Claim]
          /\ frame \in [Episodes -> {"none", "needs_confirmation", "active", "superseded"}]
          /\ cand \in [Episodes -> [status : CandStatus, target : 0..MaxBeliefs]]
          /\ run \subseteq Episodes
          /\ beliefs \in Seq(Belief) /\ Len(beliefs) <= MaxBeliefs
          /\ \A i \in 1..Len(beliefs) :
               /\ beliefs[i].by <= Len(beliefs) /\ beliefs[i].by # i
               /\ beliefs[i].status = "superseded" => beliefs[i].by > 0
          /\ \A e \in Episodes : (cand[e].target > 0) = (cand[e].status = "promoted")

NoCandidate == [status |-> "none", target |-> 0]

Init == /\ claim \in [Episodes -> Claim]
        /\ frame = [e \in Episodes |-> "none"]
        /\ cand = [e \in Episodes |-> NoCandidate]
        /\ run = {}
        /\ beliefs = <<>>

-----------------------------------------------------------------------------
(* upsert and its conflict resolution.                                      *)

Row(e, source) == [value |-> claim[e].value, when |-> claim[e].when, source |-> source,
                   episode |-> e, status |-> "active", by |-> 0]

\* Mutant: rows are compared by the time they were written.
VerdictsUndated(new, old) == IF new.source = old.source THEN {"incoming"} ELSE {"incoming", "existing", "tie"}

\* compareBeliefs, for claims of one confidence.  A newer revision from the same kind of
\* source wins over an older one (the preference rule); an older one is at best a tie,
\* because it is less fresh.  What two kinds of sources weigh is left open.
Verdicts(new, old) ==
  IF new.source # old.source THEN {"incoming", "existing", "tie"}
  ELSE IF new.when > old.when THEN {"incoming"}
  ELSE IF new.when = old.when THEN {"tie"}
  ELSE {"existing", "tie"}

Live == {i \in 1..Len(beliefs) : beliefs[i].status \in {"active", "suspect"}}
Same(new) == {i \in Live : beliefs[i].value = new.value}

Beaten(v) == {i \in DOMAIN v : v[i] = "incoming"}
Beats(v)  == {i \in DOMAIN v : v[i] = "existing"}

\* resolveConflict: what the verdicts v on the other values mean for the incoming row.
\* "strong" is incomingStrength >= 0.72.
Refused(new, v, strong) == /\ Live # {}
                           /\ \/ Same(new) = Live /\ ~strong
                              \/ Same(new) # Live /\ Beats(v) = Live

Replaced(v) == IF Beats(v) = {} THEN Beaten(v) ELSE {}

\* Mutant: what is replaced points at the row before the new one.
InsertedBack(new, gone) ==
  Append([i \in 1..Len(beliefs) |-> IF i \in gone
            THEN [beliefs[i] EXCEPT !.status = "superseded", !.by = Len(beliefs)]
            ELSE beliefs[i]], new)

Inserted(new, gone) ==
  Append([i \in 1..Len(beliefs) |-> IF i \in gone
            THEN [beliefs[i] EXCEPT !.status = "superseded", !.by = Len(beliefs) + 1]
            ELSE beliefs[i]], new)

\* upsert: refused, or a new active row.
Upsert(new, refused) ==
  \E v \in [Live \ Same(new) -> {"incoming", "existing", "tie"}], strong \in BOOLEAN :
    /\ \A i \in DOMAIN v : v[i] \in Verdicts(new, beliefs[i])
    /\ refused = Refused(new, v, strong)
    /\ IF refused THEN UNCHANGED beliefs
       ELSE Len(beliefs) < MaxBeliefs /\ beliefs' = Inserted(new, Replaced(v))

-----------------------------------------------------------------------------
(* Frames.                                                                  *)

\* findActiveEquivalent
Recorded(new) == \E i \in 1..Len(beliefs) :
                   beliefs[i].status = "active" /\ beliefs[i].value = new.value

\* The listener: projectFrameRelationsToBeliefs.
Project(e) ==
  LET new == Row(e, "frame")
  IN  IF Recorded(new) THEN UNCHANGED beliefs ELSE \E r \in BOOLEAN : Upsert(new, r)

\* A Dream publishes a frame of e, over the one before it.
PublishFrame(e) == /\ frame' = [frame EXCEPT ![e] = "active"]
                   /\ Project(e)
                   /\ UNCHANGED <<claim, cand, run>>

\* ... or one that waits for an operator, beside the active one.
ProposeFrame(e) == /\ frame[e] # "active"
                   /\ frame' = [frame EXCEPT ![e] = "needs_confirmation"]
                   /\ UNCHANGED <<claim, cand, run, beliefs>>

ApproveFrame(e) == frame[e] = "needs_confirmation" /\ PublishFrame(e)

-----------------------------------------------------------------------------
(* Candidates.                                                              *)

\* A Dream publishes the episode's candidate, for governance or for a review.
PublishCandidate(e, status) ==
  /\ cand[e].status \in {"none", "superseded"} /\ status \in {"candidate", "needs_confirmation"}
  /\ cand' = [cand EXCEPT ![e] = [status |-> status, target |-> 0]]
  /\ UNCHANGED <<claim, frame, run, beliefs>>

Marked(e, status) == [cand EXCEPT ![e] = [status |-> status, target |-> 0]]

\* promotePending lists what is waiting; each row is then taken in its own transaction.
ListPending == /\ run = {}
               /\ run' = {e \in Episodes : cand[e].status = "candidate"}
               /\ run' # {}
               /\ UNCHANGED <<claim, frame, cand, beliefs>>

\* Mutant: the row is not claimed again.
TakesListed(e) == TRUE

\* claimCandidate
Takes(e) == cand[e].status = "candidate"

\* promotePreference
Promote(e) == \E refused \in BOOLEAN :
                /\ Upsert(Row(e, "candidate"), refused)
                /\ cand' = IF refused THEN Marked(e, "needs_confirmation")
                           ELSE [cand EXCEPT ![e] = [status |-> "promoted",
                                                     target |-> Len(beliefs) + 1]]

\* atomicEvaluate: lost, left in the queue, sent to a review, rejected, or promoted.
Evaluate(e) ==
  /\ e \in run /\ run' = run \ {e}
  /\ \/ ~Takes(e) /\ UNCHANGED <<cand, beliefs>>
     \/ Takes(e) /\ Promote(e)
     \/ /\ Takes(e)
        /\ \E s \in {"candidate", "needs_confirmation", "rejected"} : cand' = Marked(e, s)
        /\ UNCHANGED beliefs
  /\ UNCHANGED <<claim, frame>>

\* review: approve confirms, evaluates and may still leave the row waiting; reject and
\* supersede close it, and so does its expiry; deferring changes no status.
Approve(e) == /\ cand[e].status = "needs_confirmation"
              /\ \/ Promote(e)
                 \/ cand' = Marked(e, "candidate") /\ UNCHANGED beliefs
                 \/ cand' = Marked(e, "rejected") /\ UNCHANGED beliefs
              /\ UNCHANGED <<claim, frame, run>>

Close(e, status) == /\ cand[e].status = "needs_confirmation"
                    /\ status \in {"rejected", "superseded"}
                    /\ cand' = Marked(e, status)
                    /\ UNCHANGED <<claim, frame, run, beliefs>>

-----------------------------------------------------------------------------
(* Repair.                                                                  *)

\* Mutant: memory that was promoted stays as it is.
InvalidatedNothing(e) == beliefs

\* invalidatePromotedCandidate
Invalidated(e) ==
  [i \in 1..Len(beliefs) |->
     IF i = cand[e].target THEN [beliefs[i] EXCEPT !.status = "suspect"] ELSE beliefs[i]]

\* repairEpisodeInTransaction over e: frames and candidates are superseded, and what the
\* candidates became is suspected.  Requeueing the dream alone leaves the frame.
Repair(e, moved) ==
  /\ frame' = IF moved /\ frame[e] # "none" THEN [frame EXCEPT ![e] = "superseded"] ELSE frame
  /\ cand' = IF cand[e].status \in {"none", "superseded"} THEN cand ELSE Marked(e, "superseded")
  /\ beliefs' = Invalidated(e)
  /\ <<frame', cand'>> # <<frame, cand>>
  /\ UNCHANGED <<claim, run>>

Next == \/ ListPending
        \/ \E e \in Episodes :
             \/ PublishFrame(e) \/ ProposeFrame(e) \/ ApproveFrame(e)
             \/ \E s \in CandStatus : PublishCandidate(e, s) \/ Close(e, s)
             \/ Evaluate(e) \/ Approve(e)
             \/ \E moved \in BOOLEAN : Repair(e, moved)

Spec == Init /\ [][Next]_vars

-----------------------------------------------------------------------------
(* Properties                                                               *)

\* What recall reads as promoted memory rests on a candidate that still stands promoted:
\* neither a review, nor an expiry, nor a repair leaves it behind.
RestsOnPromoted ==
  \A i \in 1..Len(beliefs) :
    beliefs[i].source = "candidate" /\ beliefs[i].status = "active" =>
      cand[beliefs[i].episode] = [status |-> "promoted", target |-> i]

\* However late a frame is published, nothing it says replaces what a later episode said.
LaterWordStands ==
  \A i \in 1..Len(beliefs) : beliefs[i].status = "superseded" =>
    LET j == beliefs[i].by
    IN  beliefs[j].source = beliefs[i].source => beliefs[j].when > beliefs[i].when

\* Supersession leads on, to a row inserted later and of another value: following the
\* pointers ends, and a row is never replaced by what says the same.
ChainEnds ==
  \A i \in 1..Len(beliefs) : beliefs[i].status = "superseded" =>
    LET j == beliefs[i].by IN j > i /\ beliefs[j].value # beliefs[i].value

\* A candidate that was decided on is decided: only a repair or a new Dream changes it,
\* and nothing is promoted twice.
DecidedStays ==
  [][\A e \in Episodes :
       /\ cand[e].status = "rejected" => cand'[e].status \in {"rejected", "superseded"}
       /\ cand[e].status = "promoted" => cand'[e] = cand[e] \/ cand'[e].status = "superseded"
       /\ cand[e].status = "superseded" => cand'[e].target = 0]_vars

\* The comment on SINGLE_VALUED_KEYS: "predicates that hold one value per subject"; a change
\* of mind "must leave the old row behind ... and let recall return the current one".
OneCurrentValue ==
  \A i, j \in 1..Len(beliefs) :
    /\ beliefs[i].source = "frame" /\ beliefs[j].source = "frame"
    /\ beliefs[i].status = "active" /\ beliefs[j].status = "active"
    /\ beliefs[i].when < beliefs[j].when
    => beliefs[i].value = beliefs[j].value
=============================================================================
