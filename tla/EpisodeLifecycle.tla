--------------------------- MODULE EpisodeLifecycle ---------------------------
(***************************************************************************)
(* How the turns of one conversation (one project, session, source agent    *)
(* and thread) become episodes.                                             *)
(*                                                                          *)
(* EpisodeAssembler.appendTurnAsync looks up the active episode, awaits an  *)
(* advisory reviewer, and then in one transaction appends, reopens, seals   *)
(* or starts an episode.  Meanwhile the same message may be delivered again, *)
(* maintenance soft-seals what went quiet, the Dream scheduler and the Night *)
(* promote soft seals, importers seal what they touched, operators seal.     *)
(*                                                                          *)
(* Noise turns touch no episode and are left out, as is the batchSeal option *)
(* of appendTurn, which no caller sets.                                     *)
(***************************************************************************)
EXTENDS Integers, Sequences, FiniteSets, Functions

CONSTANTS
  Episodes,       \* episode ids
  Events,         \* raw events of the conversation
  UserEvents,     \* those whose role is user
  Calls,          \* deliveries in flight, duplicates included
  NoEpisode, NoEvent,
  IdleGap,        \* maxIdleGapMs, in units of Elapse
  Grace,          \* softSealGraceMs
  ReopenWindow,   \* softReopenWindowMs
  MaxAge,         \* bound: ages are not told apart beyond it
  OneWriter,      \* a sweep runs in the host's own process, without an await
  ImportReseals   \* the importer seals what it touched whatever its status is

ASSUME ConstantsAssumption ==
  /\ UserEvents \subseteq Events
  /\ NoEpisode \notin Episodes /\ NoEvent \notin Events
  /\ {IdleGap, Grace, ReopenWindow} \subseteq 0 .. (MaxAge - 1) /\ MaxAge \in Nat
  /\ OneWriter \in BOOLEAN /\ ImportReseals \in BOOLEAN

VARIABLES
  ep,      \* memory_episodes, their links in order, last receipt and job row
  judged,  \* per linked event: its relation, and the links it was judged against
  call,    \* per delivery: the event, and what was read before the await
  sweep    \* the maintenance sweep in progress

vars == <<ep, judged, call, sweep>>

\* "continues" stands for the eight relations a soft seal reopens for, "switch"
\* for the three hard ones, "other" for the rest.
Relations == {"continues", "other", "ambiguous", "switch", "closes"}
Sweeps    == {"none", "idle", "grace", "night"}

\* A receipt without events is no receipt: sealing always finds some.
NoReceipt == [events |-> <<>>, review |-> FALSE]
Absent    == [status |-> "absent", links |-> <<>>, quiet |-> 0, since |-> 0,
              receipt |-> NoReceipt, queued |-> FALSE]
NoCall    == [event |-> NoEvent, seen |-> NoEpisode, row |-> Absent]
NoSweep   == [kind |-> "none", todo |-> {}, cur |-> NoEpisode, links |-> <<>>]
NotJudged == [relation |-> "other", basis |-> <<>>]

Init ==
  /\ ep     = [e \in Episodes |-> Absent]
  /\ judged = [v \in Events |-> NotJudged]
  /\ call   = [c \in Calls |-> NoCall]
  /\ sweep  = NoSweep

-----------------------------------------------------------------------------
(* Rows.                                                                    *)

InStatus(s) == {e \in Episodes : ep[e].status = s}

Linked(v, e)    == v \in Range(ep[e].links)
Elsewhere(v, e) == \E f \in Episodes \ {e} : Linked(v, f)

\* Mutant: the soft-sealed episode is preferred to the open one.
ActiveSoftFirst ==
  IF InStatus("soft_sealed") # {} THEN InStatus("soft_sealed")
  ELSE IF InStatus("open") # {} THEN InStatus("open") ELSE {NoEpisode}

\* findActiveEpisode: the open episode, else the soft-sealed one updated last.
Active ==
  LET Soft == InStatus("soft_sealed")
  IN  IF InStatus("open") # {} THEN InStatus("open")
      ELSE IF Soft = {} THEN {NoEpisode}
      ELSE {e \in Soft : \A f \in Soft : ep[e].since <= ep[f].since}

\* The part of a row episodeBoundaryFingerprint hashes (updated_at and sealed_at
\* are kept as ages); the receipt and the job row are not in it.
Fingerprint(row) == [row EXCEPT !.receipt = NoReceipt, !.queued = FALSE]
RowOf(e)         == IF e = NoEpisode THEN Absent ELSE ep[e]

\* Mutant: appended without looking for the link of an earlier delivery.
AppendedAgain(row, v) == [row EXCEPT !.status = "open", !.links = Append(@, v), !.quiet = 0]

\* appendEvent; a link that is there already is left as it is.
Appended(row, v) ==
  IF v \in Range(row.links) THEN row
  ELSE [row EXCEPT !.status = "open", !.links = Append(@, v), !.quiet = 0]

\* reopenSoftEpisode
Reopened(row) ==
  IF row.status = "soft_sealed" THEN [row EXCEPT !.status = "open", !.since = 0, !.quiet = 0]
  ELSE row

\* Mutant: only the first sealing writes a receipt.
StampedOnce(row, status, links, review) ==
  [row EXCEPT !.status = status, !.since = 0,
              !.quiet = IF status = "sealed" THEN 0 ELSE @,
              !.receipt = IF @ = NoReceipt THEN [events |-> links, review |-> review] ELSE @,
              !.queued = status = "sealed" /\ (@ \/ ~review)]

\* The transaction of sealEpisode: unconditional, with the links read before it.
Stamped(row, status, links, review) ==
  [row EXCEPT !.status = status, !.since = 0,
              !.quiet = IF status = "sealed" THEN 0 ELSE @,
              !.receipt = [events |-> links, review |-> review],
              !.queued = status = "sealed" /\ (@ \/ ~review)]

\* sealEpisode; it returns early when the status is there already.
Sealed(row, status, review) ==
  IF row.status = status THEN row ELSE Stamped(row, status, row.links, review)

HardSealed(row) == Sealed(row, "sealed", FALSE)
ForReview(row)  == Sealed(row, "soft_sealed", TRUE)

-----------------------------------------------------------------------------
(* A delivery, up to its await.                                             *)

NoSweepInTheWay == OneWriter => sweep.kind = "none"

\* resumeEpisodeMessageAsync finds no link yet; appendTurnAsync reads what the
\* reviewer is asked about.
Receive(c, v) ==
  /\ NoSweepInTheWay
  /\ call[c] = NoCall
  /\ \A e \in Episodes : ~Linked(v, e)
  /\ \E e \in Active :
       call' = [call EXCEPT ![c] = [event |-> v, seen |-> e, row |-> Fingerprint(RowOf(e))]]
  /\ UNCHANGED <<ep, judged, sweep>>

-----------------------------------------------------------------------------
(* After the await: one transaction, on the episode active now.  What the   *)
(* relation will be is open, the reviewer's or, when the episode changed     *)
(* meanwhile, the CPU's judgement of it.  enforced says whether the boundary *)
(* guard (count, duration, idle gap, local date) starts a new episode.       *)

\* Mutant: only the episode's identity is compared after the await.
StaleById(c, e) == call[c].seen # e

Stale(c, e) == call[c].seen # e \/ call[c].row # Fingerprint(RowOf(e))

Basis(c, e) == IF Stale(c, e) THEN RowOf(e).links ELSE call[c].row.links

IsUser(c) == call[c].event \in UserEvents

\* What the validator tells apart.
Kind(relation) == IF relation = "continues" THEN "other" ELSE relation

\* The transaction commits rows, and the event's relation if it is linked now.
Commit(c, e, relation, rows) ==
  LET v == call[c].event
  IN  /\ ep' = rows
      /\ judged' = IF \E f \in Episodes : Linked(v, f) THEN judged
                   ELSE [judged EXCEPT ![v] = [relation |-> Kind(relation), basis |-> Basis(c, e)]]
      /\ call' = [call EXCEPT ![c] = NoCall]
      /\ UNCHANGED sweep

Turn(c) ==
  /\ NoSweepInTheWay
  /\ call[c] # NoCall

\* Mutant: an explicit closure seals softly.
CloseSoftly(c, e) ==
  /\ Turn(c) /\ e # NoEpisode
  /\ IsUser(c) /\ ~Elsewhere(call[c].event, e)
  /\ Commit(c, e, "closes",
            [ep EXCEPT ![e] = Sealed(Appended(Reopened(@), call[c].event), "soft_sealed", FALSE)])

\* The user closes: the guard is not asked, a soft seal is reopened for it.
CloseTurn(c, e) ==
  /\ Turn(c) /\ e # NoEpisode
  /\ IsUser(c) /\ ~Elsewhere(call[c].event, e)
  /\ Commit(c, e, "closes",
            [ep EXCEPT ![e] = HardSealed(Appended(Reopened(@), call[c].event))])

\* Mutant: an ambiguous shift stays in the open episode.
ContinueAmbiguous(c, e, relation) ==
  /\ Turn(c) /\ e # NoEpisode
  /\ ep[e].status = "open"
  /\ relation \in {"other"} \cup (IF IsUser(c) THEN {"continues", "ambiguous"} ELSE {})
  /\ ~Elsewhere(call[c].event, e)
  /\ Commit(c, e, relation, [ep EXCEPT ![e] = Appended(@, call[c].event)])

\* The turn joins the open episode.
ContinueTurn(c, e, relation) ==
  /\ Turn(c) /\ e # NoEpisode
  /\ ep[e].status = "open"
  /\ relation \in {"other"} \cup (IF IsUser(c) THEN {"continues"} ELSE {})
  /\ ~Elsewhere(call[c].event, e)
  /\ Commit(c, e, relation, [ep EXCEPT ![e] = Appended(@, call[c].event)])

MayReopen(c, e, relation) ==
  IsUser(c) /\ relation = "continues" /\ ep[e].since <= ReopenWindow

\* A confirmed continuation reopens a recent soft seal.
ResumeTurn(c, e, relation) ==
  /\ Turn(c) /\ e # NoEpisode
  /\ ep[e].status = "soft_sealed" /\ MayReopen(c, e, relation)
  /\ ~Elsewhere(call[c].event, e)
  /\ Commit(c, e, relation, [ep EXCEPT ![e] = Appended(Reopened(@), call[c].event)])

\* The turn does not belong to the active episode: that one is sealed, for good
\* or for review, and episode f starts.  Only an import may start one without a user.
StartTurn(c, e, f, relation, enforced, imported) ==
  LET v    == call[c].event
      open == e # NoEpisode /\ ep[e].status = "open"
      soft == e # NoEpisode /\ ep[e].status = "soft_sealed"
      left == IF relation = "switch" \/ enforced \/ (soft /\ IsUser(c))
              THEN [ep EXCEPT ![e] = HardSealed(@)]
              ELSE IF open THEN [ep EXCEPT ![e] = ForReview(@)]
              ELSE ep
      new  == Appended(Absent, v)
  IN  /\ Turn(c)
      /\ IF IsUser(c) THEN relation \in Relations ELSE relation = "other" /\ ~enforced /\ imported
      /\ relation = "closes" => e = NoEpisode
      /\ enforced => e # NoEpisode
      /\ open => relation \in {"switch", "ambiguous"} \/ enforced
      /\ (soft /\ MayReopen(c, e, relation)) => enforced
      /\ ep[f].status = "absent" /\ ~Elsewhere(v, f)
      /\ Commit(c, NoEpisode, relation,
                IF e = NoEpisode
                THEN [ep EXCEPT ![f] = IF relation = "closes" THEN HardSealed(new) ELSE new]
                ELSE [left EXCEPT ![f] = new])

\* Nothing is written: an assistant or tool event without an open episode stays
\* unassigned; a turn whose event another delivery linked elsewhere is rolled back.
DropTurn(c) ==
  /\ NoSweepInTheWay
  /\ call[c] # NoCall
  /\ \/ ~IsUser(c) /\ InStatus("open") = {}
     \/ \E e \in Episodes : Linked(call[c].event, e)
  /\ call' = [call EXCEPT ![c] = NoCall]
  /\ UNCHANGED <<ep, judged, sweep>>

-----------------------------------------------------------------------------
(* Maintenance: runMaintenanceTick soft-seals what is idle, the Dream        *)
(* scheduler promotes soft seals after a grace period, the Night without.   *)

\* Mutant: idleness is measured from a seal instead of from the last update.
CandidatesBySeal(kind) ==
  CASE kind = "idle"  -> {e \in InStatus("open") : ep[e].since >= IdleGap}
    [] kind = "grace" -> {e \in InStatus("soft_sealed") : ep[e].since >= Grace}
    [] kind = "night" -> InStatus("soft_sealed")

Candidates(kind) ==
  CASE kind = "idle"  -> {e \in InStatus("open") : ep[e].quiet >= IdleGap}
    [] kind = "grace" -> {e \in InStatus("soft_sealed") : ep[e].since >= Grace}
    [] kind = "night" -> InStatus("soft_sealed")

Target(kind) == IF kind = "idle" THEN "soft_sealed" ELSE "sealed"

\* The SELECT, and the filter over what it returned.
StartSweep(kind) ==
  /\ sweep = NoSweep
  /\ Candidates(kind) # {}
  /\ sweep' = [NoSweep EXCEPT !.kind = kind, !.todo = Candidates(kind)]
  /\ UNCHANGED <<ep, judged, call>>

Rest(s) == IF s.todo = {} THEN NoSweep ELSE s

\* sealEpisode before its transaction: the row and the links are read.
SweepRead(e) ==
  /\ e \in sweep.todo /\ sweep.cur = NoEpisode
  /\ sweep' = IF ep[e].status = Target(sweep.kind)
              THEN Rest([sweep EXCEPT !.todo = @ \ {e}])
              ELSE [sweep EXCEPT !.todo = @ \ {e}, !.cur = e, !.links = ep[e].links]
  /\ UNCHANGED <<ep, judged, call>>

SweepSeal ==
  /\ sweep.cur # NoEpisode
  /\ ep' = [ep EXCEPT ![sweep.cur] = Stamped(@, Target(sweep.kind), sweep.links, FALSE)]
  /\ sweep' = Rest([sweep EXCEPT !.cur = NoEpisode, !.links = <<>>])
  /\ UNCHANGED <<judged, call>>

\* Mutant: the importer does not look at the status.
SealImportedAgain(e, low) ==
  /\ NoSweepInTheWay
  /\ ep[e].links # <<>>
  /\ ep' = [ep EXCEPT ![e] = IF low THEN ForReview(@) ELSE HardSealed(@)]
  /\ UNCHANGED <<judged, call, sweep>>

\* sealImportedEpisode at the end of an import; low says that the links' average
\* confidence is below 0.6 and nobody forced the seal (a turn the CPU found
\* ambiguous keeps its low confidence when the reviewer names a relation alone).
SealImported(e, low) ==
  /\ NoSweepInTheWay
  /\ ep[e].links # <<>>
  /\ ImportReseals \/ ep[e].status # "sealed"
  /\ ep' = [ep EXCEPT ![e] = IF low THEN ForReview(@) ELSE HardSealed(@)]
  /\ UNCHANGED <<judged, call, sweep>>

\* The seal commands.  Mode manual writes a new receipt over an old one.  Mode
\* soft is left to episodes that are not sealed for good: unsealing by command
\* is the operator's decision.
OperatorSeal(e, mode) ==
  /\ NoSweepInTheWay
  /\ ep[e].links # <<>>
  /\ mode = "soft" => ep[e].status # "sealed"
  /\ ep' = [ep EXCEPT ![e] = CASE mode = "soft"   -> Sealed(@, "soft_sealed", FALSE)
                               [] mode = "hard"   -> HardSealed(@)
                               [] mode = "manual" -> Stamped(@, "sealed", @.links, FALSE)]
  /\ UNCHANGED <<judged, call, sweep>>

-----------------------------------------------------------------------------
(* Time.                                                                    *)

Older(n) == IF n < MaxAge THEN n + 1 ELSE n

Aged(row) ==
  CASE row.status = "open"        -> [row EXCEPT !.quiet = Older(@)]
    [] row.status = "soft_sealed" -> [row EXCEPT !.quiet = Older(@), !.since = Older(@)]
    [] OTHER                      -> row

Elapse ==
  /\ NoSweepInTheWay
  /\ ep'   = [e \in Episodes |-> Aged(ep[e])]
  /\ call' = [c \in Calls |-> [call[c] EXCEPT !.row = Aged(@)]]
  /\ UNCHANGED <<judged, sweep>>

-----------------------------------------------------------------------------

Deliver(c) ==
  \/ \E v \in Events : Receive(c, v)
  \/ \E e \in Active :
       \/ CloseTurn(c, e)
       \/ \E relation \in Relations :
            \/ ContinueTurn(c, e, relation)
            \/ ResumeTurn(c, e, relation)
            \/ \E f \in Episodes, enforced, imported \in BOOLEAN :
                 StartTurn(c, e, f, relation, enforced, imported)
  \/ DropTurn(c)

SweepStep == SweepSeal \/ \E e \in Episodes : SweepRead(e)

Next ==
  \/ \E c \in Calls : Deliver(c)
  \/ \E kind \in Sweeps \ {"none"} : StartSweep(kind)
  \/ SweepStep
  \/ \E e \in Episodes :
       \/ \E low \in BOOLEAN : SealImported(e, low)
       \/ \E mode \in {"soft", "hard", "manual"} : OperatorSeal(e, mode)
  \/ Elapse

Spec == Init /\ [][Next]_vars

\* Maintenance and Dream ticks come back on the host's schedule and finish, and time passes.
FairSpec ==
  /\ Spec
  /\ SF_vars(StartSweep("idle")) /\ SF_vars(StartSweep("grace"))
  /\ WF_vars(SweepStep) /\ SF_vars(Elapse)

-----------------------------------------------------------------------------
(* Properties.                                                              *)

EventSeqs == {s \in Seq(Events) : IsInjective(s)}

TypeOK ==
  /\ \A e \in Episodes :
       /\ ep[e].status \in {"absent", "open", "soft_sealed", "sealed"}
       /\ ep[e].links \in EventSeqs /\ ep[e].receipt.events \in EventSeqs
       /\ ep[e].quiet \in 0 .. MaxAge /\ ep[e].since \in 0 .. MaxAge
       /\ ep[e].status = "absent" <=> ep[e].links = <<>>
  /\ \A v \in Events : judged[v].relation \in Relations /\ judged[v].basis \in EventSeqs
  /\ sweep.kind \in Sweeps /\ sweep.todo \subseteq Episodes

\* At most one episode of a conversation is open, so that reopening and starting
\* never trip the unique index over open scopes.
OneOpenEpisode == Cardinality(InStatus("open")) <= 1

\* A turn that joined an episode was judged against exactly the turns before it:
\* a verdict formed before the await is not applied to an episode that moved on.
JudgedInContext ==
  \A e \in Episodes : \A i \in 2 .. Len(ep[e].links) :
    judged[ep[e].links[i]].basis = SubSeq(ep[e].links, 1, i - 1)

\* Rule continuation_after_closure: nothing follows the turn that closed an episode.
ClosureIsLast ==
  \A e \in Episodes : \A i \in 1 .. Len(ep[e].links) :
    judged[ep[e].links[i]].relation = "closes" => i = Len(ep[e].links)

\* Rules invalid_hard_shift_position and invalid_ambiguous_shift_position: a turn
\* that shifts the topic is the first user turn of its episode.
ShiftIsFirst ==
  \A e \in Episodes : \A i \in 1 .. Len(ep[e].links) :
    judged[ep[e].links[i]].relation \in {"switch", "ambiguous"} =>
      \A j \in 1 .. (i - 1) : ep[e].links[j] \notin UserEvents

\* The last closure receipt of a sealed episode lists exactly its events, through
\* reopenings, late deliveries and sweeps.
ReceiptMatches ==
  \A e \in Episodes :
    ep[e].status \in {"soft_sealed", "sealed"} => ep[e].receipt.events = ep[e].links

\* Grouping is final: the episodes implement Segmentation, with the hard-sealed
\* ones as final groups.
Grouping == INSTANCE Segmentation WITH
  groups <- [e \in Episodes |-> ep[e].links],
  final  <- InStatus("sealed")

ImplementsSegmentation == Grouping!Spec

\* A conversation gone quiet reaches the Dream backlog: whatever is open or soft
\* sealed gets a job row, unless more events keep coming.
QuietIsQueued ==
  \A e \in Episodes : ep[e].status \in {"open", "soft_sealed"} ~> ep[e].queued

\* "A hard-sealed episode never reopens automatically."
HardSealedStays ==
  [][\A e \in InStatus("sealed") : ep'[e].status = "sealed"]_vars

\* "Low-confidence groups soft-seal for review unless an operator explicitly
\* forces sealing": no sweep finishes what awaits a review.
ReviewIsAwaited ==
  [][\A e \in InStatus("soft_sealed") :
       (ep[e].receipt.review /\ sweep.kind \in {"grace", "night"}) => ep'[e].status # "sealed"]_vars

\* "A Night ... only touches episodes that were already idle past the boundary
\* policy's idle gap."
NightTouchesOnlyIdle ==
  [][\A e \in InStatus("soft_sealed") :
       (sweep.kind = "night" /\ ep'[e].status = "sealed") => ep[e].quiet >= IdleGap]_vars
=============================================================================
