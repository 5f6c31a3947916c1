----------------------- MODULE EpisodeLifecycleProofs -----------------------
(***************************************************************************)
(* How the turns of a conversation become episodes, for any number of      *)
(* deliveries, events and episodes.  Row operators are described by lemmas *)
(* and kept closed; TurnEffect says what a turn can do to the groups,      *)
(* SealEffect what sweeps, imports and operators can, and the properties   *)
(* follow from these two.                                                  *)
(***************************************************************************)
EXTENDS EpisodeLifecycle, SequenceTheorems, FiniteSetTheorems, TLAPS

Statuses == {"absent", "open", "soft_sealed", "sealed"}

Receipt == [events : EventSeqs, review : BOOLEAN]
Ages    == 0 .. MaxAge

EpRow == [status : Statuses, links : EventSeqs, quiet : Ages, since : Ages,
          receipt : Receipt, queued : BOOLEAN]

Grounded(row) == row.status = "absent" <=> row.links = <<>>

\* The receipt of a sealed row lists its events.
Receipted(row) == row.status \in {"soft_sealed", "sealed"} => row.receipt.events = row.links

CallRow == [event : Events \cup {NoEvent}, seen : Episodes \cup {NoEpisode}, row : EpRow]

TypeInv ==
  /\ ep \in [Episodes -> EpRow]
  /\ \A e \in Episodes : Grounded(ep[e])
  /\ judged \in [Events -> [relation : Relations, basis : EventSeqs]]
  /\ call \in [Calls -> CallRow]
  /\ \A c \in Calls : call[c] # NoCall => call[c].event \in Events
  /\ sweep \in [kind : Sweeps, todo : SUBSET Episodes, cur : Episodes \cup {NoEpisode},
                links : EventSeqs]
  /\ sweep.cur # NoEpisode => sweep.links # <<>>
  /\ sweep.cur # NoEpisode \/ sweep.todo # {} => sweep.kind # "none"
  /\ \A e \in sweep.todo \cup {sweep.cur} : e # NoEpisode => ep[e].status # "absent"

-----------------------------------------------------------------------------
(* Sequences of distinct events.                                            *)

LEMMA NoEvents == <<>> \in EventSeqs /\ Range(<<>>) = {}
<1>1. <<>> \in Seq(Events) /\ DOMAIN <<>> = {}
  OBVIOUS
<1>2. IsInjective(<<>>)
  BY <1>1, Zenon DEF IsInjective
<1>3. Range(<<>>) = {}
  BY <1>1, Zenon DEF Range
<1>4. QED
  BY <1>1, <1>2, <1>3, Zenon DEF EventSeqs

\* An event that is not there may be added at the end.
LEMMA AppendEvent ==
  ASSUME NEW s \in EventSeqs, NEW v \in Events, v \notin Range(s)
  PROVE  /\ Append(s, v) \in EventSeqs
         /\ Range(Append(s, v)) = Range(s) \cup {v}
         /\ Append(s, v) # <<>>
         /\ Len(Append(s, v)) = Len(s) + 1
         /\ \A i \in 1 .. Len(s) : Append(s, v)[i] = s[i]
         /\ Append(s, v)[Len(s) + 1] = v
<1>1. s \in Seq(Events) /\ IsInjective(s)
  BY DEF EventSeqs
<1>2. /\ Append(s, v) \in Seq(Events) /\ Len(Append(s, v)) = Len(s) + 1
      /\ \A i \in 1 .. Len(s) : Append(s, v)[i] = s[i]
      /\ Append(s, v)[Len(s) + 1] = v
      /\ Len(s) \in Nat /\ DOMAIN s = 1 .. Len(s)
      /\ DOMAIN Append(s, v) = 1 .. Len(s) + 1
  BY <1>1
<1>3. \A i \in 1 .. Len(s) : s[i] # v
  BY <1>2 DEF Range
<1>4. IsInjective(Append(s, v))
  <2>1. ASSUME NEW a \in 1 .. Len(s) + 1, NEW b \in 1 .. Len(s) + 1,
               Append(s, v)[a] = Append(s, v)[b]
        PROVE  a = b
    <3>1. CASE a \in 1 .. Len(s) /\ b \in 1 .. Len(s)
      BY <1>1, <1>2, <2>1, <3>1 DEF IsInjective
    <3>2. CASE a = Len(s) + 1 \/ b = Len(s) + 1
      BY <1>2, <1>3, <2>1, <3>2
    <3>3. QED
      BY <1>2, <3>1, <3>2
  <2>2. QED
    BY <1>2, <2>1 DEF IsInjective
<1>5. Range(Append(s, v)) = Range(s) \cup {v}
  BY <1>2 DEF Range
<1>6. Append(s, v) # <<>>
  BY <1>2
<1>7. QED
  BY <1>2, <1>4, <1>5, <1>6 DEF EventSeqs

LEMMA EmptyOrNot ==
  ASSUME NEW s \in EventSeqs PROVE Len(s) \in Nat /\ (s = <<>> <=> Len(s) = 0) /\ s \in Seq(Events)
                                   /\ DOMAIN s = 1 .. Len(s)
  BY DEF EventSeqs

-----------------------------------------------------------------------------
(* Rows.                                                                    *)

LEMMA NoAge == 0 \in Ages
  BY ConstantsAssumption DEF Ages

LEMMA AbsentRow == Absent \in EpRow /\ Grounded(Absent) /\ Absent.links = <<>>
  BY NoEvents, NoAge DEF Absent, NoReceipt, Receipt, EpRow, Statuses, Grounded

LEMMA AppendedRow ==
  ASSUME NEW row \in EpRow, NEW v \in Events
  PROVE  /\ Appended(row, v) \in EpRow
         /\ v \in Range(row.links) => Appended(row, v) = row
         /\ v \notin Range(row.links) =>
              /\ Appended(row, v).links = Append(row.links, v)
              /\ Appended(row, v).status = "open"
<1>1. CASE v \in Range(row.links)
  BY <1>1 DEF Appended
<1>2. CASE v \notin Range(row.links)
  <2>1. row.links \in EventSeqs
    BY DEF EpRow
  <2>2. Append(row.links, v) \in EventSeqs
    BY <1>2, <2>1, AppendEvent
  <2>3. QED
    BY <1>2, <2>2, NoAge DEF Appended, EpRow, Statuses
<1>3. QED
  BY <1>1, <1>2

LEMMA ReopenedRow ==
  ASSUME NEW row \in EpRow
  PROVE  /\ Reopened(row) \in EpRow
         /\ Reopened(row).links = row.links
         /\ Reopened(row).status = IF row.status = "soft_sealed" THEN "open" ELSE row.status
  BY NoAge DEF Reopened, EpRow, Statuses

LEMMA StampedRow ==
  ASSUME NEW row \in EpRow, NEW status \in {"soft_sealed", "sealed"},
         NEW links \in EventSeqs, NEW review \in BOOLEAN
  PROVE  /\ Stamped(row, status, links, review) \in EpRow
         /\ Stamped(row, status, links, review).links = row.links
         /\ Stamped(row, status, links, review).status = status
         /\ Stamped(row, status, links, review).receipt.events = links
  BY NoAge DEF Stamped, Receipt, EpRow, Statuses

\* A sweep's seal needs no review.
StampedPlainly(row, status, links) == Stamped(row, status, links, FALSE)

LEMMA StampedForGood ==
  ASSUME NEW row \in EpRow, NEW status \in {"soft_sealed", "sealed"}, NEW links \in EventSeqs
  PROVE  /\ StampedPlainly(row, status, links) \in EpRow
         /\ StampedPlainly(row, status, links).links = row.links
         /\ StampedPlainly(row, status, links).status = status
         /\ StampedPlainly(row, status, links).receipt.events = links
  BY StampedRow, Zenon DEF StampedPlainly

\* What is sealed keeps its events; its receipt lists them unless it was sealed before.
LEMMA SealedRow ==
  ASSUME NEW row \in EpRow, NEW status \in {"soft_sealed", "sealed"}, NEW review \in BOOLEAN
  PROVE  /\ Sealed(row, status, review) \in EpRow
         /\ Sealed(row, status, review).links = row.links
         /\ Sealed(row, status, review).status = status
         /\ row.status = status => Sealed(row, status, review) = row
         /\ row.status # status => Sealed(row, status, review).receipt.events = row.links
         /\ Receipted(row) => Receipted(Sealed(row, status, review))
<1>1. row.links \in EventSeqs
  BY DEF EpRow
<1>2. CASE row.status = status
  BY <1>2 DEF Sealed
<1>3. CASE row.status # status
  BY <1>1, <1>3, StampedRow DEF Sealed, Receipted
<1>4. QED
  BY <1>2, <1>3

LEMMA AgedRow ==
  ASSUME NEW row \in EpRow
  PROVE  /\ Aged(row) \in EpRow
         /\ Aged(row).links = row.links
         /\ Aged(row).status = row.status
         /\ Aged(row).receipt = row.receipt
<1>1. \A n \in Ages : Older(n) \in Ages
  BY ConstantsAssumption DEF Older, Ages
<1>2. QED
  BY <1>1 DEF Aged, EpRow, Statuses

LEMMA FingerprintRow ==
  ASSUME NEW row \in EpRow
  PROVE  /\ Fingerprint(row) \in EpRow
         /\ Fingerprint(row).links = row.links
  BY NoEvents DEF Fingerprint, Receipt, EpRow, NoReceipt

-----------------------------------------------------------------------------
(* What a turn can do.                                                      *)

ReceiptInv == \A e \in Episodes : Receipted(ep[e])

SameGroups == judged' = judged /\ \A e \in Episodes : ep'[e].links = ep[e].links

\* Event v joins group g, judged k against b.
Extends(g, v, k, b) ==
  /\ \A e \in Episodes : ~Linked(v, e)
  /\ ep[g].status # "sealed"
  /\ ep'[g].links = Append(ep[g].links, v)
  /\ \A e \in Episodes \ {g} : ep'[e].links = ep[e].links
  /\ judged' = [judged EXCEPT ![v] = [relation |-> k, basis |-> b]]
  /\ ep[g].links # <<>> => b = ep[g].links /\ k \in {"other", "closes"}
  /\ k = "closes" => ep'[g].status = "sealed"

\* No other episode is open afterwards, and nothing sealed is touched.
StatusEffect(g) ==
  /\ \A e \in Episodes \ {g} : ep'[e].status # "open"
  /\ \A e \in Episodes : ep[e].status = "sealed" => ep'[e].status = "sealed"

TurnEffect ==
  \E g \in Episodes :
    /\ SameGroups \/ \E v \in Events, k \in Relations, b \in EventSeqs : Extends(g, v, k, b)
    /\ StatusEffect(g)
    /\ ReceiptInv => ReceiptInv'

\* Whatever happened during the await, a turn is judged against the links it finds.
LEMMA BasisIsCurrent ==
  ASSUME TypeInv, NEW c \in Calls, NEW e \in Episodes \cup {NoEpisode}
  PROVE  /\ Basis(c, e) = RowOf(e).links
         /\ Basis(c, e) \in EventSeqs
<1>1. RowOf(e) \in EpRow
  BY AbsentRow DEF RowOf, TypeInv
<1>2. Basis(c, e) = RowOf(e).links
  BY <1>1, FingerprintRow DEF Basis, Stale
<1>3. QED
  BY <1>1, <1>2 DEF EpRow

\* The transaction of a turn, whichever rows it leaves.
LEMMA Committed ==
  ASSUME TypeInv, NEW c \in Calls, call[c] # NoCall,
         NEW g \in Episodes, NEW x \in {g, NoEpisode}, NEW relation \in Relations,
         NEW rows \in [Episodes -> EpRow],
         \A e \in Episodes : Grounded(rows[e]),
         \A e \in Episodes \ {g} : rows[e].links = ep[e].links,
         rows[g].links = IF Linked(call[c].event, g) THEN ep[g].links
                         ELSE Append(ep[g].links, call[c].event),
         ~Elsewhere(call[c].event, g),
         ep[g].status # "sealed",
         ep[g].links # <<>> => x = g /\ Kind(relation) \in {"other", "closes"},
         relation = "closes" => rows[g].status = "sealed",
         \A e \in Episodes \ {g} : rows[e].status # "open",
         \A e \in Episodes : ep[e].status = "sealed" => rows[e].status = "sealed",
         ReceiptInv => \A e \in Episodes : Receipted(rows[e]),
         Commit(c, x, relation, rows)
  PROVE  TypeInv' /\ TurnEffect
<1> DEFINE v == call[c].event
<1>1. v \in Events /\ Kind(relation) \in Relations
  BY DEF TypeInv, Kind, Relations
<1>2. Basis(c, x) \in EventSeqs /\ (x = g => Basis(c, x) = ep[g].links)
  BY BasisIsCurrent, ConstantsAssumption DEF RowOf
<1>3. NoCall \in CallRow
  BY AbsentRow DEF NoCall, CallRow
<1>4. /\ ep' = rows
      /\ judged' = IF \E f \in Episodes : Linked(v, f) THEN judged
                   ELSE [judged EXCEPT ![v] = [relation |-> Kind(relation), basis |-> Basis(c, x)]]
      /\ call' = [call EXCEPT ![c] = NoCall]
      /\ sweep' = sweep
  BY DEF Commit
<1>5. \A e \in Episodes : ep[e].links # <<>> => rows[e].links # <<>>
  <2>1. CASE Linked(v, g)
    BY <2>1
  <2>2. CASE ~Linked(v, g)
    <3>1. ep[g].links \in EventSeqs /\ v \notin Range(ep[g].links)
      BY <2>2 DEF TypeInv, EpRow, Linked
    <3>2. Append(ep[g].links, v) # <<>>
      BY <1>1, <3>1, AppendEvent
    <3>3. QED
      BY <2>2, <3>2
  <2>3. QED
    BY <2>1, <2>2
<1>6. TypeInv'
  <2>1. ep' \in [Episodes -> EpRow] /\ \A e \in Episodes : Grounded(ep'[e])
    BY <1>4
  <2>2. judged' \in [Events -> [relation : Relations, basis : EventSeqs]]
    BY <1>1, <1>2, <1>4 DEF TypeInv
  <2>3. /\ call' \in [Calls -> CallRow]
        /\ \A d \in Calls : call'[d] # NoCall => call'[d].event \in Events
    BY <1>3, <1>4 DEF TypeInv
  <2>4. \A e \in sweep.todo \cup {sweep.cur} : e # NoEpisode => ep'[e].status # "absent"
    <3>1. \A e \in sweep.todo \cup {sweep.cur} : e # NoEpisode => e \in Episodes
      BY DEF TypeInv
    <3>2. QED
      BY <1>4, <1>5, <3>1 DEF TypeInv, Grounded
  <2>5. QED
    BY <1>4, <2>1, <2>2, <2>3, <2>4 DEF TypeInv
<1>7. SameGroups \/ \E k \in Relations, b \in EventSeqs : Extends(g, v, k, b)
  <2>1. CASE Linked(v, g)
    BY <1>4, <2>1 DEF SameGroups
  <2>2. CASE ~Linked(v, g)
    <3>1. \A e \in Episodes : ~Linked(v, e)
      BY <2>2 DEF Elsewhere
    <3>2. Kind(relation) = "closes" => relation = "closes"
      BY DEF Kind
    <3>3. Extends(g, v, Kind(relation), Basis(c, x))
      BY <1>2, <1>4, <2>2, <3>1, <3>2 DEF Extends
    <3>4. QED
      BY <1>1, <1>2, <3>3
  <2>3. QED
    BY <2>1, <2>2
<1>8. QED
  BY <1>1, <1>4, <1>6, <1>7 DEF TurnEffect, StatusEffect, ReceiptInv

AtMostOneOpen == \A e, f \in Episodes : ep[e].status = "open" /\ ep[f].status = "open" => e = f

\* The active episode is the open one, or none is open.
LEMMA ActiveEpisode ==
  ASSUME AtMostOneOpen, NEW e \in Active
  PROVE  /\ e \in Episodes \/ e = NoEpisode
         /\ e # NoEpisode => ep[e].status \in {"open", "soft_sealed"}
         /\ \A f \in Episodes : ep[f].status = "open" => f = e
  BY DEF Active, InStatus, AtMostOneOpen
-----------------------------------------------------------------------------
(* The turns, one by one.                                                   *)

GrownLinks(row, v) == IF v \in Range(row.links) THEN row.links ELSE Append(row.links, v)

LEMMA GrownRow ==
  ASSUME NEW row \in EpRow, Grounded(row), row.status # "sealed", NEW v \in Events,
         row.status # "absent" \/ v \notin Range(row.links)
  PROVE  /\ Appended(row, v) \in EpRow
         /\ Grounded(Appended(row, v))
         /\ Appended(row, v).links = GrownLinks(row, v)
         /\ Appended(row, v).links # <<>>
         /\ Receipted(row) => Receipted(Appended(row, v))
<1>1. row.links \in EventSeqs
  BY DEF EpRow
<1>2. CASE v \in Range(row.links)
  BY <1>2, AppendedRow DEF GrownLinks, Grounded
<1>3. CASE v \notin Range(row.links)
  <2>1. Append(row.links, v) # <<>>
    BY <1>1, <1>3, AppendEvent
  <2>2. QED
    BY <1>3, <2>1, AppendedRow DEF GrownLinks, Grounded, Receipted
<1>4. QED
  BY <1>2, <1>3

\* A row sealed or reopened keeps its events.
LEMMA KeptRow ==
  ASSUME NEW row \in EpRow, Grounded(row), row.status # "absent"
  PROVE  /\ HardSealed(row) \in EpRow /\ Grounded(HardSealed(row))
         /\ HardSealed(row).links = row.links /\ HardSealed(row).status = "sealed"
         /\ ForReview(row) \in EpRow /\ Grounded(ForReview(row))
         /\ ForReview(row).links = row.links /\ ForReview(row).status = "soft_sealed"
         /\ Reopened(row) \in EpRow /\ Grounded(Reopened(row))
         /\ Reopened(row).links = row.links /\ Reopened(row).status # "absent"
         /\ row.status # "sealed" => Reopened(row).status = "open"
         /\ Receipted(row) => /\ Receipted(HardSealed(row))
                              /\ Receipted(ForReview(row))
                              /\ Receipted(Reopened(row))
<1>1. Reopened(row).status = "open" \/ Reopened(row).status = row.status
  BY ReopenedRow
<1>2. row.status # "sealed" => Reopened(row).status = "open"
  BY ReopenedRow DEF EpRow, Statuses
<1>3. Receipted(row) => Receipted(HardSealed(row)) /\ Receipted(ForReview(row))
  BY SealedRow DEF HardSealed, ForReview
<1>4. Receipted(row) => Receipted(Reopened(row))
  <2>1. CASE row.status = "soft_sealed"
    BY <2>1, ReopenedRow DEF Receipted
  <2>2. CASE row.status # "soft_sealed"
    BY <2>2 DEF Reopened
  <2>3. QED
    BY <2>1, <2>2
<1>5. QED
  BY <1>1, <1>2, <1>3, <1>4, SealedRow, ReopenedRow DEF HardSealed, ForReview, Grounded

LEMMA CloseTurnStep ==
  ASSUME TypeInv, AtMostOneOpen, NEW c \in Calls, NEW e \in Active, CloseTurn(c, e)
  PROVE  TypeInv' /\ TurnEffect
<1> DEFINE v == call[c].event
           new == HardSealed(Appended(Reopened(ep[e]), v))
           rows == [ep EXCEPT ![e] = new]
<1>1. e \in Episodes /\ ep[e].status \in {"open", "soft_sealed"} /\ v \in Events
      /\ ep[e] \in EpRow /\ Grounded(ep[e]) /\ call[c] # NoCall
  BY ActiveEpisode DEF CloseTurn, Turn, TypeInv
<1>2. /\ Reopened(ep[e]) \in EpRow /\ Grounded(Reopened(ep[e]))
      /\ Reopened(ep[e]).links = ep[e].links /\ Reopened(ep[e]).status = "open"
  BY <1>1, KeptRow
<1>3. /\ Appended(Reopened(ep[e]), v) \in EpRow /\ Grounded(Appended(Reopened(ep[e]), v))
      /\ Appended(Reopened(ep[e]), v).links = GrownLinks(ep[e], v)
      /\ Appended(Reopened(ep[e]), v).links # <<>>
      /\ Receipted(ep[e]) => Receipted(Appended(Reopened(ep[e]), v))
  BY <1>1, <1>2, KeptRow, GrownRow DEF GrownLinks
<1>4. /\ new \in EpRow /\ Grounded(new) /\ new.links = GrownLinks(ep[e], v)
      /\ new.status = "sealed"
      /\ Receipted(ep[e]) => Receipted(new)
  BY <1>3, KeptRow DEF Grounded
<1>5. /\ rows \in [Episodes -> EpRow] /\ rows[e] = new
      /\ \A f \in Episodes \ {e} : rows[f] = ep[f]
  BY <1>1, <1>4 DEF TypeInv
<1>6. \A f \in Episodes : Grounded(rows[f])
  BY <1>4, <1>5 DEF TypeInv
<1>7. rows[e].links = IF Linked(v, e) THEN ep[e].links ELSE Append(ep[e].links, v)
  BY <1>4, <1>5 DEF GrownLinks, Linked
<1>8. \A f \in Episodes \ {e} : rows[f].status # "open"
  BY <1>5, ActiveEpisode
<1>9. ~Elsewhere(v, e) /\ Commit(c, e, "closes", rows)
  BY DEF CloseTurn
<1>10. Kind("closes") = "closes" /\ "closes" \in Relations
  BY DEF Kind, Relations
<1>11. \A f \in Episodes : ep[f].status = "sealed" => rows[f].status = "sealed"
  BY <1>4, <1>5
<1>12. ReceiptInv => \A f \in Episodes : Receipted(rows[f])
  BY <1>1, <1>4, <1>5 DEF ReceiptInv
<1> HIDE DEF rows
<1>13. QED
  BY <1>1, <1>4, <1>5, <1>6, <1>7, <1>8, <1>9, <1>10, <1>11, <1>12, Committed

\* The open episode goes on, or a soft seal is reopened and goes on.
LEMMA JoinStep ==
  ASSUME TypeInv, AtMostOneOpen, NEW c \in Calls, call[c] # NoCall,
         NEW e \in Active, e # NoEpisode,
         NEW relation \in {"other", "continues"},
         NEW row, row = ep[e] \/ row = Reopened(ep[e]),
         ~Elsewhere(call[c].event, e),
         Commit(c, e, relation, [ep EXCEPT ![e] = Appended(row, call[c].event)])
  PROVE  TypeInv' /\ TurnEffect
<1> DEFINE v == call[c].event
           new == Appended(row, v)
           rows == [ep EXCEPT ![e] = new]
<1>1. e \in Episodes /\ ep[e].status \in {"open", "soft_sealed"} /\ v \in Events
      /\ ep[e] \in EpRow /\ Grounded(ep[e])
  BY ActiveEpisode DEF TypeInv
<1>2. /\ row \in EpRow /\ Grounded(row) /\ row.links = ep[e].links
      /\ row.status \in {"open", "soft_sealed"}
  BY <1>1, KeptRow
<1>3. /\ new \in EpRow /\ Grounded(new) /\ new.links = GrownLinks(ep[e], v)
      /\ Receipted(ep[e]) => Receipted(new)
  BY <1>1, <1>2, KeptRow, GrownRow DEF GrownLinks
<1>5. /\ rows \in [Episodes -> EpRow] /\ rows[e] = new
      /\ \A f \in Episodes \ {e} : rows[f] = ep[f]
  BY <1>1, <1>3 DEF TypeInv
<1>6. \A f \in Episodes : Grounded(rows[f])
  BY <1>3, <1>5 DEF TypeInv
<1>7. rows[e].links = IF Linked(v, e) THEN ep[e].links ELSE Append(ep[e].links, v)
  BY <1>3, <1>5 DEF GrownLinks, Linked
<1>8. \A f \in Episodes \ {e} : rows[f].status # "open"
  BY <1>5, ActiveEpisode
<1>9. Commit(c, e, relation, rows)
  OBVIOUS
<1>10. Kind(relation) = "other" /\ relation \in Relations
  BY DEF Kind, Relations
<1>11. \A f \in Episodes : ep[f].status = "sealed" => rows[f].status = "sealed"
  BY <1>1, <1>5
<1>12. ReceiptInv => \A f \in Episodes : Receipted(rows[f])
  BY <1>1, <1>3, <1>5 DEF ReceiptInv
<1> HIDE DEF rows
<1>13. QED
  BY <1>1, <1>3, <1>5, <1>6, <1>7, <1>8, <1>9, <1>10, <1>11, <1>12, Committed

LEMMA ContinueTurnStep ==
  ASSUME TypeInv, AtMostOneOpen, NEW c \in Calls, NEW e \in Active, NEW relation,
         ContinueTurn(c, e, relation)
  PROVE  TypeInv' /\ TurnEffect
<1>1. relation \in {"other", "continues"}
  BY DEF ContinueTurn
<1>2. QED
  BY <1>1, JoinStep DEF ContinueTurn, Turn

LEMMA ResumeTurnStep ==
  ASSUME TypeInv, AtMostOneOpen, NEW c \in Calls, NEW e \in Active, NEW relation,
         ResumeTurn(c, e, relation)
  PROVE  TypeInv' /\ TurnEffect
<1>1. relation \in {"other", "continues"}
  BY DEF ResumeTurn, MayReopen
<1>2. QED
  BY <1>1, JoinStep DEF ResumeTurn, Turn
\* The active episode is sealed where the guard or the verdict says so, and a new one starts.
LEMMA StartTurnStep ==
  ASSUME TypeInv, AtMostOneOpen, NEW c \in Calls, NEW e \in Active, NEW f \in Episodes,
         NEW relation, NEW enforced \in BOOLEAN, NEW imported \in BOOLEAN,
         StartTurn(c, e, f, relation, enforced, imported)
  PROVE  TypeInv' /\ TurnEffect
<1> DEFINE v == call[c].event
           new == Appended(Absent, v)
           first == IF e = NoEpisode /\ relation = "closes" THEN HardSealed(new) ELSE new
           old == IF e = NoEpisode THEN Absent
                  ELSE IF relation = "switch" \/ enforced \/ (ep[e].status = "soft_sealed" /\ IsUser(c))
                       THEN HardSealed(ep[e])
                       ELSE IF ep[e].status = "open" THEN ForReview(ep[e]) ELSE ep[e]
           rows == IF e = NoEpisode THEN [ep EXCEPT ![f] = first]
                   ELSE [[ep EXCEPT ![e] = old] EXCEPT ![f] = first]
<1>1. /\ call[c] # NoCall /\ v \in Events /\ relation \in Relations
      /\ relation = "closes" => e = NoEpisode
      /\ ep[f].status = "absent" /\ ~Elsewhere(v, f)
  BY DEF StartTurn, Turn, TypeInv, Relations
<1>2. ep[f].links = <<>>
  BY <1>1 DEF TypeInv, Grounded
<1>3. /\ new \in EpRow /\ Grounded(new) /\ new.links = Append(<<>>, v) /\ new.links # <<>>
      /\ Receipted(new)
  <2>1. v \notin Range(Absent.links) /\ Absent.status # "sealed" /\ Receipted(Absent)
    BY NoEvents, AbsentRow DEF Absent, Receipted
  <2>2. QED
    BY <1>1, <2>1, AbsentRow, GrownRow DEF GrownLinks
<1>4. /\ first \in EpRow /\ Grounded(first) /\ first.links = Append(<<>>, v)
      /\ relation = "closes" => first.status = "sealed"
      /\ Receipted(first)
  <2> HIDE DEF new
  <2>1. new.status # "absent"
    BY <1>3 DEF Grounded
  <2>2. /\ HardSealed(new) \in EpRow /\ Grounded(HardSealed(new))
        /\ HardSealed(new).links = new.links /\ HardSealed(new).status = "sealed"
        /\ Receipted(HardSealed(new))
    BY <1>3, <2>1, KeptRow
  <2>3. QED
    BY <1>1, <1>3, <2>2
<1>5. ASSUME e # NoEpisode
      PROVE  /\ e \in Episodes /\ e # f /\ ep[e] \in EpRow /\ Grounded(ep[e])
             /\ old \in EpRow /\ Grounded(old)
             /\ old.links = ep[e].links /\ old.status # "open"
             /\ Receipted(ep[e]) => Receipted(old)
  <2>1. e \in Episodes /\ ep[e].status \in {"open", "soft_sealed"}
    BY <1>5, ActiveEpisode
  <2>2. ep[e] \in EpRow /\ Grounded(ep[e])
    BY <2>1 DEF TypeInv
  <2>3. QED
    BY <1>1, <1>5, <2>1, <2>2, KeptRow
<1>6. /\ rows \in [Episodes -> EpRow] /\ rows[f] = first
      /\ \A g \in Episodes \ {f} : rows[g] = IF e # NoEpisode /\ g = e THEN old ELSE ep[g]
  <2>1. CASE e = NoEpisode
    BY <1>4, <2>1 DEF TypeInv
  <2>2. CASE e # NoEpisode
    <3>1. ep \in [Episodes -> EpRow] /\ e \in Episodes /\ old \in EpRow
      BY <1>5, <2>2 DEF TypeInv
    <3> HIDE DEF old, first
    <3>2. QED
      BY <1>4, <2>2, <3>1
  <2>3. QED
    BY <2>1, <2>2
<1>7. Commit(c, NoEpisode, relation, rows)
  BY DEF StartTurn
<1> HIDE DEF rows, old, first, new
<1>8. \A g \in Episodes : Grounded(rows[g])
  BY <1>4, <1>5, <1>6 DEF TypeInv
<1>9. /\ \A g \in Episodes \ {f} : rows[g].links = ep[g].links
      /\ \A g \in Episodes \ {f} : rows[g].status # "open"
  BY <1>5, <1>6, ActiveEpisode, ConstantsAssumption
<1>10. rows[f].links = IF Linked(v, f) THEN ep[f].links ELSE Append(ep[f].links, v)
  BY <1>2, <1>4, <1>6, NoEvents DEF Linked
<1>11. \A g \in Episodes : ep[g].status = "sealed" => rows[g].status = "sealed"
  BY <1>1, <1>6, ActiveEpisode
<1>12. /\ ep[f].status # "sealed" /\ NoEpisode \in {f, NoEpisode}
       /\ relation = "closes" => rows[f].status = "sealed"
       /\ relation \in Relations
  BY <1>1, <1>4, <1>6
<1>13. ReceiptInv => \A g \in Episodes : Receipted(rows[g])
  BY <1>4, <1>5, <1>6 DEF ReceiptInv
<1>14. QED
  BY <1>1, <1>2, <1>6, <1>7, <1>8, <1>9, <1>10, <1>11, <1>12, <1>13, Committed

-----------------------------------------------------------------------------
(* Everything else leaves the groups as they are.                           *)

\* No event moves, no episode opens; what another process left open to itself,
\* or an import that ignores the status, may still take a seal back.
SealEffect ==
  /\ SameGroups
  /\ \A e \in Episodes : ep'[e].status = "open" => ep[e].status = "open"

\* One row is sealed, and its events stay.
LEMMA SealOne ==
  ASSUME TypeInv, NEW e \in Episodes, NEW row \in EpRow, ep[e].status # "absent",
         row.links = ep[e].links, row.status \in {"soft_sealed", "sealed"},
         ep' = [ep EXCEPT ![e] = row], UNCHANGED <<judged, call>>
  PROVE  /\ ep' \in [Episodes -> EpRow]
         /\ \A f \in Episodes : Grounded(ep'[f]) /\ (ep'[f].status = "absent" => ep[f].status = "absent")
         /\ SealEffect
<1>1. ep \in [Episodes -> EpRow] /\ \A f \in Episodes : Grounded(ep[f])
  BY DEF TypeInv
<1>2. ep'[e] = row /\ \A f \in Episodes \ {e} : ep'[f] = ep[f]
  BY <1>1
<1>3. Grounded(row)
  BY <1>1 DEF Grounded
<1>4. QED
  BY <1>1, <1>2, <1>3 DEF SealEffect, SameGroups

\* A statement that seals an episode when no sweep has read it.
LEMMA SealNow ==
  ASSUME TypeInv, NEW e \in Episodes, NEW row \in EpRow, ep[e].status # "absent",
         row.links = ep[e].links, row.status \in {"soft_sealed", "sealed"},
         ep' = [ep EXCEPT ![e] = row], UNCHANGED <<judged, call, sweep>>
  PROVE  TypeInv' /\ SealEffect
<1>1. /\ ep' \in [Episodes -> EpRow] /\ SealEffect
      /\ \A f \in Episodes : Grounded(ep'[f]) /\ (ep'[f].status = "absent" => ep[f].status = "absent")
  BY SealOne
<1>2. QED
  BY <1>1 DEF TypeInv

LEMMA SealImportedStep ==
  ASSUME TypeInv, NEW e \in Episodes, NEW low \in BOOLEAN, SealImported(e, low)
  PROVE  TypeInv' /\ SealEffect
<1> DEFINE row == IF low THEN ForReview(ep[e]) ELSE HardSealed(ep[e])
<1>1. ep[e] \in EpRow /\ Grounded(ep[e]) /\ ep[e].status # "absent"
  BY DEF TypeInv, SealImported, Grounded
<1>2. row \in EpRow /\ row.links = ep[e].links /\ row.status \in {"soft_sealed", "sealed"}
  BY <1>1, KeptRow
<1>3. ep' = [ep EXCEPT ![e] = row] /\ UNCHANGED <<judged, call, sweep>>
  BY DEF SealImported
<1>4. QED
  BY <1>1, <1>2, <1>3, SealNow

LEMMA OperatorSealStep ==
  ASSUME TypeInv, NEW e \in Episodes, NEW mode \in {"soft", "hard", "manual"}, OperatorSeal(e, mode)
  PROVE  TypeInv' /\ SealEffect
<1> DEFINE row == CASE mode = "soft"   -> Sealed(ep[e], "soft_sealed", FALSE)
                    [] mode = "hard"   -> HardSealed(ep[e])
                    [] mode = "manual" -> StampedPlainly(ep[e], "sealed", ep[e].links)
<1>1. ep[e] \in EpRow /\ Grounded(ep[e]) /\ ep[e].status # "absent"
  BY DEF TypeInv, OperatorSeal, Grounded
<1>2. ep[e].links \in EventSeqs
  BY <1>1 DEF EpRow
<1>3. row \in EpRow /\ row.links = ep[e].links /\ row.status \in {"soft_sealed", "sealed"}
  <2>1. CASE mode = "soft"
    BY <1>1, <2>1, SealedRow
  <2>2. CASE mode = "hard"
    BY <1>1, <2>2, KeptRow
  <2>3. CASE mode = "manual"
    BY <1>1, <1>2, <2>3, StampedForGood
  <2>4. QED
    BY <2>1, <2>2, <2>3
<1>4. ep' = [ep EXCEPT ![e] = row] /\ UNCHANGED <<judged, call, sweep>>
  BY DEF OperatorSeal, StampedPlainly
<1>5. QED
  BY <1>1, <1>3, <1>4, SealNow
-----------------------------------------------------------------------------
(* Sweeps, deliveries up to their await, and time.                          *)

LEMMA SweepTypes ==
  ASSUME TypeInv, NEW s \in [kind : Sweeps, todo : SUBSET Episodes, cur : {NoEpisode}, links : EventSeqs]
  PROVE  Rest(s) \in [kind : Sweeps, todo : SUBSET Episodes, cur : {NoEpisode}, links : EventSeqs]
  BY NoEvents DEF Rest, NoSweep, Sweeps

LEMMA ReadEffect ==
  ASSUME UNCHANGED <<ep, judged>>
  PROVE  SealEffect
  BY DEF SealEffect, SameGroups

LEMMA ReceiveStep ==
  ASSUME TypeInv, NEW c \in Calls, NEW v \in Events, Receive(c, v)
  PROVE  TypeInv' /\ SealEffect
<1>1. PICK e \in Active :
        call' = [call EXCEPT ![c] = [event |-> v, seen |-> e, row |-> Fingerprint(RowOf(e))]]
  BY DEF Receive
<1>2. e \in Episodes \cup {NoEpisode}
  BY DEF Active, InStatus
<1>3. RowOf(e) \in EpRow
  BY <1>2, AbsentRow DEF RowOf, TypeInv
<1>4. [event |-> v, seen |-> e, row |-> Fingerprint(RowOf(e))] \in CallRow
  BY <1>2, <1>3, FingerprintRow DEF CallRow
<1>5. UNCHANGED <<ep, judged, sweep>>
  BY DEF Receive
<1>6. QED
  BY <1>1, <1>4, <1>5, ReadEffect DEF TypeInv

LEMMA DropTurnStep ==
  ASSUME TypeInv, NEW c \in Calls, DropTurn(c)
  PROVE  TypeInv' /\ SealEffect
<1>1. NoCall \in CallRow
  BY AbsentRow DEF NoCall, CallRow
<1>2. UNCHANGED <<ep, judged, sweep>> /\ call' = [call EXCEPT ![c] = NoCall]
  BY DEF DropTurn
<1>3. QED
  BY <1>1, <1>2, ReadEffect DEF TypeInv

LEMMA StartSweepStep ==
  ASSUME TypeInv, NEW kind \in Sweeps \ {"none"}, StartSweep(kind)
  PROVE  TypeInv' /\ SealEffect
<1>1. Candidates(kind) \subseteq {e \in Episodes : ep[e].status \in {"open", "soft_sealed"}}
  BY DEF Candidates, InStatus, Sweeps
<1>2. sweep' = [NoSweep EXCEPT !.kind = kind, !.todo = Candidates(kind)] /\ UNCHANGED <<ep, judged, call>>
  BY DEF StartSweep
<1>3. sweep' = [kind |-> kind, todo |-> Candidates(kind), cur |-> NoEpisode, links |-> <<>>]
  BY <1>2 DEF NoSweep
<1>4. /\ sweep' \in [kind : Sweeps, todo : SUBSET Episodes, cur : Episodes \cup {NoEpisode}, links : EventSeqs]
      /\ sweep'.cur = NoEpisode /\ \A e \in sweep'.todo : ep[e].status # "absent"
  BY <1>1, <1>3, NoEvents
<1>5. \A e \in sweep'.todo \cup {sweep'.cur} : e # NoEpisode => ep'[e].status # "absent"
  BY <1>2, <1>4
<1>6. QED
  BY <1>2, <1>4, <1>5, ReadEffect DEF TypeInv

LEMMA SweepReadStep ==
  ASSUME TypeInv, NEW e \in Episodes, SweepRead(e)
  PROVE  TypeInv' /\ SealEffect
<1>1. /\ e \in sweep.todo /\ sweep.cur = NoEpisode /\ UNCHANGED <<ep, judged, call>>
      /\ sweep' = IF ep[e].status = Target(sweep.kind)
                  THEN Rest([sweep EXCEPT !.todo = @ \ {e}])
                  ELSE [sweep EXCEPT !.todo = @ \ {e}, !.cur = e, !.links = ep[e].links]
  BY DEF SweepRead
<1>2. /\ ep[e].links \in EventSeqs /\ ep[e].status # "absent" /\ ep[e].links # <<>>
  BY <1>1, ConstantsAssumption DEF TypeInv, EpRow, Grounded
<1>3. CASE ep[e].status = Target(sweep.kind)
  BY <1>1, <1>3, NoEvents, ReadEffect DEF TypeInv, Rest, NoSweep, Sweeps
<1>4. CASE ep[e].status # Target(sweep.kind)
  <2>1. sweep' = [kind |-> sweep.kind, todo |-> sweep.todo \ {e}, cur |-> e, links |-> ep[e].links]
    BY <1>1, <1>4 DEF TypeInv
  <2>2. sweep.kind \in Sweeps /\ sweep.kind # "none" /\ sweep.todo \in SUBSET Episodes
    BY <1>1 DEF TypeInv
  <2>3. /\ sweep'.kind = sweep.kind /\ sweep'.links = ep[e].links
        /\ sweep'.todo = sweep.todo \ {e} /\ sweep'.cur = e
    BY <2>1
  <2>6. sweep.todo \ {e} \in SUBSET Episodes
    BY <2>2
  <2>7. sweep' \in [kind : Sweeps, todo : SUBSET Episodes, cur : Episodes \cup {NoEpisode}, links : EventSeqs]
    BY <1>2, <2>1, <2>2, <2>6
  <2>4. \A f \in sweep'.todo \cup {sweep'.cur} : f # NoEpisode => ep'[f].status # "absent"
    BY <1>1, <2>3 DEF TypeInv
  <2>5. QED
    BY <1>1, <1>2, <2>2, <2>3, <2>4, <2>7, ReadEffect DEF TypeInv
<1>5. QED
  BY <1>3, <1>4

LEMMA SweepSealStep ==
  ASSUME TypeInv, SweepSeal
  PROVE  TypeInv' /\ SealEffect
<1> DEFINE row == StampedPlainly(ep[sweep.cur], Target(sweep.kind), sweep.links)
<1>1. /\ sweep.cur \in Episodes /\ sweep.links \in EventSeqs /\ ep[sweep.cur].status # "absent"
      /\ ep[sweep.cur] \in EpRow /\ UNCHANGED <<judged, call>>
      /\ ep' = [ep EXCEPT ![sweep.cur] = row]
  BY DEF SweepSeal, StampedPlainly, TypeInv
<1>2. Target(sweep.kind) \in {"soft_sealed", "sealed"}
  BY DEF Target
<1>3. row \in EpRow /\ row.links = ep[sweep.cur].links /\ row.status \in {"soft_sealed", "sealed"}
  <2>1. ep[sweep.cur] \in EpRow /\ sweep.links \in EventSeqs
    BY <1>1
  <2>2. /\ row \in EpRow /\ row.links = ep[sweep.cur].links /\ row.status = Target(sweep.kind)
    BY <1>2, <2>1, StampedForGood
  <2>3. QED
    BY <1>2, <2>2
<1> HIDE DEF row
<1>4. /\ ep' \in [Episodes -> EpRow] /\ SealEffect
      /\ \A f \in Episodes : Grounded(ep'[f]) /\ (ep'[f].status = "absent" => ep[f].status = "absent")
  BY <1>1, <1>3, SealOne
<1>5. /\ sweep' \in [kind : Sweeps, todo : SUBSET Episodes, cur : Episodes \cup {NoEpisode}, links : EventSeqs]
      /\ sweep'.cur = NoEpisode /\ sweep'.todo \subseteq sweep.todo
      /\ sweep'.todo # {} => sweep'.kind = sweep.kind /\ sweep.kind # "none"
  BY NoEvents DEF SweepSeal, TypeInv, Rest, NoSweep, Sweeps
<1>6. QED
  BY <1>1, <1>4, <1>5 DEF TypeInv

LEMMA ElapseStep ==
  ASSUME TypeInv, Elapse
  PROVE  TypeInv' /\ SealEffect /\ (ReceiptInv => ReceiptInv')
<1>1. /\ ep' = [e \in Episodes |-> Aged(ep[e])]
      /\ call' = [c \in Calls |-> [call[c] EXCEPT !.row = Aged(@)]]
      /\ UNCHANGED <<judged, sweep>>
  BY DEF Elapse
<1>2. \A e \in Episodes :
        /\ ep'[e] \in EpRow /\ ep'[e].links = ep[e].links /\ ep'[e].status = ep[e].status
        /\ ep'[e].receipt = ep[e].receipt
  BY <1>1, AgedRow DEF TypeInv
<1>3. ep' \in [Episodes -> EpRow]
  BY <1>1, <1>2
<1>4. \A c \in Calls : call'[c] = [event |-> call[c].event, seen |-> call[c].seen, row |-> Aged(call[c].row)]
  BY <1>1 DEF TypeInv, CallRow
<1>5. \A c \in Calls : call'[c] \in CallRow /\ (call'[c] # NoCall => call'[c].event \in Events)
  <2>1. Aged(Absent) = Absent
    BY DEF Aged, Absent
  <2>2. \A c \in Calls : call[c] = NoCall => call'[c] = NoCall
    BY <1>4, <2>1 DEF NoCall
  <2>3. ASSUME NEW c \in Calls PROVE call'[c] \in CallRow /\ call'[c].event = call[c].event
    <3>1. call[c].event \in Events \cup {NoEvent} /\ call[c].seen \in Episodes \cup {NoEpisode}
          /\ call[c].row \in EpRow
      BY DEF TypeInv, CallRow
    <3>2. Aged(call[c].row) \in EpRow
      BY <3>1, AgedRow
    <3>3. [event |-> call[c].event, seen |-> call[c].seen, row |-> Aged(call[c].row)] \in CallRow
      BY <3>1, <3>2 DEF CallRow
    <3>4. QED
      BY <1>4, <3>3
  <2>4. QED
    BY <2>2, <2>3 DEF TypeInv
<1>6. call' \in [Calls -> CallRow]
  BY <1>1, <1>5
<1>7. \A e \in Episodes : Grounded(ep'[e])
  BY <1>2 DEF Grounded, TypeInv
<1>8. TypeInv'
  BY <1>1, <1>2, <1>3, <1>5, <1>6, <1>7 DEF TypeInv
<1>9. SealEffect
  BY <1>1, <1>2 DEF SealEffect, SameGroups
<1>10. QED
  BY <1>2, <1>8, <1>9 DEF ReceiptInv, Receipted
-----------------------------------------------------------------------------
(* A step is a turn's transaction, or it leaves the groups as they are.     *)

LEMMA EpisodeInit == Init => TypeInv /\ AtMostOneOpen
<1> SUFFICES ASSUME Init PROVE TypeInv /\ AtMostOneOpen
  OBVIOUS
<1>1. /\ ep = [e \in Episodes |-> Absent] /\ judged = [v \in Events |-> NotJudged]
      /\ call = [c \in Calls |-> NoCall] /\ sweep = NoSweep
  BY DEF Init
<1>2. NoCall \in CallRow /\ NotJudged \in [relation : Relations, basis : EventSeqs]
  BY AbsentRow, NoEvents DEF NoCall, CallRow, NotJudged, Relations
<1>3. /\ sweep \in [kind : Sweeps, todo : SUBSET Episodes, cur : Episodes \cup {NoEpisode}, links : EventSeqs]
      /\ sweep.cur = NoEpisode /\ sweep.todo = {}
  BY <1>1, NoEvents DEF NoSweep, Sweeps
<1>4. TypeInv
  BY <1>1, <1>2, <1>3, AbsentRow DEF TypeInv
<1>5. AtMostOneOpen
  BY <1>1 DEF AtMostOneOpen, Absent
<1>6. QED
  BY <1>4, <1>5

\* A turn's transaction, or a read.
TurnOrRead == TurnEffect \/ (SealEffect /\ UNCHANGED ep)

LEMMA DeliverStep ==
  ASSUME TypeInv, AtMostOneOpen, NEW c \in Calls, Deliver(c)
  PROVE  TypeInv' /\ TurnOrRead /\ NoSweepInTheWay /\ UNCHANGED sweep
<1> DEFINE Goal == TypeInv' /\ TurnOrRead /\ NoSweepInTheWay /\ UNCHANGED sweep
<1>1. ASSUME NEW v \in Events, Receive(c, v) PROVE Goal
  BY <1>1, ReceiveStep DEF Receive, TurnOrRead
<1>2. ASSUME NEW e \in Active, CloseTurn(c, e) PROVE Goal
  <2>1. NoSweepInTheWay /\ UNCHANGED sweep
    BY <1>2 DEF CloseTurn, Turn, Commit
  <2>2. QED
    BY <1>2, <2>1, CloseTurnStep DEF TurnOrRead
<1>3. ASSUME NEW e \in Active, NEW relation \in Relations,
             ContinueTurn(c, e, relation) \/ ResumeTurn(c, e, relation)
      PROVE  Goal
  <2>1. NoSweepInTheWay /\ UNCHANGED sweep
    BY <1>3 DEF ContinueTurn, ResumeTurn, Turn, Commit
  <2>2. QED
    BY <1>3, <2>1, ContinueTurnStep, ResumeTurnStep DEF TurnOrRead
<1>4. ASSUME NEW e \in Active, NEW relation \in Relations, NEW f \in Episodes,
             NEW enforced \in BOOLEAN, NEW imported \in BOOLEAN,
             StartTurn(c, e, f, relation, enforced, imported)
      PROVE  Goal
  <2>1. NoSweepInTheWay /\ UNCHANGED sweep
    BY <1>4 DEF StartTurn, Turn, Commit
  <2>2. QED
    BY <1>4, <2>1, StartTurnStep DEF TurnOrRead
<1>5. CASE DropTurn(c)
  BY <1>5, DropTurnStep DEF DropTurn, TurnOrRead
<1>6. QED
  BY <1>1, <1>2, <1>3, <1>4, <1>5 DEF Deliver

LEMMA EpisodeStep ==
  ASSUME TypeInv, AtMostOneOpen, [Next]_vars
  PROVE  TypeInv' /\ (TurnEffect \/ SealEffect)
<1>1. ASSUME NEW c \in Calls, Deliver(c) PROVE TypeInv' /\ (TurnEffect \/ SealEffect)
  BY <1>1, DeliverStep DEF TurnOrRead
<1>2. ASSUME NEW kind \in Sweeps \ {"none"}, StartSweep(kind) PROVE TypeInv' /\ SealEffect
  BY <1>2, StartSweepStep
<1>3. CASE SweepStep
  BY <1>3, SweepReadStep, SweepSealStep DEF SweepStep
<1>4. ASSUME NEW e \in Episodes, NEW low \in BOOLEAN, SealImported(e, low) PROVE TypeInv' /\ SealEffect
  BY <1>4, SealImportedStep
<1>5. ASSUME NEW e \in Episodes, NEW mode \in {"soft", "hard", "manual"}, OperatorSeal(e, mode)
      PROVE  TypeInv' /\ SealEffect
  BY <1>5, OperatorSealStep
<1>6. CASE Elapse
  BY <1>6, ElapseStep
<1>7. CASE UNCHANGED vars
  BY <1>7, ReadEffect DEF vars, TypeInv
<1>8. QED
  BY <1>1, <1>2, <1>3, <1>4, <1>5, <1>6, <1>7 DEF Next

LEMMA OneOpenStep ==
  ASSUME AtMostOneOpen, TurnEffect \/ SealEffect
  PROVE  AtMostOneOpen'
  BY DEF AtMostOneOpen, TurnEffect, StatusEffect, SealEffect

-----------------------------------------------------------------------------
(* What the groups show.                                                    *)

GroupInv == JudgedInContext /\ ShiftIsFirst

\* The beginning of a sequence does not depend on what is added to it.
LEMMA Prefixes ==
  ASSUME NEW s \in Seq(Events), NEW v \in Events
  PROVE  /\ \A i \in 2 .. Len(s) : SubSeq(Append(s, v), 1, i - 1) = SubSeq(s, 1, i - 1)
         /\ SubSeq(Append(s, v), 1, Len(s)) = s
<1>1. /\ Append(s, v) \in Seq(Events) /\ Len(Append(s, v)) = Len(s) + 1 /\ Len(s) \in Nat
      /\ \A i \in 1 .. Len(s) : Append(s, v)[i] = s[i]
  OBVIOUS
<1>2. \A i \in 2 .. Len(s) : SubSeq(Append(s, v), 1, i - 1) = SubSeq(s, 1, i - 1)
  BY <1>1
<1>3. SubSeq(Append(s, v), 1, Len(s)) = s
  BY <1>1
<1>4. QED
  BY <1>2, <1>3

\* Where nothing is linked, nothing changes in what was judged.
LEMMA UnlinkedKeeps ==
  ASSUME TypeInv, NEW g \in Episodes, NEW v \in Events, NEW k \in Relations, NEW b \in EventSeqs,
         Extends(g, v, k, b), NEW e \in Episodes, NEW i \in 1 .. Len(ep[e].links)
  PROVE  /\ ep[e].links[i] \in Events /\ ep[e].links[i] # v
         /\ judged'[ep[e].links[i]] = judged[ep[e].links[i]]
<1>1. ep[e].links \in Seq(Events) /\ DOMAIN ep[e].links = 1 .. Len(ep[e].links)
  BY EmptyOrNot DEF TypeInv, EpRow
<1>2. ep[e].links[i] \in Events
  BY <1>1
<1>3. ep[e].links[i] # v
  BY <1>1 DEF Extends, Linked, Range
<1>4. QED
  BY <1>2, <1>3 DEF Extends, TypeInv

LEMMA GroupStep ==
  ASSUME TypeInv, GroupInv, TurnEffect \/ SealEffect
  PROVE  GroupInv'
<1>1. CASE SameGroups
  BY <1>1 DEF SameGroups, GroupInv, JudgedInContext, ShiftIsFirst
<1>2. ASSUME NEW g \in Episodes, NEW v \in Events, NEW k \in Relations, NEW b \in EventSeqs,
             Extends(g, v, k, b)
      PROVE  GroupInv'
  <2> DEFINE s == ep[g].links
             t == ep'[g].links
  <2>1. /\ s \in EventSeqs /\ s \in Seq(Events) /\ Len(s) \in Nat /\ v \notin Range(s) /\ t = Append(s, v)
        /\ s = <<>> <=> Len(s) = 0
    BY <1>2, EmptyOrNot DEF TypeInv, EpRow, Extends, Linked
  <2>2. Len(t) = Len(s) + 1 /\ t[Len(s) + 1] = v /\ \A i \in 1 .. Len(s) : t[i] = s[i]
    BY <2>1, AppendEvent
  <2>3. judged'[v] = [relation |-> k, basis |-> b]
    BY <1>2 DEF Extends, TypeInv
  <2>4. \A i \in 1 .. Len(s) : judged'[t[i]] = judged[s[i]]
    BY <1>2, <2>2, UnlinkedKeeps
  <2>5. ASSUME NEW e \in Episodes \ {g}
        PROVE  /\ ep'[e].links = ep[e].links
               /\ \A i \in 1 .. Len(ep[e].links) : judged'[ep[e].links[i]] = judged[ep[e].links[i]]
    <3>1. ep'[e].links = ep[e].links
      BY <1>2 DEF Extends
    <3>2. QED
      BY <1>2, <3>1, UnlinkedKeeps
  <2>6. JudgedInContext'
    <3>1. ASSUME NEW i \in 2 .. Len(t) PROVE judged'[t[i]].basis = SubSeq(t, 1, i - 1)
      <4>1. CASE i = Len(s) + 1
        <5>1. s # <<>>
          BY <2>1, <2>2, <4>1
        <5>2. b = s
          BY <1>2, <5>1 DEF Extends
        <5>3. QED
          BY <2>1, <2>2, <2>3, <4>1, <5>2, Prefixes
      <4>2. CASE i \in 2 .. Len(s)
        <5>1. judged[s[i]].basis = SubSeq(s, 1, i - 1)
          BY <4>2 DEF GroupInv, JudgedInContext
        <5>2. SubSeq(t, 1, i - 1) = SubSeq(s, 1, i - 1)
          BY <2>1, <4>2, Prefixes
        <5>3. i \in 1 .. Len(s)
          BY <2>1, <4>2
        <5>4. QED
          BY <2>4, <5>1, <5>2, <5>3
      <4>3. QED
        BY <2>1, <2>2, <4>1, <4>2
    <3>2. ASSUME NEW e \in Episodes \ {g}, NEW i \in 2 .. Len(ep'[e].links)
          PROVE  judged'[ep'[e].links[i]].basis = SubSeq(ep'[e].links, 1, i - 1)
      <4>1. Len(ep[e].links) \in Nat
        BY EmptyOrNot DEF TypeInv, EpRow
      <4>2. i \in 1 .. Len(ep[e].links) /\ i \in 2 .. Len(ep[e].links)
        BY <2>5, <4>1
      <4>3. judged[ep[e].links[i]].basis = SubSeq(ep[e].links, 1, i - 1)
        BY <4>2 DEF GroupInv, JudgedInContext
      <4>4. ep'[e].links = ep[e].links /\ judged'[ep[e].links[i]] = judged[ep[e].links[i]]
        BY <2>5, <4>2
      <4>5. QED
        BY <4>3, <4>4
    <3>3. QED
      BY <3>1, <3>2 DEF JudgedInContext
  <2>7. ShiftIsFirst'
    <3>1. ASSUME NEW i \in 1 .. Len(t), judged'[t[i]].relation \in {"switch", "ambiguous"}
          PROVE  \A j \in 1 .. (i - 1) : t[j] \notin UserEvents
      <4>1. CASE i = Len(s) + 1
        <5>1. s = <<>>
          BY <1>2, <2>2, <2>3, <3>1, <4>1 DEF Extends
        <5>2. QED
          BY <2>1, <4>1, <5>1
      <4>2. CASE i \in 1 .. Len(s)
        <5>1. \A j \in 1 .. (i - 1) : s[j] \notin UserEvents
          BY <2>4, <3>1, <4>2 DEF GroupInv, ShiftIsFirst
        <5>2. \A j \in 1 .. (i - 1) : j \in 1 .. Len(s)
          BY <2>1, <4>2
        <5>3. QED
          BY <2>2, <5>1, <5>2
      <4>3. QED
        BY <2>1, <2>2, <4>1, <4>2
    <3>2. ASSUME NEW e \in Episodes \ {g}, NEW i \in 1 .. Len(ep'[e].links),
                 judged'[ep'[e].links[i]].relation \in {"switch", "ambiguous"}
          PROVE  \A j \in 1 .. (i - 1) : ep'[e].links[j] \notin UserEvents
      BY <2>5, <3>2 DEF GroupInv, ShiftIsFirst
    <3>3. QED
      BY <3>1, <3>2 DEF ShiftIsFirst
  <2>8. QED
    BY <2>6, <2>7 DEF GroupInv
<1>3. QED
  BY <1>1, <1>2 DEF TurnEffect, SealEffect
-----------------------------------------------------------------------------
(* With one writer a receipt stays true; where the importer looks at the    *)
(* status, a hard seal stays, too.                                          *)

\* An idle sweep finds open what it found open, and a seal lists the links there are.
SweepInv ==
  /\ sweep.cur # NoEpisode => sweep.links = ep[sweep.cur].links /\ sweep.cur \notin sweep.todo
  /\ sweep.kind = "idle" =>
       \A e \in sweep.todo \cup {sweep.cur} : e # NoEpisode => ep[e].status = "open"

ClosedInv ==
  \A e \in Episodes : \A i \in 1 .. Len(ep[e].links) :
    judged[ep[e].links[i]].relation = "closes" => ep[e].status = "sealed" /\ i = Len(ep[e].links)

SealsKept == \A e \in InStatus("sealed") : ep'[e].status = "sealed"

SealInv == SweepInv /\ ReceiptInv

\* No sweep is on its way while somebody else writes.
LEMMA NoSweepNow ==
  ASSUME TypeInv, OneWriter, NoSweepInTheWay
  PROVE  sweep.kind = "none" /\ sweep.cur = NoEpisode /\ sweep.todo = {}
  BY DEF TypeInv, NoSweepInTheWay

LEMMA ClosedStep ==
  ASSUME TypeInv, ClosedInv, TurnEffect \/ SealEffect, SealsKept
  PROVE  ClosedInv'
<1>0. \A e \in Episodes : ep[e].status = "sealed" => ep'[e].status = "sealed"
  BY DEF SealsKept, InStatus
<1>1. CASE SameGroups
  BY <1>0, <1>1 DEF SameGroups, ClosedInv
<1>2. ASSUME NEW g \in Episodes, NEW v \in Events, NEW k \in Relations, NEW b \in EventSeqs,
             Extends(g, v, k, b)
      PROVE  ClosedInv'
  <2> DEFINE s == ep[g].links
             t == ep'[g].links
  <2>1. s \in EventSeqs /\ Len(s) \in Nat /\ v \notin Range(s) /\ t = Append(s, v)
    BY <1>2, EmptyOrNot DEF TypeInv, EpRow, Extends, Linked
  <2>2. Len(t) = Len(s) + 1 /\ t[Len(s) + 1] = v /\ \A i \in 1 .. Len(s) : t[i] = s[i]
    BY <2>1, AppendEvent
  <2>3. judged'[v].relation = k
    BY <1>2 DEF Extends, TypeInv
  <2>4. ASSUME NEW i \in 1 .. Len(s) PROVE judged'[t[i]].relation # "closes"
    <3>1. judged'[s[i]] = judged[s[i]]
      BY <1>2, UnlinkedKeeps
    <3>2. judged[s[i]].relation # "closes"
      BY <1>2 DEF ClosedInv, Extends
    <3>3. QED
      BY <2>2, <3>1, <3>2
  <2>5. \A i \in 1 .. Len(t) :
          judged'[t[i]].relation = "closes" => ep'[g].status = "sealed" /\ i = Len(t)
    BY <1>2, <2>1, <2>2, <2>3, <2>4 DEF Extends
  <2>6. ASSUME NEW e \in Episodes \ {g}, NEW i \in 1 .. Len(ep'[e].links),
               judged'[ep'[e].links[i]].relation = "closes"
        PROVE  ep'[e].status = "sealed" /\ i = Len(ep'[e].links)
    <3>1. ep'[e].links = ep[e].links
      BY <1>2 DEF Extends
    <3>2. judged[ep[e].links[i]].relation = "closes"
      BY <1>2, <2>6, <3>1, UnlinkedKeeps
    <3>3. QED
      BY <1>0, <3>1, <3>2 DEF ClosedInv
  <2>7. QED
    BY <2>5, <2>6 DEF ClosedInv
<1>3. QED
  BY <1>1, <1>2 DEF TurnEffect, SealEffect

LEMMA DeliverSeals ==
  ASSUME TypeInv, AtMostOneOpen, SealInv, OneWriter, NEW c \in Calls, Deliver(c)
  PROVE  SweepInv' /\ ReceiptInv' /\ SealsKept
<1>1. TurnOrRead /\ NoSweepInTheWay /\ UNCHANGED sweep
  BY DeliverStep
<1>2. sweep'.kind = "none" /\ sweep'.cur = NoEpisode
  BY <1>1, NoSweepNow
<1>3. ReceiptInv' /\ SealsKept
  BY <1>1 DEF TurnOrRead, TurnEffect, StatusEffect, SealInv, ReceiptInv, SealsKept, InStatus
<1>4. QED
  BY <1>2, <1>3 DEF SweepInv

\* One row is sealed while no sweep is under way.
LEMMA SealNowSeals ==
  ASSUME TypeInv, SealInv, OneWriter, NoSweepInTheWay, NEW e \in Episodes, NEW row,
         ep' = [ep EXCEPT ![e] = row], UNCHANGED sweep,
         Receipted(row)
  PROVE  /\ SweepInv' /\ ReceiptInv'
         /\ (ep[e].status = "sealed" => row.status = "sealed") => SealsKept
<1>1. sweep'.kind = "none" /\ sweep'.cur = NoEpisode
  BY NoSweepNow
<1>2. ep'[e] = row /\ \A f \in Episodes \ {e} : ep'[f] = ep[f]
  BY DEF TypeInv
<1>3. QED
  BY <1>1, <1>2 DEF SweepInv, ReceiptInv, SealsKept, InStatus, SealInv

LEMMA SealImportedSeals ==
  ASSUME TypeInv, SealInv, OneWriter,
         NEW e \in Episodes, NEW low \in BOOLEAN, SealImported(e, low)
  PROVE  SweepInv' /\ ReceiptInv' /\ (~ImportReseals => SealsKept)
<1> DEFINE row == IF low THEN ForReview(ep[e]) ELSE HardSealed(ep[e])
<1>1. /\ ep[e] \in EpRow /\ Grounded(ep[e]) /\ ep[e].status # "absent"
      /\ ~ImportReseals => ep[e].status # "sealed"
  BY DEF TypeInv, SealImported, Grounded
<1>2. Receipted(row)
  <2>1. Receipted(ep[e])
    BY DEF SealInv, ReceiptInv
  <2>2. Receipted(ForReview(ep[e])) /\ Receipted(HardSealed(ep[e]))
    BY <1>1, <2>1, KeptRow
  <2>3. QED
    BY <2>2
<1>3. ep' = [ep EXCEPT ![e] = row] /\ UNCHANGED sweep /\ NoSweepInTheWay
  BY DEF SealImported
<1> HIDE DEF row
<1>4. SweepInv' /\ ReceiptInv' /\ ((ep[e].status = "sealed" => row.status = "sealed") => SealsKept)
  BY <1>2, <1>3, SealNowSeals
<1>5. QED
  BY <1>1, <1>4

LEMMA OperatorSealSeals ==
  ASSUME TypeInv, SealInv, OneWriter,
         NEW e \in Episodes, NEW mode \in {"soft", "hard", "manual"}, OperatorSeal(e, mode)
  PROVE  SweepInv' /\ ReceiptInv' /\ SealsKept
<1> DEFINE row == CASE mode = "soft"   -> Sealed(ep[e], "soft_sealed", FALSE)
                    [] mode = "hard"   -> HardSealed(ep[e])
                    [] mode = "manual" -> StampedPlainly(ep[e], "sealed", ep[e].links)
<1>1. /\ ep[e] \in EpRow /\ Grounded(ep[e]) /\ ep[e].status # "absent" /\ Receipted(ep[e])
      /\ mode = "soft" => ep[e].status # "sealed"
  BY DEF TypeInv, OperatorSeal, Grounded, SealInv, ReceiptInv
<1>2. ep[e].links \in EventSeqs
  BY <1>1 DEF EpRow
<1>3. Receipted(row) /\ (mode # "soft" => row.status = "sealed")
  <2>1. CASE mode = "soft"
    BY <1>1, <2>1, SealedRow
  <2>2. CASE mode = "hard"
    BY <1>1, <2>2, KeptRow
  <2>3. CASE mode = "manual"
    BY <1>1, <1>2, <2>3, StampedForGood DEF Receipted
  <2>4. QED
    BY <2>1, <2>2, <2>3
<1>4. ep' = [ep EXCEPT ![e] = row] /\ UNCHANGED sweep /\ NoSweepInTheWay
  BY DEF OperatorSeal, StampedPlainly
<1>5. QED
  BY <1>1, <1>3, <1>4, SealNowSeals

LEMMA SweepSeals ==
  ASSUME TypeInv, SealInv, SweepStep
  PROVE  SweepInv' /\ ReceiptInv' /\ SealsKept
<1>1. ASSUME NEW e \in Episodes, SweepRead(e)
      PROVE  SweepInv' /\ ReceiptInv' /\ SealsKept
  <2>1. /\ e \in sweep.todo /\ sweep.cur = NoEpisode /\ UNCHANGED ep
        /\ sweep' = IF ep[e].status = Target(sweep.kind)
                    THEN Rest([sweep EXCEPT !.todo = @ \ {e}])
                    ELSE [sweep EXCEPT !.todo = @ \ {e}, !.cur = e, !.links = ep[e].links]
    BY <1>1 DEF SweepRead
  <2>2. /\ sweep'.kind = "idle" => sweep.kind = "idle"
        /\ sweep'.todo \cup {sweep'.cur} \subseteq sweep.todo \cup {NoEpisode}
        /\ sweep'.cur # NoEpisode => sweep'.links = ep[e].links /\ sweep'.cur = e /\ e \notin sweep'.todo
    <3>1. CASE ep[e].status = Target(sweep.kind)
      BY <2>1, <3>1 DEF TypeInv, Rest, NoSweep
    <3>2. CASE ep[e].status # Target(sweep.kind)
      <4>1. sweep' = [kind |-> sweep.kind, todo |-> sweep.todo \ {e}, cur |-> e, links |-> ep[e].links]
        BY <2>1, <3>2 DEF TypeInv
      <4>2. QED
        BY <2>1, <4>1
    <3>3. QED
      BY <3>1, <3>2
  <2>3. SweepInv'
    BY <2>1, <2>2 DEF SealInv, SweepInv
  <2>4. QED
    BY <2>1, <2>3 DEF SealInv, ReceiptInv, SealsKept, InStatus
<1>2. CASE SweepSeal
  <2> DEFINE row == StampedPlainly(ep[sweep.cur], Target(sweep.kind), sweep.links)
  <2>1. /\ sweep.cur \in Episodes /\ sweep.links \in EventSeqs /\ sweep.links = ep[sweep.cur].links
        /\ ep[sweep.cur] \in EpRow /\ sweep.cur \notin sweep.todo
        /\ ep' = [ep EXCEPT ![sweep.cur] = row]
    BY <1>2 DEF SweepSeal, StampedPlainly, TypeInv, SealInv, SweepInv
  <2>2. Target(sweep.kind) \in {"soft_sealed", "sealed"} /\ (sweep.kind # "idle" => Target(sweep.kind) = "sealed")
    BY DEF Target
  <2>3. /\ row.status = Target(sweep.kind) /\ row.links = ep[sweep.cur].links
        /\ row.receipt.events = sweep.links
    BY <2>1, <2>2, StampedForGood
  <2> HIDE DEF row
  <2>4. ep'[sweep.cur] = row /\ \A f \in Episodes \ {sweep.cur} : ep'[f] = ep[f]
    BY <2>1 DEF TypeInv
  <2>5. ReceiptInv'
    BY <2>1, <2>3, <2>4 DEF SealInv, ReceiptInv, Receipted
  <2>6. ep[sweep.cur].status = "sealed" => row.status = "sealed"
    BY <2>1, <2>2, <2>3, ConstantsAssumption DEF SealInv, SweepInv
  <2>7. SealsKept
    BY <2>4, <2>6 DEF SealsKept, InStatus
  <2>8. /\ sweep'.cur = NoEpisode /\ sweep'.todo \subseteq sweep.todo
        /\ sweep'.kind = "idle" => sweep.kind = "idle"
    BY <1>2 DEF SweepSeal, TypeInv, Rest, NoSweep
  <2>9. \A f \in sweep'.todo : f \in Episodes /\ ep'[f] = ep[f]
    BY <2>1, <2>4, <2>8 DEF TypeInv
  <2>10. SweepInv'
    BY <2>8, <2>9 DEF SealInv, SweepInv
  <2>11. QED
    BY <2>5, <2>7, <2>10
<1>3. QED
  BY <1>1, <1>2 DEF SweepStep
LEMMA SealStep ==
  ASSUME TypeInv, AtMostOneOpen, SealInv, OneWriter, [Next]_vars
  PROVE  SealInv' /\ (~ImportReseals => SealsKept)
<1> DEFINE Kept == SweepInv' /\ ReceiptInv' /\ (~ImportReseals => SealsKept)
<1>1. ASSUME NEW c \in Calls, Deliver(c) PROVE Kept
  BY <1>1, DeliverSeals
<1>2. ASSUME NEW kind \in Sweeps \ {"none"}, StartSweep(kind) PROVE Kept
  <2>1. UNCHANGED ep /\ sweep' = [kind |-> kind, todo |-> Candidates(kind), cur |-> NoEpisode, links |-> <<>>]
    BY <1>2 DEF StartSweep, NoSweep
  <2>2. kind = "idle" => \A e \in Candidates(kind) : ep[e].status = "open"
    BY DEF Candidates, InStatus
  <2>3. QED
    BY <2>1, <2>2 DEF SealInv, SweepInv, ReceiptInv, SealsKept, InStatus
<1>3. ASSUME SweepStep PROVE Kept
  BY <1>3, SweepSeals
<1>4. ASSUME NEW e \in Episodes, NEW low \in BOOLEAN, SealImported(e, low) PROVE Kept
  BY <1>4, SealImportedSeals
<1>5. ASSUME NEW e \in Episodes, NEW mode \in {"soft", "hard", "manual"}, OperatorSeal(e, mode)
      PROVE  Kept
  BY <1>5, OperatorSealSeals
<1>6. ASSUME Elapse PROVE Kept
  <2>1. \A e \in Episodes : ep'[e].status = ep[e].status
    BY <1>6, AgedRow DEF Elapse, TypeInv
  <2>2. sweep'.kind = "none" /\ sweep'.cur = NoEpisode
    BY <1>6, NoSweepNow DEF Elapse
  <2>3. QED
    BY <1>6, <2>1, <2>2, ElapseStep DEF SealInv, SweepInv, SealsKept, InStatus
<1>7. ASSUME UNCHANGED vars PROVE Kept
  BY <1>7 DEF vars, SealInv, SweepInv, ReceiptInv, SealsKept, InStatus
<1>8. Kept
  BY <1>1, <1>2, <1>3, <1>4, <1>5, <1>6, <1>7 DEF Next
<1>9. QED
  BY <1>8 DEF SealInv

-----------------------------------------------------------------------------
(* The theorems.                                                            *)

LEMMA TypesAlways == Spec => [](TypeInv /\ AtMostOneOpen)
<1>1. TypeInv /\ AtMostOneOpen /\ [Next]_vars => (TypeInv /\ AtMostOneOpen)'
  BY EpisodeStep, OneOpenStep
<1>2. QED
  BY <1>1, EpisodeInit, PTL DEF Spec

\* Every reachable state is one of rows, links without repetition, verdicts and
\* a sweep of the schema's kinds, and an episode without links is none.
THEOREM EpisodeTypes == Spec => []TypeOK
<1>1. TypeInv => TypeOK
  BY DEF TypeInv, TypeOK, EpRow, Receipt, Ages, Statuses, Grounded
<1>2. QED
  BY <1>1, TypesAlways, PTL

\* At most one episode of a conversation is open, whoever sweeps in between.
THEOREM OneIsOpen == Spec => []OneOpenEpisode
<1>1. AtMostOneOpen => OneOpenEpisode
  <2> SUFFICES ASSUME AtMostOneOpen PROVE OneOpenEpisode
    OBVIOUS
  <2>1. CASE InStatus("open") = {}
    BY <2>1, FS_EmptySet DEF OneOpenEpisode
  <2>2. CASE InStatus("open") # {}
    <3>1. PICK e : e \in InStatus("open")
      BY <2>2
    <3>2. InStatus("open") = {e}
      BY <3>1 DEF AtMostOneOpen, InStatus
    <3>3. Cardinality({e}) = 1
      BY FS_Singleton
    <3>4. QED
      BY <3>2, <3>3 DEF OneOpenEpisode
  <2>3. QED
    BY <2>1, <2>2
<1>2. QED
  BY <1>1, TypesAlways, PTL

LEMMA GroupsAlways == Spec => []GroupInv
<1>1. Init => GroupInv
  BY DEF Init, Absent, GroupInv, JudgedInContext, ShiftIsFirst
<1>2. TypeInv /\ AtMostOneOpen /\ GroupInv /\ [Next]_vars => GroupInv'
  BY EpisodeStep, GroupStep
<1>3. QED
  BY <1>1, <1>2, TypesAlways, PTL DEF Spec

\* A turn that joined an episode was judged against the turns before it, whatever
\* was committed, sealed or delivered twice while its reviewer was awaited.
THEOREM VerdictsFit == Spec => []JudgedInContext
  BY GroupsAlways, PTL DEF GroupInv

\* A turn that shifts the topic is the first user turn of its episode.
THEOREM ShiftsComeFirst == Spec => []ShiftIsFirst
  BY GroupsAlways, PTL DEF GroupInv

LEMMA SealsAlways == OneWriter => (Spec => []SealInv)
<1> SUFFICES ASSUME OneWriter PROVE Spec => []SealInv
  OBVIOUS
<1>1. Init => SealInv
  BY DEF Init, Absent, NoSweep, SealInv, SweepInv, ReceiptInv, Receipted
<1>2. TypeInv /\ AtMostOneOpen /\ SealInv /\ [Next]_vars => SealInv'
  BY SealStep
<1>3. QED
  BY <1>1, <1>2, TypesAlways, PTL DEF Spec

\* Nothing follows the turn that closed an episode, if one process writes and
\* imports leave hard seals alone.
THEOREM ClosuresEnd == OneWriter /\ ~ImportReseals => (Spec => []ClosureIsLast)
<1> SUFFICES ASSUME OneWriter, ~ImportReseals PROVE Spec => []ClosureIsLast
  OBVIOUS
<1>1. Init => ClosedInv
  BY DEF Init, Absent, ClosedInv
<1>2. TypeInv /\ AtMostOneOpen /\ SealInv /\ ClosedInv /\ [Next]_vars => ClosedInv'
  BY EpisodeStep, SealStep, ClosedStep
<1>3. ClosedInv => ClosureIsLast
  BY DEF ClosedInv, ClosureIsLast
<1>4. QED
  BY <1>1, <1>2, <1>3, TypesAlways, SealsAlways, PTL DEF Spec

\* If one process writes, the last receipt of a sealed episode lists its events,
\* imports that unseal it included.
THEOREM ReceiptsMatch == OneWriter => (Spec => []ReceiptMatches)
<1> SUFFICES ASSUME OneWriter PROVE Spec => []ReceiptMatches
  OBVIOUS
<1>1. SealInv => ReceiptMatches
  BY DEF SealInv, ReceiptInv, Receipted, ReceiptMatches
<1>2. QED
  BY <1>1, SealsAlways, PTL
\* A hard seal stays: deliveries, sweeps and the seal commands never take it back.
THEOREM SealsStay == OneWriter /\ ~ImportReseals => (Spec => HardSealedStays)
<1> SUFFICES ASSUME OneWriter, ~ImportReseals PROVE Spec => HardSealedStays
  OBVIOUS
<1>1. TypeInv /\ AtMostOneOpen /\ SealInv /\ [Next]_vars
        => [\A e \in InStatus("sealed") : ep'[e].status = "sealed"]_vars
  BY SealStep DEF SealsKept
<1>2. QED
  BY <1>1, TypesAlways, SealsAlways, PTL DEF Spec, HardSealedStays

-----------------------------------------------------------------------------
(* Grouping is final.                                                       *)

LEMMA SegmentationInit == Init => Grouping!Init
  BY DEF Init, Absent, Grouping!Init, InStatus

\* A group gets its next event, or stays.
LEMMA GroupsGrow ==
  ASSUME TypeInv, TurnEffect \/ SealEffect
  PROVE  LET groups == [e \in Episodes |-> ep[e].links]
         IN  Grouping!Extend \/ groups' = groups
<1> DEFINE groups == [e \in Episodes |-> ep[e].links]
<1>1. CASE SameGroups
  BY <1>1 DEF SameGroups
<1>2. ASSUME NEW g \in Episodes, NEW v \in Events, NEW k \in Relations, NEW b \in EventSeqs,
             Extends(g, v, k, b)
      PROVE  Grouping!Extend
  <2>1. g \in Episodes \ InStatus("sealed")
    BY <1>2 DEF Extends, InStatus
  <2>2. v \in Events \ Grouping!Placed
    BY <1>2 DEF Extends, Linked, Range, Grouping!Placed
  <2>3. groups' = [groups EXCEPT ![g] = Append(@, v)]
    BY <1>2 DEF Extends
  <2>4. QED
    BY <2>1, <2>2, <2>3 DEF Grouping!Extend
<1>3. QED
  BY <1>1, <1>2 DEF TurnEffect, SealEffect

LEMMA SegmentationStep ==
  ASSUME TypeInv, AtMostOneOpen, SealInv, OneWriter, ~ImportReseals, [Next]_vars
  PROVE  [Grouping!Next]_(Grouping!vars)
<1>1. TypeInv' /\ (TurnEffect \/ SealEffect) /\ SealsKept
  BY EpisodeStep, SealStep
<1>2. InStatus("sealed") \subseteq InStatus("sealed")'
  BY <1>1 DEF SealsKept, InStatus
<1>3. \A e \in InStatus("sealed")' : e \in Episodes /\ ep'[e].links # <<>>
  BY <1>1 DEF InStatus, TypeInv, Grounded
<1>4. QED
  BY <1>1, <1>2, <1>3, GroupsGrow DEF Grouping!Next

\* Deliveries in any order, reviewers that answer late, sweeps, imports and operators
\* implement Segmentation: events join one group each, and final groups stay.
THEOREM GroupingIsFinal == OneWriter /\ ~ImportReseals => (Spec => ImplementsSegmentation)
<1> SUFFICES ASSUME OneWriter, ~ImportReseals PROVE Spec => ImplementsSegmentation
  OBVIOUS
<1>1. QED
  BY SegmentationInit, SegmentationStep, TypesAlways, SealsAlways, PTL
  DEF Spec, ImplementsSegmentation, Grouping!Spec
=============================================================================
