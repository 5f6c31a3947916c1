----------------------------- MODULE AgentTurn -----------------------------
(***************************************************************************)
(* How an agent's turn is recorded.  A turn that the caller names is an    *)
(* identity: its claim looks for the turn's events, whose ids derive from  *)
(* the name, before a turn sequence is drawn and the user's message and    *)
(* the reply are appended, linked, assembled into an episode and compiled. *)
(* Each of these is a transaction of its own, so processes interleave and  *)
(* die between them, and a write fails when the database stays locked.     *)
(* What was recorded and never assembled is left to `episode repair`.      *)
(***************************************************************************)
EXTENDS Naturals, FiniteSets, FiniteSetsExt

CONSTANTS Writers,    \* processes that record turns
          Turns,      \* names that a caller gives to turns
          Texts,      \* what may be said
          Limit,      \* events that one repair reads
          MaxCalls,   \* bound: calls of rememberTurnWithResult
          MaxDeaths,  \* bound: writers that die
          MaxFaults   \* bound: writes that fail

\* A repair starts at the last event that the one before it read: to advance, it must read two.
TurnAssumption == /\ {MaxCalls, MaxDeaths, MaxFaults} \subseteq Nat
                  /\ Limit \in Nat \ {0, 1}

VARIABLES ledger,     \* the thread's raw events
          drawn,      \* the thread's turn counter
          assembled,  \* positions of the events that an episode holds or has set aside
          since,      \* where the next repair starts
          writer,     \* writer[p]: a call of rememberTurnWithResult
          asked,      \* the turns submitted so far
          answers,    \* what they were answered
          calls, deaths, faults

recorded == <<ledger, drawn, assembled>>
bounds == <<calls, deaths, faults>>
vars == <<ledger, drawn, assembled, since, writer, asked, answers, calls, deaths, faults>>

None    == "none"
Unnamed == "unnamed"
Names   == Turns \cup {Unnamed}
Turn    == [name : Names, user : Texts, reply : Texts \cup {None}]
\* seq is the turn sequence, pos the place in the thread, next whether it names its successor.
Event   == [name : Names, ordinal : {1, 2}, text : Texts, seq : 1..MaxCalls,
            pos : 1..(2 * MaxCalls), next : BOOLEAN]
Idle    == [pc |-> "idle"]
Call    == [pc : {"claim", "draw", "user", "reclaim", "reply", "link", "assemble", "compile"},
            turn : Turn, seq : 0..MaxCalls]

TypeOK ==
  /\ ledger \subseteq Event /\ drawn \in 0..MaxCalls
  /\ {e.pos : e \in ledger} = 1..Cardinality(ledger)
  /\ assembled \subseteq {e.pos : e \in ledger}
  /\ since \in 0..(2 * MaxCalls)
  /\ writer \in [Writers -> Call \cup {Idle}]
  /\ asked \subseteq Turn
  /\ answers \subseteq Turn \X {"recorded", "duplicate", "conflict", "error"}
  /\ calls \in 0..MaxCalls /\ deaths \in 0..MaxDeaths /\ faults \in 0..MaxFaults

Init ==
  /\ ledger = {} /\ drawn = 0 /\ assembled = {} /\ since = 0
  /\ writer = [p \in Writers |-> Idle] /\ asked = {} /\ answers = {}
  /\ calls = 0 /\ deaths = 0 /\ faults = 0

At(p, pc) == writer[p].pc = pc
Goto(p, pc) == writer' = [writer EXCEPT ![p].pc = pc] /\ UNCHANGED <<asked, answers>>
Answer(p, a) == /\ answers' = answers \cup {<<writer[p].turn, a>>}
                /\ writer' = [writer EXCEPT ![p] = Idle] /\ UNCHANGED asked
Fault == faults' = faults + 1 /\ faults < MaxFaults /\ UNCHANGED <<calls, deaths>>

(***************************************************************************)
(* The claim.  The events of a named turn are found by its name alone.     *)
(***************************************************************************)
Stored(name, o) == {e \in ledger : name # Unnamed /\ e.name = name /\ e.ordinal = o}
Said(turn, o) == IF o = 1 THEN turn.user ELSE turn.reply
Messages(turn) == {o \in {1, 2} : Said(turn, o) # None}
Same(turn, o) == \E e \in Stored(turn.name, o) : e.text = Said(turn, o)

ClaimAgentTurn(turn) ==
  IF Stored(turn.name, 1) = {} THEN "new"
  ELSE IF \A o \in Messages(turn) : Same(turn, o) THEN "duplicate" ELSE "conflict"

RememberTurn(p, turn) ==
  /\ writer[p] = Idle /\ calls < MaxCalls
  /\ writer' = [writer EXCEPT ![p] =
       [pc |-> IF turn.name = Unnamed THEN "draw" ELSE "claim", turn |-> turn, seq |-> 0]]
  /\ asked' = asked \cup {turn} /\ calls' = calls + 1
  /\ UNCHANGED <<recorded, since, answers, deaths, faults>>

Claim(p) ==
  /\ At(p, "claim")
  /\ LET claim == ClaimAgentTurn(writer[p].turn) IN
       IF claim = "new" THEN Goto(p, "draw") ELSE Answer(p, claim)
  /\ UNCHANGED <<recorded, since, bounds>>

(***************************************************************************)
(* The writes.  An event id that is taken fails the append like a lock     *)
(* that does not go away; the user's message asks the claim again.         *)
(***************************************************************************)
\* Mutant: the sequence after the last one recorded, as a MAX over the events gives it.
NextTurnSeqPeeked == IF ledger = {} THEN 1 ELSE Max({e.seq : e \in ledger}) + 1
NextTurnSeq == drawn + 1

Draw(p) ==
  /\ At(p, "draw") /\ drawn' = drawn + 1
  /\ writer' = [writer EXCEPT ![p] = [@ EXCEPT !.pc = "user", !.seq = NextTurnSeq]]
  /\ UNCHANGED <<ledger, assembled, since, asked, answers, bounds>>

Taken(p, o) == Stored(writer[p].turn.name, o) # {}
\* Mutant: the place is the turn's, not the message's.
AppendBySeq(p, o) ==
  ledger' = ledger \cup {[name |-> writer[p].turn.name, ordinal |-> o,
                          text |-> Said(writer[p].turn, o), seq |-> writer[p].seq,
                          pos |-> writer[p].seq, next |-> FALSE]}
Append(p, o) ==
  ledger' = ledger \cup {[name |-> writer[p].turn.name, ordinal |-> o,
                          text |-> Said(writer[p].turn, o), seq |-> writer[p].seq,
                          pos |-> Cardinality(ledger) + 1, next |-> FALSE]}

WriteUser(p) ==
  /\ At(p, "user") /\ ~Taken(p, 1) /\ Append(p, 1)
  /\ Goto(p, IF writer[p].turn.reply = None THEN "assemble" ELSE "reply")
  /\ UNCHANGED <<drawn, assembled, since, bounds>>

\* Mutant: insert or ignore; a message that is there already need not be written.
UserFailsIgnored(p) ==
  /\ At(p, "user") /\ Taken(p, 1)
  /\ Goto(p, IF writer[p].turn.reply = None THEN "assemble" ELSE "reply")
  /\ UNCHANGED <<recorded, since, bounds>>
UserFails(p) ==
  /\ At(p, "user") /\ IF Taken(p, 1) THEN UNCHANGED bounds ELSE Fault
  /\ IF writer[p].turn.name = Unnamed THEN Answer(p, "error") ELSE Goto(p, "reclaim")
  /\ UNCHANGED <<recorded, since>>

\* Mutant: the append failed, so somebody has recorded this turn.
ReclaimTrusts(p) ==
  /\ At(p, "reclaim")
  /\ Answer(p, IF Stored(writer[p].turn.name, 1) = {} THEN "error" ELSE "duplicate")
  /\ UNCHANGED <<recorded, since, bounds>>
Reclaim(p) ==
  /\ At(p, "reclaim")
  /\ LET claim == ClaimAgentTurn(writer[p].turn) IN
       Answer(p, IF claim = "new" THEN "error" ELSE claim)
  /\ UNCHANGED <<recorded, since, bounds>>

WriteReply(p) ==
  /\ At(p, "reply") /\ ~Taken(p, 2) /\ Append(p, 2) /\ Goto(p, "link")
  /\ UNCHANGED <<drawn, assembled, since, bounds>>

Own(p) == {e \in ledger : e.name = writer[p].turn.name /\ e.seq = writer[p].seq}

UpdateNextEventId(p) ==
  /\ At(p, "link") /\ Goto(p, "assemble")
  /\ ledger' = {IF e \in Own(p) /\ e.ordinal = 1 THEN [e EXCEPT !.next = TRUE] ELSE e : e \in ledger}
  /\ UNCHANGED <<drawn, assembled, since, bounds>>

Fails(p) ==
  /\ writer[p].pc \in {"draw", "reply", "link", "compile"} /\ Fault
  /\ Answer(p, "error") /\ UNCHANGED <<recorded, since>>

(***************************************************************************)
(* The episode, where a failure is only counted, and the memory.           *)
(***************************************************************************)
AssembleEpisodeTurn(p) ==
  /\ At(p, "assemble") /\ Goto(p, "compile")
  /\ \/ assembled' = assembled \cup {e.pos : e \in Own(p)} /\ UNCHANGED bounds
     \/ UNCHANGED assembled /\ Fault
  /\ UNCHANGED <<ledger, drawn, since>>

Compile(p) ==
  /\ At(p, "compile") /\ Answer(p, "recorded") /\ UNCHANGED <<recorded, since, bounds>>

Die(p) ==
  /\ writer[p] # Idle /\ deaths < MaxDeaths /\ deaths' = deaths + 1
  /\ writer' = [writer EXCEPT ![p] = Idle]
  /\ UNCHANGED <<recorded, since, asked, answers, calls, faults>>

(***************************************************************************)
(* The repair of unassembled events: a page of the ledger per call, from   *)
(* where the last one ended, and again from the start when there is no     *)
(* more.  An event whose assembly fails is reported and left.              *)
(***************************************************************************)
Later == {e.pos : e \in {f \in ledger : f.pos >= since}}
Page == {n \in Later : Cardinality({m \in Later : m < n}) < Limit}
\* Mutant: the page's end is not handed back.
NextSinceLost == 0
NextSince == IF Cardinality(Page) = Limit THEN Max(Page) ELSE 0

RepairEpisodes ==
  \E failed \in SUBSET (Page \ assembled) :
    /\ assembled' = assembled \cup (Page \ failed)
    /\ faults' = faults + Cardinality(failed) /\ faults' <= MaxFaults
    /\ since' = NextSince
    /\ UNCHANGED <<ledger, drawn, writer, asked, answers, calls, deaths>>

Write(p) ==
  \/ \E turn \in Turn : RememberTurn(p, turn)
  \/ Claim(p) \/ Draw(p) \/ WriteUser(p) \/ UserFails(p) \/ Reclaim(p) \/ WriteReply(p)
  \/ UpdateNextEventId(p) \/ Fails(p) \/ AssembleEpisodeTurn(p) \/ Compile(p) \/ Die(p)

Next == (\E p \in Writers : Write(p)) \/ RepairEpisodes

Spec == Init /\ [][Next]_vars
\* Someone keeps repairing; no writer need ever take another step.
LiveSpec == Spec /\ WF_vars(RepairEpisodes)

(***************************************************************************)
(* What recording a turn promises.                                         *)
(***************************************************************************)
\* A name stands for one turn: what it recorded was said in one submission, whoever raced for
\* the name, with at most one message of each side.
OneTurn ==
  \A name \in Turns :
    /\ \A o \in {1, 2} : Cardinality(Stored(name, o)) <= 1
    /\ \A e \in Stored(name, 1), f \in Stored(name, 2) :
         [name |-> name, user |-> e.text, reply |-> f.text] \in asked

\* Who is told that a turn is recorded, by this call or an earlier one, finds it recorded as
\* submitted: every message of it, in the order said.
AnsweredIsRecorded ==
  \A t \in asked : {<<t, "recorded">>, <<t, "duplicate">>} \cap answers # {} =>
    \E E \in SUBSET ledger :
      /\ \A e \in E : e.name = t.name /\ e.text = Said(t, e.ordinal)
      /\ {e.ordinal : e \in E} = Messages(t)
      /\ \A e, f \in E : e.seq = f.seq /\ (e.ordinal < f.ordinal => e.pos < f.pos)

\* A turn sequence is one turn's: a number that two calls race for, or that a call drew and
\* lost, never comes back to join the messages of different turns.
SeqIsOneTurn ==
  \A e, f \in ledger : e.seq = f.seq =>
    /\ e.name = f.name
    /\ e # f => e.ordinal # f.ordinal

\* Every event comes to an episode although writers die before they assemble theirs, the
\* assembly fails, or a repair reads only Limit events of a longer ledger.
Assembled ==
  \A n \in 1..(2 * MaxCalls) : []<>((\E e \in ledger : e.pos = n) => n \in assembled)

\* "A retry returns what is already recorded": a name is refused only to who says something
\* else than a submission before it.  A writer that dies between the two messages leaves a
\* turn that refuses every retry of itself.
RefusedSaysOther ==
  \A t \in asked : <<t, "conflict">> \in answers =>
    \E s \in asked : s.name = t.name /\ (s.user # t.user \/ s.reply # t.reply)

=============================================================================
