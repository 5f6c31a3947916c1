--------------------------- MODULE EpisodeImport ---------------------------
(***************************************************************************)
(* A transcript file, one message to a line, imported into the episodes of *)
(* a session: the identity of a message, the key that reserves it, the raw *)
(* event, its assembly into an episode, and the checkpoint from which a    *)
(* later run resumes.  Lines fail, processes die between any two           *)
(* statements, the file grows or is replaced, and two imports overlap.     *)
(***************************************************************************)
EXTENDS Naturals, Sequences, FiniteSets

CONSTANTS Importers,   \* processes
          Texts,       \* what a line may say; equal lines are told apart by their occurrence
          Malformed,   \* a line that does not parse
          MaxLines,    \* bound: lines of the file
          ChunkSize,   \* lines from one checkpoint to the next
          MaxErrors,   \* errors a run with --skip-errors endures
          MaxFaults    \* bound: crashes and failing writes

ImportAssumption ==
  /\ Malformed \notin Texts /\ ChunkSize \in Nat \ {0} /\ {MaxLines, MaxErrors, MaxFaults} \subseteq Nat

VARIABLES file,         \* its lines
          key,          \* key[id]: state in episode_ingest_keys
          event,        \* event[id]: nothing, a raw event, or one in (or kept out of) an episode
          created,      \* created[id]: answers that said they had created it
          checkpoint,   \* the checkpoint file
          run,          \* run[p]: the import of p
          passed,       \* identities of lines passed over with --skip-errors
          faults        \* so far

vars == <<file, key, event, created, checkpoint, run, passed, faults>>

Line     == Texts \cup {Malformed}
Identity == Texts \X (1..MaxLines)

NoCheckpoint == [line |-> 0, prefix |-> <<"none">>]
Idle == [pc |-> "idle", at |-> 0, seen |-> [t \in Texts |-> 0], last |-> 0,
         done |-> 0, errors |-> 0, fresh |-> FALSE, skip |-> FALSE]

RunRecord == [pc : {"idle", "line", "look", "append", "assemble", "mark", "answer"},
              at : 0..MaxLines, seen : [Texts -> 0..MaxLines], last : 0..MaxLines,
              done : 0..MaxLines, errors : 0..MaxErrors, fresh : BOOLEAN, skip : BOOLEAN]

TypeOK == /\ file \in Seq(Line) /\ Len(file) <= MaxLines
          /\ key \in [Identity -> {"none", "reserved", "failed", "committed"}]
          /\ event \in [Identity -> {"none", "raw", "settled"}]
          /\ \A id \in Identity : event[id] # "none" => key[id] # "none"
          /\ created \in [Identity -> Nat]
          /\ \/ checkpoint = NoCheckpoint
             \/ checkpoint.line \in 0..MaxLines /\ Len(checkpoint.prefix) = checkpoint.line
          /\ run \in [Importers -> RunRecord]
          /\ \A p \in Importers : run[p].last <= run[p].at /\ run[p].at <= Len(file)
          /\ passed \subseteq Identity /\ faults \in 0..MaxFaults

Init == /\ file \in UNION {[1..n -> Line] : n \in 1..MaxLines}
        /\ key = [id \in Identity |-> "none"]
        /\ event = [id \in Identity |-> "none"]
        /\ created = [id \in Identity |-> 0]
        /\ checkpoint = NoCheckpoint
        /\ run = [p \in Importers |-> Idle]
        /\ passed = {} /\ faults = 0

-----------------------------------------------------------------------------
(* Identity: the text and how often it was met in the session.              *)

Occurrences(lines, t) == Cardinality({i \in 1..Len(lines) : lines[i] = t})
IdentityOf(lines, i)  == <<lines[i], Occurrences(SubSeq(lines, 1, i), lines[i])>>

\* Mutant: a resumed run counts from nothing.
CountedAfresh(lines) == [t \in Texts |-> 0]

\* What a resumed run rebuilds from the lines it skips.
Counted(lines) == [t \in Texts |-> Occurrences(lines, t)]

Current(p) == LET t == file[run[p].at] IN <<t, run[p].seen[t]>>

-----------------------------------------------------------------------------
(* The import command.                                                      *)

Prefix(n) == SubSeq(file, 1, n)

\* Mutant: only that the file is long enough.
AcceptsLength(c) == c.line <= Len(file)

\* The test on --resume: a checkpoint of no lines has a prefix hash too, but nothing is
\* computed to compare it with.
Accepts(c) == c.line > 0 /\ c.line <= Len(file) /\ c.prefix = Prefix(c.line)

\* Reading starts behind the checkpoint, or at the first line.
Start(p, resume, skip) ==
  /\ run[p].pc = "idle"
  /\ resume /\ checkpoint # NoCheckpoint => Accepts(checkpoint)
  /\ LET n == IF resume THEN checkpoint.line ELSE 0
     IN  run' = [run EXCEPT ![p] = [Idle EXCEPT !.pc = "line", !.at = n, !.last = n,
                                               !.seen = Counted(Prefix(n)), !.skip = skip]]
  /\ UNCHANGED <<file, key, event, created, checkpoint, passed, faults>>

\* Mutant: the hash is one of the whole file.
WriteCheckpointWhole(n) == checkpoint' = [line |-> n, prefix |-> file]

WriteCheckpoint(n) == checkpoint' = [line |-> n, prefix |-> Prefix(n)]

\* catch: the failure is in the checkpoint, the line is passed over or the run ends.
FailLine(p, r) ==
  /\ WriteCheckpoint(r.last)
  /\ IF r.skip /\ r.errors < MaxErrors
     THEN /\ run' = [run EXCEPT ![p] = [r EXCEPT !.pc = "line", !.last = r.at, !.errors = r.errors + 1]]
          /\ passed' = IF file[r.at] = Malformed THEN passed
                       ELSE passed \cup {<<file[r.at], r.seen[file[r.at]]>>}
     ELSE run' = [run EXCEPT ![p] = Idle] /\ UNCHANGED passed

ReadLine(p) ==
  LET r == [run[p] EXCEPT !.at = @ + 1]
      t == file[r.at]
  IN  /\ run[p].pc = "line" /\ run[p].at < Len(file)
      /\ \/ t = Malformed /\ FailLine(p, r)
         \/ /\ t # Malformed
            /\ run' = [run EXCEPT ![p] = [r EXCEPT !.seen[t] = @ + 1, !.pc = "look"]]
            /\ UNCHANGED <<checkpoint, passed>>
      /\ UNCHANGED <<file, key, event, created, faults>>

\* The end of the file or of the window of lines that was asked for, which has a line.
Finish(p) == /\ run[p].pc = "line" /\ run[p].at > 0
             /\ WriteCheckpoint(run[p].last)
             /\ run' = [run EXCEPT ![p] = Idle]
             /\ UNCHANGED <<file, key, event, created, passed, faults>>

-----------------------------------------------------------------------------
(* appendEpisodeMessageAsync.                                               *)

\* recordIngestKey, and whether the event is there already.
Look(p) ==
  LET id == Current(p)
  IN  /\ run[p].pc = "look"
      /\ key' = [key EXCEPT ![id] = IF @ = "none" THEN "reserved" ELSE @]
      /\ run' = [run EXCEPT ![p].pc = IF event[id] = "none" THEN "append" ELSE "assemble",
                            ![p].fresh = FALSE]
      /\ UNCHANGED <<file, event, created, checkpoint, passed, faults>>

\* Mutant: losing the race for the event id is not told from winning it.
AppendedAlways(id) == TRUE

\* The id is the event's primary key.
Appended(id) == event[id] = "none"

AppendRaw(p) ==
  LET id == Current(p)
  IN  /\ run[p].pc = "append"
      /\ event' = [event EXCEPT ![id] = IF @ = "none" THEN "raw" ELSE @]
      /\ run' = [run EXCEPT ![p].pc = "assemble", ![p].fresh = Appended(id)]
      /\ UNCHANGED <<file, key, created, checkpoint, passed, faults>>

\* Mutant: the key is committed when its event is there.
AssembledLater(id) == event

\* The turn is in an episode, or was found to be noise, or to start none.
Assembled(id) == [event EXCEPT ![id] = "settled"]

Assemble(p) ==
  /\ run[p].pc = "assemble"
  /\ event' = Assembled(Current(p))
  /\ run' = [run EXCEPT ![p].pc = "mark"]
  /\ UNCHANGED <<file, key, created, checkpoint, passed, faults>>

Mark(p) ==
  /\ run[p].pc = "mark"
  /\ key' = [key EXCEPT ![Current(p)] = "committed"]
  /\ run' = [run EXCEPT ![p].pc = "answer"]
  /\ UNCHANGED <<file, event, created, checkpoint, passed, faults>>

\* The answer is counted, and a full chunk makes a checkpoint.
Answer(p) ==
  LET r == run[p]
      done == r.done + 1
  IN  /\ r.pc = "answer"
      /\ created' = [created EXCEPT ![Current(p)] = IF r.fresh THEN @ + 1 ELSE @]
      /\ run' = [run EXCEPT ![p] = [r EXCEPT !.pc = "line", !.last = r.at, !.done = done]]
      /\ IF done % ChunkSize = 0 THEN WriteCheckpoint(r.at) ELSE UNCHANGED checkpoint
      /\ UNCHANGED <<file, key, event, passed, faults>>

\* The raw event or its assembly cannot be written: the key says so, whatever it said.
Throw(p) ==
  /\ run[p].pc \in {"append", "assemble"} /\ faults < MaxFaults
  /\ run[p].pc = "append" => event[Current(p)] = "none"
  /\ faults' = faults + 1
  /\ key' = [key EXCEPT ![Current(p)] = "failed"]
  /\ FailLine(p, run[p])
  /\ UNCHANGED <<file, event, created>>

-----------------------------------------------------------------------------
(* The world.                                                               *)

Crash(p) == /\ run[p].pc # "idle" /\ faults < MaxFaults
            /\ faults' = faults + 1
            /\ run' = [run EXCEPT ![p] = Idle]
            /\ UNCHANGED <<file, key, event, created, checkpoint, passed>>

\* The agent writes on.
Grow == /\ Len(file) < MaxLines
        /\ \E l \in Line : file' = Append(file, l)
        /\ UNCHANGED <<key, event, created, checkpoint, run, passed, faults>>

\* Another file under the same name; nobody is reading.
Replace == /\ \A p \in Importers : run[p].pc = "idle"
           /\ faults < MaxFaults /\ faults' = faults + 1
           /\ \E f \in UNION {[1..n -> Line] : n \in 1..MaxLines} : f # file /\ file' = f
           /\ UNCHANGED <<key, event, created, checkpoint, run, passed>>

Next == \/ \E p \in Importers :
             \/ ReadLine(p) \/ Finish(p) \/ Look(p) \/ AppendRaw(p)
             \/ Assemble(p) \/ Mark(p) \/ Answer(p) \/ Throw(p) \/ Crash(p)
             \/ \E resume, skip \in BOOLEAN : Start(p, resume, skip)
        \/ Grow \/ Replace

Spec == Init /\ [][Next]_vars

-----------------------------------------------------------------------------
(* Properties                                                               *)

\* Whatever crashed, failed, overlapped or was replaced: a line that the checkpoint lets a
\* resumed run skip is in the store under its own identity, unless it was passed over.
CheckpointIsTrue ==
  checkpoint # NoCheckpoint =>
    \A i \in 1..checkpoint.line :
      checkpoint.prefix[i] # Malformed =>
        LET id == IdentityOf(checkpoint.prefix, i)
        IN  event[id] = "settled" \/ id \in passed

\* However often a line is read, by one run or by two at once, one answer says "created".
CreatedOnce == \A id \in Identity : created[id] <= 1

\* A committed key is one whose turn was assembled.
CommittedIsSettled == \A id \in Identity : key[id] = "committed" => event[id] = "settled"

\* "import resume": the checkpoint a failed run leaves, with the line to resume from, is
\* accepted over the file it was written for.
ResumeAccepted ==
  checkpoint # NoCheckpoint /\ checkpoint.line <= Len(file) /\ checkpoint.prefix = Prefix(checkpoint.line)
    => Accepts(checkpoint)
=============================================================================
