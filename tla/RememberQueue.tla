--------------------------- MODULE RememberQueue ---------------------------
(***************************************************************************)
(* The remember queue of the OpenClaw plugin: a JSONL file to which the    *)
(* gateway appends a job at the end of each turn, and which bridge         *)
(* processes drain into the kernel.  All coordination is by files: the     *)
(* queue is renamed to be drained, a directory is the drain lock, another  *)
(* the lock of whoever spawns a drainer, and files older than a timeout    *)
(* are taken to be left by the dead.  Gateways and drainers are processes  *)
(* that interleave and die between any two file operations.                *)
(***************************************************************************)
EXTENDS Naturals, Sequences, FiniteSets

CONSTANTS Jobs,         \* finished turns
          Hosts,        \* gateways that share the queue
          Drainers,     \* bridge processes alive, or with a file left, at once
          BatchSize,    \* rememberDrainBatchSize
          MaxAttempts,  \* rememberMaxAttempts
          MaxDeaths,    \* bound: processes that die
          MaxTorn,      \* bound: appends in whose middle another process runs
          MaxClock      \* bound: how often rememberDrainTimeoutMs goes by

Nobody == "nobody"   \* no turn, no process

QueueAssumption == /\ {MaxDeaths, MaxTorn, MaxClock} \subseteq Nat
                   /\ {BatchSize, MaxAttempts} \subseteq Nat \ {0}
                   /\ Nobody \notin Jobs \cup Hosts \cup Drainers /\ "queue" \notin Drainers

VARIABLES queue,       \* the queue file
          processing,  \* processing[d]: the file d renamed the queue to
          dead,        \* the lines of the dead-letter file
          lock,        \* the drain lock: a directory, its mtime
          spawnLock,   \* the spawn lock, likewise
          host,        \* host[h]: a gateway in its agent_end hook
          drainer,     \* drainer[d]: a bridge process
          queued,      \* jobs whose append has returned
          times,       \* times[j]: how often turn j was recorded, up to two
          late,        \* has a remember failed after it had recorded the turn?
          deaths, torn, clock

vars == <<queue, processing, dead, lock, spawnLock, host, drainer, queued, times, late,
          deaths, torn, clock>>
files == <<queue, processing, dead>>
counts == <<times, late, deaths, torn, clock>>

Line    == [job : Jobs, attempts : 0..MaxAttempts]
File    == [there : BOOLEAN, lines : Seq(Line), mtime : 0..MaxClock]
NoFile  == [there |-> FALSE, lines |-> <<>>, mtime |-> 0]
NoLock  == [held |-> FALSE, mtime |-> 0]
Idle    == [pc |-> "idle", job |-> Nobody, at |-> Nobody]
Off     == [pc |-> "off", todo |-> <<>>, rest |-> <<>>, takes |-> Nobody, parent |-> Nobody]

TypeOK ==
  /\ queue \in File /\ processing \in [Drainers -> File] /\ dead \subseteq Line
  /\ \A f \in {queue} \cup {processing[d] : d \in Drainers} : ~f.there => f = NoFile
  /\ \A i \in DOMAIN queue.lines : queue.lines[i].attempts < MaxAttempts
  /\ \A l \in dead : l.attempts = MaxAttempts
  /\ {lock, spawnLock} \subseteq [held : BOOLEAN, mtime : 0..MaxClock]
  /\ host \in [Hosts -> [pc : {"idle", "opened", "queued", "stale", "spawning"},
                         job : Jobs \cup {Nobody}, at : {"queue", Nobody} \cup Drainers]]
  /\ drainer \in [Drainers -> [pc : {"off", "recover", "lock", "stale", "open", "drain", "close"},
                               todo : Seq(Line), rest : Seq(Line),
                               takes : Drainers \cup {Nobody}, parent : Hosts \cup {Nobody}]]
  /\ queued \subseteq Jobs /\ times \in [Jobs -> 0..2] /\ late \in BOOLEAN
  /\ deaths \in 0..MaxDeaths /\ torn \in 0..MaxTorn /\ clock \in 0..MaxClock

Init == /\ queue = NoFile /\ processing = [d \in Drainers |-> NoFile] /\ dead = {}
        /\ lock = NoLock /\ spawnLock = NoLock
        /\ host = [h \in Hosts |-> Idle] /\ drainer = [d \in Drainers |-> Off]
        /\ queued = {} /\ times = [j \in Jobs |-> 0] /\ late = FALSE
        /\ deaths = 0 /\ torn = 0 /\ clock = 0

(* Older than the timeout: written before it last went by. *)
Stale(mtime) == mtime < clock
TakenNow     == [held |-> TRUE, mtime |-> clock]
Fresh(j)     == [job |-> j, attempts |-> 0]

Appended(f, lines) == [there |-> TRUE, lines |-> f.lines \o lines, mtime |-> clock]

(* An append in progress follows the file it opened: to its new name when  *)
(* the queue is renamed, to nowhere once the file is removed.              *)
Moved(from, to) == [h \in Hosts |-> IF host[h].at = from THEN [host[h] EXCEPT !.at = to]
                                                         ELSE host[h]]
Ended == queued \cup UNION {{j \in Jobs : host[h].job = j} : h \in Hosts}

-----------------------------------------------------------------------------
(* agent_end: append the job, then start a drainer. *)
Enqueue(h, j) == /\ host[h].pc = "idle" /\ j \notin Ended
                 /\ queue' = Appended(queue, <<Fresh(j)>>)
                 /\ host' = [host EXCEPT ![h] = [@ EXCEPT !.pc = "queued"]]
                 /\ queued' = queued \cup {j}
                 /\ UNCHANGED <<processing, dead, lock, spawnLock, drainer, counts>>

OpenQueue(h, j) == /\ host[h].pc = "idle" /\ j \notin Ended /\ torn < MaxTorn
                   /\ queue' = Appended(queue, <<>>)
                   /\ host' = [host EXCEPT ![h] = [pc |-> "opened", job |-> j, at |-> "queue"]]
                   /\ torn' = torn + 1
                   /\ UNCHANGED <<processing, dead, lock, spawnLock, drainer, queued, times,
                                  late, deaths, clock>>

WriteJob(h) ==
  LET new == <<Fresh(host[h].job)>>
      at  == host[h].at
  IN /\ host[h].pc = "opened"
     /\ queue' = IF at = "queue" THEN Appended(queue, new) ELSE queue
     /\ processing' = [d \in Drainers |-> IF at = d THEN Appended(processing[d], new)
                                                    ELSE processing[d]]
     /\ host' = [host EXCEPT ![h] = [Idle EXCEPT !.pc = "queued"]]
     /\ queued' = queued \cup {host[h].job}
     /\ UNCHANGED <<dead, lock, spawnLock, drainer, counts>>

(* spawnBridgeDrain: none while the drain lock is fresh or the spawn lock  *)
(* is held; a spawn lock past the timeout is replaced.                     *)
LockFresh == lock.held /\ ~Stale(lock.mtime)

SkipSpawn(h) == /\ host[h].pc = "queued"
                /\ LockFresh \/ (spawnLock.held /\ ~Stale(spawnLock.mtime))
                /\ host' = [host EXCEPT ![h] = Idle]
                /\ UNCHANGED <<files, lock, spawnLock, drainer, queued, counts>>

TakeSpawnLockHeld(h) == /\ host[h].pc = "queued" /\ ~LockFresh
                        /\ host' = [host EXCEPT ![h].pc = "spawning"] /\ spawnLock' = TakenNow
                        /\ UNCHANGED <<files, lock, drainer, queued, counts>>
TakeSpawnLock(h) ==
  /\ host[h].pc = "queued" /\ ~LockFresh /\ (spawnLock.held => Stale(spawnLock.mtime))
  /\ IF spawnLock.held
     THEN host' = [host EXCEPT ![h].pc = "stale"] /\ UNCHANGED spawnLock
     ELSE /\ host' = [host EXCEPT ![h].pc = "spawning"]
          /\ spawnLock' = TakenNow
  /\ UNCHANGED <<files, lock, drainer, queued, counts>>

ReplaceSpawnLock(h) ==
  /\ host[h].pc = "stale"
  /\ host' = [host EXCEPT ![h].pc = "spawning"]
  /\ spawnLock' = TakenNow
  /\ UNCHANGED <<files, lock, drainer, queued, counts>>

(* The child is a new process; its file gets a name of its own. *)
Spawn(h, d) == /\ host[h].pc = "spawning"
               /\ drainer[d].pc = "off" /\ ~processing[d].there
               /\ \A e \in Drainers : drainer[e].takes # d
               /\ drainer' = [drainer EXCEPT ![d] = [Off EXCEPT !.pc = "recover", !.parent = h]]
               /\ host' = [host EXCEPT ![h] = Idle]
               /\ UNCHANGED <<files, lock, spawnLock, queued, counts>>

(* The gateway that started it sees a drainer exit and removes the spawn   *)
(* lock, whosever it is by then; a gateway that died does not.             *)
Exited(d) == /\ drainer' = [drainer EXCEPT ![d] = Off]
             /\ spawnLock' = IF drainer[d].parent \in Hosts THEN NoLock ELSE spawnLock

-----------------------------------------------------------------------------
(* A drainer first returns the lines of every stale processing file to the *)
(* queue, before it holds any lock: append, then remove.                   *)
Left == {f \in Drainers : processing[f].there /\ Stale(processing[f].mtime)}

RecoverAppend(d, f) ==
  /\ drainer[d].pc = "recover" /\ drainer[d].takes = Nobody /\ f \in Left
  /\ queue' = Appended(queue, processing[f].lines)
  /\ drainer' = [drainer EXCEPT ![d].takes = f]
  /\ UNCHANGED <<processing, dead, lock, spawnLock, host, queued, counts>>

RecoverRemove(d) ==
  LET f == drainer[d].takes
  IN /\ drainer[d].pc = "recover" /\ f # Nobody
     /\ processing' = [processing EXCEPT ![f] = NoFile]
     /\ host' = Moved(f, Nobody)
     /\ drainer' = [drainer EXCEPT ![d].takes = Nobody]
     /\ UNCHANGED <<queue, dead, lock, spawnLock, queued, counts>>

Recovered(d) ==
  /\ drainer[d].pc = "recover" /\ drainer[d].takes = Nobody /\ Left = {}
  /\ IF queue.there THEN /\ drainer' = [drainer EXCEPT ![d].pc = "lock"]
                         /\ UNCHANGED spawnLock
                    ELSE Exited(d)
  /\ UNCHANGED <<files, lock, host, queued, counts>>

(* The drain lock: made when there is none, replaced when it is stale, in  *)
(* two steps; whoever finds it fresh gives up.                             *)
TakeLock(d) ==
  /\ drainer[d].pc = "lock"
  /\ \/ /\ ~lock.held
        /\ lock' = TakenNow /\ drainer' = [drainer EXCEPT ![d].pc = "open"]
        /\ UNCHANGED spawnLock
     \/ /\ lock.held /\ Stale(lock.mtime)
        /\ drainer' = [drainer EXCEPT ![d].pc = "stale"]
        /\ UNCHANGED <<lock, spawnLock>>
     \/ LockFresh /\ Exited(d) /\ UNCHANGED lock
  /\ UNCHANGED <<files, host, queued, counts>>

ReplaceLock(d) == /\ drainer[d].pc = "stale"
                  /\ lock' = TakenNow /\ drainer' = [drainer EXCEPT ![d].pc = "open"]
                  /\ UNCHANGED <<files, spawnLock, host, queued, counts>>

(* The runtime is opened across awaits; when that fails the drainer exits  *)
(* with the lock still there.                                              *)
OpenFails(d) == /\ drainer[d].pc = "open" /\ deaths < MaxDeaths
                /\ deaths' = deaths + 1
                /\ Exited(d)
                /\ UNCHANGED <<files, lock, host, queued, times, late, torn, clock>>

(* The queue is renamed and read; a batch of its lines is to be done, the  *)
(* rest deferred.                                                          *)
Batch(lines)    == SubSeq(lines, 1, IF Len(lines) < BatchSize THEN Len(lines) ELSE BatchSize)
DeferredNone(lines) == <<>>
DeferredAll(lines)  == lines
Deferred(lines) == SubSeq(lines, BatchSize + 1, Len(lines))

Rename(d) ==
  /\ drainer[d].pc = "open"
  /\ IF queue.there
     THEN /\ processing' = [processing EXCEPT ![d] = queue]
          /\ queue' = NoFile
          /\ host' = Moved("queue", d)
          /\ drainer' = [drainer EXCEPT ![d] = [@ EXCEPT !.pc = "drain",
                            !.todo = Batch(queue.lines), !.rest = Deferred(queue.lines)]]
          /\ UNCHANGED lock
     ELSE /\ drainer' = [drainer EXCEPT ![d].pc = "close"] /\ lock' = NoLock
          /\ UNCHANGED <<queue, processing, host>>
  /\ UNCHANGED <<dead, spawnLock, queued, counts>>

(* One line: remembered; or not, before or after the turn itself was       *)
(* recorded, and then back in the queue or, tried often enough, dead.      *)
Recorded(j) == [times EXCEPT ![j] = IF @ < 2 THEN @ + 1 ELSE 2]
Tried(line) == [line EXCEPT !.attempts = @ + 1]
RetryOneMore(line) == Tried(line).attempts <= MaxAttempts
Retry(line) == Tried(line).attempts < MaxAttempts

Done(d) == drainer' = [drainer EXCEPT ![d].todo = Tail(@)]

Remember(d) == /\ drainer[d].pc = "drain" /\ drainer[d].todo # <<>>
               /\ times' = Recorded(Head(drainer[d].todo).job)
               /\ Done(d)
               /\ UNCHANGED <<files, lock, spawnLock, host, queued, late, deaths, torn, clock>>

RememberFails(d) ==
  LET line == Head(drainer[d].todo)
  IN /\ drainer[d].pc = "drain" /\ drainer[d].todo # <<>>
     /\ \/ UNCHANGED <<times, late>>
        \/ times' = Recorded(line.job) /\ late' = TRUE
     /\ IF Retry(line) THEN queue' = Appended(queue, <<Tried(line)>>) /\ UNCHANGED dead
                       ELSE dead' = dead \cup {Tried(line)} /\ UNCHANGED queue
     /\ Done(d)
     /\ UNCHANGED <<processing, lock, spawnLock, host, queued, deaths, torn, clock>>

(* The deferred lines go back before the renamed file is removed, and the  *)
(* lock, whosever it is by then, is removed at the end of the drain and    *)
(* once more when the kernel is closed.                                    *)
Defer(d) == /\ drainer[d].pc = "drain" /\ drainer[d].todo = <<>> /\ drainer[d].rest # <<>>
            /\ queue' = Appended(queue, drainer[d].rest)
            /\ drainer' = [drainer EXCEPT ![d].rest = <<>>]
            /\ UNCHANGED <<processing, dead, lock, spawnLock, host, queued, counts>>

Finish(d) == /\ drainer[d].pc = "drain" /\ drainer[d].todo = <<>> /\ drainer[d].rest = <<>>
             /\ processing' = [processing EXCEPT ![d] = NoFile]
             /\ host' = Moved(d, Nobody)
             /\ lock' = NoLock
             /\ drainer' = [drainer EXCEPT ![d].pc = "close"]
             /\ UNCHANGED <<queue, dead, spawnLock, queued, counts>>

Close(d) == /\ drainer[d].pc = "close"
            /\ lock' = NoLock /\ Exited(d)
            /\ UNCHANGED <<files, host, queued, counts>>

-----------------------------------------------------------------------------
(* Deaths: of a drainer anywhere, its parent still sees it exit; of a      *)
(* gateway, which another one replaces.                                    *)
DrainerDies(d) == /\ drainer[d].pc # "off" /\ deaths < MaxDeaths
                  /\ deaths' = deaths + 1
                  /\ Exited(d)
                  /\ UNCHANGED <<files, lock, host, queued, times, late, torn, clock>>

HostDies(h) == /\ deaths < MaxDeaths
               /\ deaths' = deaths + 1
               /\ host' = [host EXCEPT ![h] = Idle]
               /\ drainer' = [d \in Drainers |-> IF drainer[d].parent = h
                                                 THEN [drainer[d] EXCEPT !.parent = Nobody]
                                                 ELSE drainer[d]]
               /\ UNCHANGED <<files, lock, spawnLock, queued, times, late, torn, clock>>

Elapse == /\ clock < MaxClock /\ clock' = clock + 1
          /\ UNCHANGED <<files, lock, spawnLock, host, drainer, queued, times, late, deaths, torn>>

Drain(d) == \/ \E f \in Drainers : RecoverAppend(d, f)
            \/ RecoverRemove(d) \/ Recovered(d) \/ TakeLock(d) \/ ReplaceLock(d)
            \/ Rename(d) \/ Remember(d) \/ RememberFails(d) \/ Defer(d)
            \/ Finish(d) \/ Close(d)

Hook(h) == \/ \E j \in Jobs : Enqueue(h, j) \/ OpenQueue(h, j)
           \/ WriteJob(h) \/ SkipSpawn(h) \/ TakeSpawnLock(h) \/ ReplaceSpawnLock(h)
           \/ \E d \in Drainers : Spawn(h, d)

Next == \/ \E d \in Drainers : Drain(d) \/ OpenFails(d) \/ DrainerDies(d)
        \/ \E h \in Hosts : Hook(h) \/ HostDies(h)
        \/ Elapse

Spec == Init /\ [][Next]_vars

(* Turns go on to end, and a process that has begun is scheduled. *)
LiveSpec == /\ Spec
            /\ \A h \in Hosts : WF_vars(Hook(h))
            /\ \A d \in Drainers : WF_vars(Drain(d))

-----------------------------------------------------------------------------
JobsIn(lines) == {lines[i].job : i \in DOMAIN lines}
Kept == JobsIn(queue.lines) \cup (UNION {JobsIn(processing[d].lines) : d \in Drainers})
        \cup {l.job : l \in dead}
Working == {d \in Drainers : drainer[d].pc \in {"open", "drain"}}

(* examples/openclaw-backend/SKILL.md:377: agent_end "appends a durable    *)
(* JSONL job", "instead of being silently discarded": a turn whose job was *)
(* appended is recorded, or its job is in one of the files.                *)
NoJobLost == \A j \in queued : times[j] > 0 \/ j \in Kept

(* That holds whoever dies, wherever, and however many drainers take each  *)
(* other for dead, but for an append that the rename splits.               *)
KeptUnlessTorn == torn = 0 => NoJobLost

(* A turn is recorded twice only when a process died, overran the timeout  *)
(* or failed after it had recorded the turn: in the ordinary run, whatever *)
(* the interleaving of gateways and drainers, once at most.                *)
RecordedOnce == clock = 0 /\ deaths = 0 /\ ~late => \A j \in Jobs : times[j] <= 1

(* Before the timeout goes by, whoever dies, one drainer works, and the    *)
(* lock is its own: nothing takes it away under it.                        *)
WorksAlone == clock = 0 => /\ Cardinality(Working) <= 1
                           /\ Working # {} => lock.held

(* examples/openclaw-backend/references/operations.md:122: "A second       *)
(* drainer exits without opening the DB."                                  *)
OneDrainer == Cardinality(Working) <= 1

(* SKILL.md:377: "If a drain fails, the job is retried and then moved to a *)
(* dead-letter file": every job that was appended is some day recorded or  *)
(* dead.                                                                   *)
Settled == \A j \in Jobs : j \in queued ~> (times[j] > 0 \/ \E l \in dead : l.job = j)
=============================================================================
