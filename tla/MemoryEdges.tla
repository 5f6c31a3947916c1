---------------------------- MODULE MemoryEdges ----------------------------
(***************************************************************************)
(* The edges of the Memory Atlas.  An edge is what the active support rows *)
(* under it add up to: each author (the graph curator, or a memory frame)  *)
(* keeps one support row per edge, and memory_edges is reduced from them.  *)
(* A rebuild withdraws the rows of both authors, asserts them anew and     *)
(* reduces; a targeted reindex does so for one episode; a repair withdraws *)
(* the frames of the episodes it touches.                                  *)
(*                                                                         *)
(* Three kinds of edge are told apart: the entrance of an episode          *)
(* (curator and its frames), the relation between neighbouring episodes on *)
(* one issue (curator), and one edge that any frame may assert.  Evidence   *)
(* is a set of events; weights, validity and aliases are left out.         *)
(***************************************************************************)
EXTENDS Naturals

CONSTANTS N,         \* episodes, numbered by start
          Events,    \* raw events
          OnIssue,   \* the events from which the issue is read
          F,         \* bound: frames that Dream publishes
          MaxMoves   \* bound: repairs

EdgeAssumption == OnIssue \subseteq Events /\ {N, F, MaxMoves} \subseteq Nat

VARIABLES events,   \* memory_episode_events: episode -> its events
          frames,   \* memory_frames
          sup,      \* memory_edge_supports
          edge,     \* memory_edges
          status,   \* memory_atlas_projection_state
          moves

vars == <<events, frames, sup, edge, status, moves>>

Episodes == 1..N
Frames == 1..F
Curator == 0    \* an author next to the frames
Author == {Curator} \cup Frames

Entrance(e) == <<e, e>>
Shared == <<0, 0>>
Edge == {k \in Episodes \X Episodes : k[1] <= k[2]} \cup {Shared}

NoRow == [st |-> "none", ev |-> {}]
NoEdge == [author |-> "none", ev |-> {}]

Init ==
  /\ events = [e \in Episodes |-> {}]
  /\ frames = [f \in Frames |-> [st |-> "none", episode |-> 0, ev |-> {}, asserts |-> Shared]]
  /\ sup = [k \in Edge |-> [x \in Author |-> NoRow]]
  /\ edge = [k \in Edge |-> NoEdge]
  /\ status = "none"
  /\ moves = 0

-----------------------------------------------------------------------------
(* MemoryEdgeMerge: what is done to the two tables, s = [sup, edge, wrote],  *)
(* where wrote collects the edges whose version goes up.                     *)

Active(rows) == {x \in DOMAIN rows : rows[x].st = "active"}

\* A frame outranks the curator; the evidence is everybody's.
Reduced(rows) ==
  IF Active(rows) = {} THEN NoEdge
  ELSE [author |-> IF Active(rows) = {Curator} THEN "curator" ELSE "frame",
        ev |-> UNION {rows[x].ev : x \in Active(rows)}]

\* Mutant: an edge is written whether it changes or not.
ReduceRewrites(s, ks) ==
  LET now == [k \in Edge |-> IF k \in ks THEN Reduced(s.sup[k]) ELSE s.edge[k]]
  IN  [s EXCEPT !.edge = now, !.wrote = @ \cup {k \in ks : now[k] # NoEdge}]
\* An edge that its rows already add up to is not written.
Reduce(s, ks) ==
  LET now == [k \in Edge |-> IF k \in ks THEN Reduced(s.sup[k]) ELSE s.edge[k]]
  IN  [s EXCEPT !.edge = now,
                !.wrote = @ \cup {k \in ks : now[k] \notin {s.edge[k], NoEdge}}]

\* Mutant: a row that exists is only added to.
MergeAppends(s, x, rows) ==
  Reduce([s EXCEPT !.sup = [k \in Edge |-> [y \in Author |->
            IF k \in DOMAIN rows /\ y = x THEN [st |-> "active", ev |-> @[k][y].ev \cup rows[k]]
            ELSE @[k][y]]]], DOMAIN rows)
\* Operation 'replace', for the edges and the evidence that author x asserts.
Merge(s, x, rows) ==
  Reduce([s EXCEPT !.sup = [k \in Edge |-> [y \in Author |->
            IF k \in DOMAIN rows /\ y = x THEN [st |-> "active", ev |-> rows[k]] ELSE @[k][y]]]],
         DOMAIN rows)

\* Mutant: the status is one no reader knows.
InvalidateWord(s, xs, ks) ==
  [s EXCEPT !.sup = [k \in Edge |-> [x \in Author |->
     IF k \in ks /\ x \in xs /\ @[k][x].st = "active" THEN [@[k][x] EXCEPT !.st = "withdrawn"]
     ELSE @[k][x]]]]
Invalidate(s, xs, ks) ==
  [s EXCEPT !.sup = [k \in Edge |-> [x \in Author |->
     IF k \in ks /\ x \in xs /\ @[k][x].st = "active" THEN [@[k][x] EXCEPT !.st = "invalidated"]
     ELSE @[k][x]]]]

\* The edges an invalidation leaves to be reduced.
Stale(s, xs, ks) == {k \in ks : Active(s.sup[k]) \cap xs # {}}

-----------------------------------------------------------------------------
(* GraphCurator and MemoryFrameProjector.                                    *)

Alive == {e \in Episodes : events[e] # {}}

\* Neighbours among the episodes on the issue.
Related ==
  LET bucket == {e \in Alive : events[e] \cap OnIssue # {}}
  IN  {k \in bucket \X bucket : k[1] < k[2] /\ ~\E c \in bucket : k[1] < c /\ c < k[2]}

Curated(ks) == [k \in ks |-> events[k[1]] \cup events[k[2]]]
Entrances(es) == {Entrance(e) : e \in es \cap Alive}

Curate(s) ==
  LET stale == Stale(s, {Curator}, Edge)
      asserted == Entrances(Episodes) \cup Related
      t == Merge(Invalidate(s, {Curator}, Edge), Curator, Curated(asserted))
  IN  Reduce(t, stale)

ActiveFrames == {f \in Frames : frames[f].st = "active"}
Asserting(k, f) == {g \in ActiveFrames : g <= f /\ frames[g].asserts = k}

\* The rows of edge k, and the edge, when the frames up to f have replaced theirs.
RowsUpto(s, k, f) ==
  [x \in Author |-> IF x \in Asserting(k, f) THEN [st |-> "active", ev |-> frames[x].ev]
                    ELSE s.sup[k][x]]
EdgeUpto(s, k, f) == IF Asserting(k, f) = {} THEN s.edge[k] ELSE Reduced(RowsUpto(s, k, f))

\* The frames in force replace their rows one after the other, here in the order of their
\* numbers, and each reduces its edge.
ProjectEach(s) ==
  [sup   |-> [k \in Edge |-> RowsUpto(s, k, F)],
   edge  |-> [k \in Edge |-> EdgeUpto(s, k, F)],
   wrote |-> s.wrote \cup {k \in Edge : \E f \in Asserting(k, F) :
                             EdgeUpto(s, k, f) # EdgeUpto(s, k, f - 1)}]

\* Mutant: the edges of withdrawn rows are not reduced.
ProjectFramesNoReduce(s) == ProjectEach(Invalidate(s, Frames, Edge))
ProjectFrames(s) == Reduce(ProjectEach(Invalidate(s, Frames, Edge)), Stale(s, Frames, Edge))

Tables == [sup |-> sup, edge |-> edge, wrote |-> {}]
Rebuilt(s) == ProjectFrames(Curate([s EXCEPT !.wrote = {}]))

Touching(e) == {k \in Edge : e \in {k[1], k[2]}}
\* rebuildEpisodes, for one episode: its entrance, and not its relations.
Reindexed(e) ==
  LET stale == Stale(Tables, {Curator}, Touching(e))
      s == Invalidate(Tables, {Curator}, Touching(e))
      t == Merge(s, Curator, Curated(Entrances({e})))
  IN  Reduce(t, stale)

Store(s) == sup' = s.sup /\ edge' = s.edge

-----------------------------------------------------------------------------
\* An event is assigned to an episode; a trigger marks the projection.
AppendEvent(v, e) ==
  /\ v \notin UNION {events[a] : a \in Episodes}
  /\ events' = [events EXCEPT ![e] = @ \cup {v}]
  /\ status' = "dirty"
  /\ UNCHANGED <<frames, sup, edge, moves>>

\* Dream publishes a frame of an episode in place of the one before.
Publish(f, e, k) ==
  /\ frames[f].st = "none" /\ \A g \in Frames : g < f => frames[g].st # "none"
  /\ e \in Alive /\ k \in {Entrance(e), Shared}
  /\ frames' = [g \in Frames |->
       IF g = f THEN [st |-> "active", episode |-> e, ev |-> events[e], asserts |-> k]
       ELSE IF frames[g].episode = e /\ frames[g].st = "active" THEN [frames[g] EXCEPT !.st = "superseded"]
       ELSE frames[g]]
  /\ status' = "dirty"
  /\ UNCHANGED <<events, sup, edge, moves>>

FramesOf(es) == {f \in Frames : frames[f].episode \in es}

\* Mutant: only the frames in force are withdrawn.
WithdrawActive(fs) ==
  LET xs == fs \cap ActiveFrames
  IN  Reduce(Invalidate(Tables, xs, Edge), Stale(Tables, xs, Edge))
\* supersedeEpisodes: every frame of the episodes, whatever its status.
Withdraw(fs) == Reduce(Invalidate(Tables, fs, Edge), Stale(Tables, fs, Edge))

\* move-event, split or merge: events go from one episode to another.
Repair(vs, a, b) ==
  /\ moves < MaxMoves
  /\ moves' = moves + 1
  /\ a # b /\ vs # {} /\ vs \subseteq events[a]
  /\ events' = [events EXCEPT ![a] = @ \ vs, ![b] = @ \cup vs]
  /\ frames' = [f \in Frames |->
       IF f \in FramesOf({a, b}) THEN [frames[f] EXCEPT !.st = "superseded"] ELSE frames[f]]
  /\ Store(Withdraw(FramesOf({a, b})))
  /\ status' = "dirty"

Rebuild ==
  /\ Store(Rebuilt(Tables))
  /\ status' = "clean"
  /\ UNCHANGED <<events, frames, moves>>

RebuildFails ==
  /\ status' = "error"
  /\ UNCHANGED <<events, frames, sup, edge, moves>>

\* cogmem memory graph-reindex: the flag stays as it is.
Reindex(e) ==
  /\ Store(Reindexed(e))
  /\ UNCHANGED <<events, frames, status, moves>>

Next ==
  \/ \E e \in Episodes :
       \/ \E v \in Events : AppendEvent(v, e)
       \/ \E f \in Frames, k \in Edge : Publish(f, e, k)
       \/ \E b \in Episodes : \E vs \in SUBSET Events : Repair(vs, e, b)
       \/ Reindex(e)
  \/ Rebuild
  \/ RebuildFails

Spec == Init /\ [][Next]_vars

-----------------------------------------------------------------------------
\* Every variable keeps its type, and an event is in one episode at most.
TypeOK ==
  /\ events \in [Episodes -> SUBSET Events]
  /\ \A a, b \in Episodes : a # b => events[a] \cap events[b] = {}
  /\ frames \in [Frames -> [st : {"none", "active", "superseded"}, episode : 0..N,
                          ev : SUBSET Events, asserts : Edge]]
  /\ sup \in [Edge -> [Author -> [st : {"none", "active", "invalidated"}, ev : SUBSET Events]]]
  /\ edge \in [Edge -> [author : {"none", "curator", "frame"}, ev : SUBSET Events]]
  /\ status \in {"none", "clean", "dirty", "error"}
  /\ moves \in 0..MaxMoves

\* After every transaction an edge is what its active supports add up to:
\* nothing withdrawn still shows, and what survives is restored at once.
EdgeIsReduced == \A k \in Edge : edge[k] = Reduced(sup[k])

\* No edge rests on a frame whose events a repair has moved elsewhere.
FrameKeepsItsEvents ==
  \A f \in Frames : (\E k \in Edge : sup[k][f].st = "active") => frames[f].ev \subseteq events[frames[f].episode]

\* A clean projection shows the entrances of exactly the live episodes, with
\* their present events, and the edges of exactly the frames in force.
CleanIsProjected ==
  status = "clean" =>
    /\ \A e \in Episodes : sup[Entrance(e)][Curator].st = "active" <=> e \in Alive
    /\ \A e \in Alive : sup[Entrance(e)][Curator].ev = events[e]
    /\ \A f \in Frames, k \in Edge : sup[k][f].st = "active" <=> f \in ActiveFrames /\ k = frames[f].asserts

\* A second rebuild finds every edge as the first one left it, and rewrites
\* only the edges that two frames assert.
RebuildTwice ==
  LET once == Rebuilt(Tables)
      twice == Rebuilt(once)
  IN  /\ twice.edge = once.edge /\ twice.sup = once.sup
      /\ twice.wrote \subseteq {frames[f].asserts : f \in {f \in ActiveFrames :
                           \E g \in ActiveFrames \ {f} : frames[g].asserts = frames[f].asserts}}

\* CHANGELOG: "repeated rebuilds remain version-idempotent".
RebuildIsIdempotent == Rebuilt(Rebuilt(Tables)).wrote = {}

\* CODING_STANDARDS: "clean only when the whole projection is current".
CleanHasRelations ==
  status = "clean" => \A k \in Related : sup[k][Curator].st = "active"
=============================================================================
