---------------------------- MODULE MemoryBinding ----------------------------
(***************************************************************************)
(* The Memory Binding Graph: a user event that says something worth keeping *)
(* is bound to each topic it is classified under, its evidence is fused     *)
(* into the cluster of the claim, and edges link event, cluster, topic and  *)
(* earlier events.  bindEvent runs in no transaction: every statement (and  *)
(* every edge) commits by itself, and a process may stop in between.        *)
(* A host binds the turn it has just recorded and goes on when that fails;  *)
(* `cogmem memory bind` binds the events that have no binding.              *)
(*                                                                          *)
(* Events are numbered in ledger order, which is the order they occurred    *)
(* in; the classifier is a constant.  Entities (bound as topics are),       *)
(* confidences and the text of a cluster are left out.                      *)
(***************************************************************************)
EXTENDS Naturals, SequencesExt, FiniteSets

CONSTANTS Binders,      \* processes that bind
          MaxEvent,     \* bound: user events
          TopicsOf,     \* classify: event -> the topics decided, in order
          Corrections,  \* the events classified as corrections
          RelatedLimit, \* bindings read for the topic (8)
          SameLimit,    \* of these, linked by SAME_TOPIC_AS (5)
          CorrectLimit, \* and by CORRECTS (3)
          MaxStops      \* bound: crashes and failed statements

Event == 1..MaxEvent
Topics == UNION {ToSet(TopicsOf[e]) : e \in Event}
Kind(e) == IF e \in Corrections THEN "correction" ELSE "claim"
Cluster == Topics \X {"claim", "correction"}
ClusterOf(e, t) == <<t, Kind(e)>>

Classified == TopicsOf \in [Event -> Seq(Topics) \ {<<>>}] /\ Corrections \subseteq Event
Limits == {RelatedLimit, SameLimit, CorrectLimit} \subseteq Nat \ {0} /\ {MaxEvent, MaxStops} \subseteq Nat

VARIABLES log,       \* events in the ledger: 1..log
          clusters,  \* memory_clusters: the evidence of each
          bindings,  \* memory_bindings
          edges,     \* memory_edges: edge -> evidence, for the edges there are
          at,        \* bindEvent in each process
          stops

vars == <<log, clusters, bindings, edges, at, stops>>

Idle == [step |-> "idle"]
Links == <<"ABOUT", "SUPPORTS", "BELONGS_TO", "SAME_TOPIC_AS", "CORRECTS">>

Init ==
  /\ log = 0
  /\ clusters = [c \in Cluster |-> {}]
  /\ bindings = {}
  /\ edges = [k \in {} |-> {}]
  /\ at = [p \in Binders |-> Idle]
  /\ stops = 0

Bound(e) == \E b \in bindings : b.event = e
Newest(n, es) == {o \in es : Cardinality({x \in es : x > o}) < n}
OnTopic(t) == {b.event : b \in {b \in bindings : b.topic = t}}
\* listBindings of the topic; the event itself is taken out afterwards.
RelatedTo(t, e) == Newest(RelatedLimit, OnTopic(t)) \ {e}

\* bindEvent begins with the first decision.
Bind(p, e) ==
  at' = [at EXCEPT ![p] = [step |-> "related", event |-> e, topics |-> TopicsOf[e],
                           related |-> {}, cluster |-> {}, todo |-> {}]]

\* recordTurn: the event is stored and bound.
Record(p) ==
  /\ at[p] = Idle
  /\ log < MaxEvent
  /\ log' = log + 1
  /\ Bind(p, log + 1)
  /\ UNCHANGED <<clusters, bindings, edges, stops>>

\* bindRawEvents on a page that starts at e: what is bound is skipped.
Backfill(p, e) ==
  /\ at[p] = Idle
  /\ e <= log /\ ~Bound(e)
  /\ Bind(p, e)
  /\ UNCHANGED <<log, clusters, bindings, edges, stops>>

Topic(p) == Head(at[p].topics)
Own(p) == ClusterOf(at[p].event, Topic(p))

\* The newest other events on the topic, read before anything is written for it.
ReadRelated(p) ==
  /\ at[p].step = "related"
  /\ at' = [at EXCEPT ![p] = [@ EXCEPT !.step = "cluster", !.related = RelatedTo(Topic(p), at[p].event)]]
  /\ UNCHANGED <<log, clusters, bindings, edges, stops>>

\* upsertCluster reads the row ...
ReadCluster(p) ==
  /\ at[p].step = "cluster"
  /\ at' = [at EXCEPT ![p] = [@ EXCEPT !.step = "fuse", !.cluster = clusters[Own(p)] \cup {at[p].event}]]
  /\ UNCHANGED <<log, clusters, bindings, edges, stops>>

\* Mutant: a row that exists is kept.
WriteClusterOrIgnore(p) ==
  /\ at[p].step = "fuse"
  /\ clusters' = [clusters EXCEPT ![Own(p)] = IF @ = {} THEN at[p].cluster ELSE @]
  /\ at' = [at EXCEPT ![p] = [@ EXCEPT !.step = "binding"]]
  /\ UNCHANGED <<log, bindings, edges, stops>>
\* ... and writes all of it back.
WriteCluster(p) ==
  /\ at[p].step = "fuse"
  /\ clusters' = [clusters EXCEPT ![Own(p)] = at[p].cluster]
  /\ at' = [at EXCEPT ![p] = [@ EXCEPT !.step = "binding"]]
  /\ UNCHANGED <<log, bindings, edges, stops>>

\* Mutant: the size of the cluster decides first.
ActionBySupport(p) ==
  IF Cardinality(at[p].cluster) > 1 THEN "strengthen_existing"
  ELSE IF at[p].event \in Corrections THEN "possible_conflict" ELSE "create_new_cluster"
\* BindingDecisionEngine.decide
Action(p) ==
  IF at[p].event \in Corrections
  THEN IF at[p].related # {} THEN "corrects_prior_memory" ELSE "possible_conflict"
  ELSE IF at[p].related = {} \/ Cardinality(at[p].cluster) <= 1 THEN "create_new_cluster"
  ELSE "strengthen_existing"

LinksTo(p, link, n) ==
  {[edge |-> <<link, at[p].event, o>>, ev |-> {at[p].event, o}] : o \in Newest(n, at[p].related)}
Upward(p) ==
  LET e == at[p].event
  IN  {[edge |-> <<"ABOUT", e, Topic(p)>>, ev |-> {e}],
       [edge |-> <<"SUPPORTS", e, Own(p)>>, ev |-> {e}],
       [edge |-> <<"BELONGS_TO", Own(p), Topic(p)>>, ev |-> at[p].cluster]}
\* Mutant: a correction is linked to what it corrects only.
LinksOfEither(p) ==
  Upward(p) \cup (IF at[p].event \in Corrections THEN LinksTo(p, "CORRECTS", CorrectLimit)
                  ELSE LinksTo(p, "SAME_TOPIC_AS", SameLimit))
\* The edges of one decision.
LinksOf(p) ==
  Upward(p) \cup LinksTo(p, "SAME_TOPIC_AS", SameLimit)
    \cup (IF at[p].event \in Corrections THEN LinksTo(p, "CORRECTS", CorrectLimit) ELSE {})

\* They are written in the order of Links, and on one link the newest event first.
Nth(link) == CHOOSE i \in DOMAIN Links : Links[i] = link
Before(l, m) ==
  \/ Nth(l.edge[1]) < Nth(m.edge[1])
  \/ l.edge[1] = m.edge[1] /\ l.edge[3] > m.edge[3]

\* insertBinding: the id is made of event and topic, a second one overwrites.
InsertBinding(p) ==
  /\ at[p].step = "binding"
  /\ bindings' = {b \in bindings : <<b.event, b.topic>> # <<at[p].event, Topic(p)>>}
                   \cup {[event |-> at[p].event, topic |-> Topic(p), action |-> Action(p)]}
  /\ at' = [at EXCEPT ![p] = [@ EXCEPT !.step = "link", !.todo = LinksOf(p)]]
  /\ UNCHANGED <<log, clusters, edges, stops>>

Evidence(k) == IF k \in DOMAIN edges THEN edges[k] ELSE {}
\* Mutant: the edge is written with the evidence of the caller alone.
MergedReplaced(k, ev) == [x \in DOMAIN edges \cup {k} |-> IF x = k THEN ev ELSE edges[x]]
\* mergeMemoryEdge, operation 'append', in a transaction of its own.
Merged(k, ev) == [x \in DOMAIN edges \cup {k} |-> IF x = k THEN Evidence(k) \cup ev ELSE edges[x]]

LinkOne(p) ==
  /\ at[p].step = "link"
  /\ \E l \in at[p].todo :
       /\ \A m \in at[p].todo \ {l} : Before(l, m)
       /\ edges' = Merged(l.edge, l.ev)
       /\ at' = [at EXCEPT ![p] = [@ EXCEPT !.todo = at[p].todo \ {l}]]
  /\ UNCHANGED <<log, clusters, bindings, stops>>

\* The next decision of the event, or the end.
NextTopic(p) ==
  /\ at[p].step = "link" /\ at[p].todo = {}
  /\ at' = [at EXCEPT ![p] =
       IF Len(at[p].topics) = 1 THEN Idle
       ELSE [at[p] EXCEPT !.step = "related", !.topics = Tail(at[p].topics)]]
  /\ UNCHANGED <<log, clusters, bindings, edges, stops>>

\* The process dies, or a statement fails and the error is counted and dropped.
Stop(p) ==
  /\ at[p] # Idle
  /\ stops < MaxStops
  /\ stops' = stops + 1
  /\ at' = [at EXCEPT ![p] = Idle]
  /\ UNCHANGED <<log, clusters, bindings, edges>>

Next ==
  \E p \in Binders :
    \/ Record(p)
    \/ \E e \in Event : Backfill(p, e)
    \/ ReadRelated(p) \/ ReadCluster(p) \/ WriteCluster(p) \/ InsertBinding(p)
    \/ LinkOne(p) \/ NextTopic(p)
    \/ Stop(p)

Spec == Init /\ [][Next]_vars

-----------------------------------------------------------------------------
Working(e) == \E p \in Binders : at[p] # Idle /\ at[p].event = e

\* Every variable keeps its type.
TypeOK ==
  /\ log \in 0..MaxEvent
  /\ clusters \in [Cluster -> SUBSET Event]
  /\ \A b \in bindings :
       /\ b.event \in 1..log /\ b.topic \in ToSet(TopicsOf[b.event])
       /\ b.action \in IF b.event \in Corrections THEN {"corrects_prior_memory", "possible_conflict"}
                        ELSE {"create_new_cluster", "strengthen_existing"}
  /\ \A k \in DOMAIN edges : k[1] \in ToSet(Links) /\ edges[k] \subseteq Event
  /\ \A p \in Binders : at[p].step \in {"idle", "related", "cluster", "fuse", "binding", "link"}
  /\ stops \in 0..MaxStops

\* Wherever the process stops, a binding names a cluster that holds its event
\* as evidence (with one process at a time).
ClusterHoldsItsBindings ==
  \A b \in bindings : b.event \in clusters[ClusterOf(b.event, b.topic)]

\* However many processes fuse into a cluster, the edge from it to its topic
\* has the evidence of every event that was bound to the end, while no call is
\* cut short (see BoundIsComplete).
EdgesKeepEvidence ==
  stops = 0 => \A b \in bindings :
    Working(b.event) \/ b.event \in Evidence(<<"BELONGS_TO", ClusterOf(b.event, b.topic), b.topic>>)

\* What one process has bound to a topic hangs together while no call is cut
\* short, although each event is linked to a few others only: graph traversal
\* reaches all of it from any one of them.
TopicIsConnected ==
  stops = 0 => \A t \in Topics :
    LET done == {e \in OnTopic(t) : ~Working(e)}
    IN  \A es \in (SUBSET done) \ {{}, done} :
          \E a \in es, b \in done \ es :
            {<<"SAME_TOPIC_AS", a, b>>, <<"SAME_TOPIC_AS", b, a>>} \cap DOMAIN edges # {}

\* bin/memory: "backfill memory bindings for high-value raw user events": an
\* event that the backfill takes for bound, and that nobody works on, is bound
\* to each of its topics and linked.
BoundIsComplete ==
  \A e \in 1..log : Bound(e) /\ ~Working(e) =>
    \A t \in ToSet(TopicsOf[e]) :
      /\ \E b \in bindings : b.event = e /\ b.topic = t
      /\ {<<"ABOUT", e, t>>, <<"SUPPORTS", e, ClusterOf(e, t)>>} \subseteq DOMAIN edges

\* "corrects_prior_memory": what an event corrects came before it.
CorrectsPrior ==
  \A k \in DOMAIN edges : k[1] = "CORRECTS" => k[3] < k[2]
=============================================================================
