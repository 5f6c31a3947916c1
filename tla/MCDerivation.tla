--------------------------- MODULE MCDerivation ---------------------------
(***************************************************************************)
(* Small instances of what is recorded and what is derived from it: the    *)
(* prospective memories, the edges of the memory graph, the bindings of    *)
(* events to topics, and the turns of an agent.  They share no state, so   *)
(* they are checked side by side: Init picks one, the others stay as they  *)
(* were installed, and the states of the run are the sum of theirs.        *)
(***************************************************************************)
EXTENDS ProspectiveMemory

VARIABLES component,   \* the one that runs
          events, frames, sup, edge, status, moves,
          raw, clusters, bindings, edges, at, stops,
          ledger, drawn, assembled, since, writer, asked, answers, calls, deaths, faults

CONSTANTS N, Events, OnIssue, F, MaxMoves,                               \* of MemoryEdges
          Binders, MaxEvent, TopicsOf, Corrections,                      \* of MemoryBinding
          RelatedLimit, SameLimit, CorrectLimit, MaxStops,
          Writers, Turns, Texts, Limit, MaxCalls, MaxDeaths, MaxFaults   \* of AgentTurn

Edges == INSTANCE MemoryEdges
Binding == INSTANCE MemoryBinding WITH log <- raw
Turn == INSTANCE AgentTurn

\* Events on one topic or on both.
Topics == [e \in 1..MaxEvent |-> IF e = 1 THEN <<"pipeline", "hygiene">>
                                ELSE IF e \in {3, 4} THEN <<"hygiene", "pipeline">> ELSE <<"pipeline">>]

ASSUME Edging == Edges!EdgeAssumption
ASSUME Bounding == Binding!Classified /\ Binding!Limits
ASSUME Turning == Turn!TurnAssumption

edgeVars == <<events, frames, sup, edge, status, moves>>
bindingVars == <<raw, clusters, bindings, edges, at, stops>>
turnVars == <<ledger, drawn, assembled, since, writer, asked, answers, calls, deaths, faults>>
all == <<component, vars, edgeVars, bindingVars, turnVars>>

Installed ==
  /\ component \in {"prospective", "edges", "twice", "stopping", "together", "turn"}
  /\ Init /\ Edges!Init /\ Binding!Init /\ Turn!Init

Runs(c) == component = c /\ UNCHANGED component
ProspectiveStep == Runs("prospective") /\ Next /\ UNCHANGED <<edgeVars, bindingVars, turnVars>>
EdgesStep    == Runs("edges") /\ Edges!Next /\ UNCHANGED <<vars, bindingVars, turnVars>>
\* Without the last episode, where a rebuild is tried twice.
TwiceStep    == Runs("twice") /\ Edges!Next /\ events'[N] = {} /\ UNCHANGED <<vars, bindingVars, turnVars>>
\* One process binds all the events, and stops now and then; or several bind three.
One == CHOOSE p \in Binders : TRUE
Alone == \A p \in Binders \ {One} : at'[p] = Binding!Idle
StoppingStep == Runs("stopping") /\ Binding!Next /\ Alone /\ UNCHANGED <<vars, edgeVars, turnVars>>
TogetherStep ==
  Runs("together") /\ Binding!Next /\ raw' <= 3 /\ stops' = 0 /\ UNCHANGED <<vars, edgeVars, turnVars>>
TurnStep     == Runs("turn") /\ Turn!Next /\ UNCHANGED <<vars, edgeVars, bindingVars>>
SideBySide ==
  ProspectiveStep \/ EdgesStep \/ TwiceStep \/ StoppingStep \/ TogetherStep \/ TurnStep

DerivationSpec == Installed /\ [][SideBySide]_all

-----------------------------------------------------------------------------
\* Every variable keeps its type.
TypesOK ==
  /\ component = "prospective" => TypeOK
  /\ component \in {"edges", "twice"} => Edges!TypeOK
  /\ component \in {"stopping", "together"} => Binding!TypeOK
  /\ component = "turn" => Turn!TypeOK

\* The memory graph follows its sources.  After every transaction an edge is what its
\* active supports add up to, none rests on a frame whose events a repair has moved, a
\* clean projection shows the live episodes and the frames in force, and a second rebuild
\* finds every edge as the first left it (MemoryEdgeSupportStore).  Wherever one process
\* stops, a binding names a cluster that holds its event.  While no call is cut short, what
\* one process bound to a topic hangs together, and however many fuse into a cluster, the
\* edge to its topic has the evidence of every event bound to the end (bindEvent,
\* fuseCluster).
GraphFollowsItsSources ==
  /\ component = "edges" => Edges!EdgeIsReduced /\ Edges!FrameKeepsItsEvents /\ Edges!CleanIsProjected
  /\ component = "twice" => Edges!RebuildTwice
  /\ component = "stopping" => Binding!ClusterHoldsItsBindings /\ Binding!TopicIsConnected
  /\ component = "together" => Binding!EdgesKeepEvidence

\* A turn's name is an identity: what it recorded was said in one submission, whoever
\* raced for it; who is told that a turn is recorded finds all of it, in order; and a turn
\* sequence never joins the messages of different turns (rememberTurnWithResult).
TurnIsOne == component = "turn" => Turn!OneTurn /\ Turn!AnsweredIsRecorded /\ Turn!SeqIsOneTurn
=============================================================================
