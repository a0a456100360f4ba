------------------------------- MODULE Graph -------------------------------
(***************************************************************************)
(* The operations of node.cpp on a whole graph - walk_nodes,               *)
(* walk_connections and filter_nodes - and what GraphRoot builds on them:  *)
(* a MetricsNode in every connection, and the removal of them all.         *)
(*                                                                         *)
(* A graph maps each node to the list of its observers.  One thread edits  *)
(* it, and each operation is one step: what a walk's callback changes is   *)
(* always a list that the walk has already copied (get_observers).         *)
(* Nothing is connected to the GraphRoot, but there may be cycles.         *)
(***************************************************************************)
EXTENDS Naturals, FiniteSets, SequencesExt

CONSTANTS
  Nodes,           \* the nodes of the program
  Root,            \* the GraphRoot
  MetricsNodes,    \* the sequence of MetricsNodes to create
  MaxLinks         \* bound: connections made by the program

ASSUME GraphAssumption ==
  /\ IsFiniteSet(Nodes)
  /\ Root \in Nodes
  /\ MetricsNodes \in Seq(Range(MetricsNodes))
  /\ Range(MetricsNodes) \cap Nodes = {}
  /\ IsInjective(MetricsNodes)
  /\ MaxLinks \in 0..Len(MetricsNodes)

VARIABLES
  observers,             \* Node::observers
  metrics_instrumented   \* GraphRoot::metrics_instrumented

vars == <<observers, metrics_instrumented>>

AllNodes == Nodes \cup Range(MetricsNodes)

\* The nodes that may observe another node: all but the root.
Followers == AllNodes \ {Root}

Init ==
  /\ observers = [n \in AllNodes |-> <<>>]
  /\ metrics_instrumented = FALSE

-----------------------------------------------------------------------------
(* Edits.                                                                  *)

Connected(g, n, to) == [g EXCEPT ![n] = Append(@, to)]

\* Faulty Disconnected: only one connection to the observer goes.
OneDisconnected(g, n, from) == [g EXCEPT ![n] = RemoveFirst(@, from)]

\* list::remove removes every connection to the observer.
Without(list, node) ==
  FoldLeft(LAMBDA kept, o : IF o = node THEN kept ELSE Append(kept, o), <<>>, list)

Disconnected(g, n, from) == [g EXCEPT ![n] = Without(@, from)]

Links(g) == UNION {{n} \X DOMAIN g[n] : n \in AllNodes}

\* The bound on the connections that the program makes.
Small(g) == Cardinality({l \in Links(g) : l[1] \in Nodes}) <= MaxLinks

\* The program leaves its graph alone while it is profiled.
MayEdit == ~metrics_instrumented

Connect(n, to) ==
  /\ MayEdit
  /\ observers' = Connected(observers, n, to)
  /\ Small(observers')
  /\ UNCHANGED metrics_instrumented

Disconnect(n, from) ==
  /\ MayEdit
  /\ observers' = Disconnected(observers, n, from)
  /\ UNCHANGED metrics_instrumented

-----------------------------------------------------------------------------
(* Walks.                                                                  *)

Connection(parent, child) == [parent |-> parent, child |-> child]
Connections == [parent : AllNodes, child : Followers]

\* What a walk has done so far: the nodes in its set visited, the connections
\* by which it entered them, the nodes it has left again, and the connections
\* that it went down and that it came back up, each in their order.
Trails == [visited : SUBSET Followers, entered : Seq(Connections),
           left : Seq(Followers), down : Seq(Connections), up : Seq(Connections)]

Unbegun == [visited |-> {}, entered |-> <<>>, left |-> <<>>, down |-> <<>>, up |-> <<>>]

Enter(t, parent, child) ==
  [t EXCEPT !.visited = @ \cup {child}, !.entered = Append(@, Connection(parent, child))]
Leave(t, node) == [t EXCEPT !.left = Append(@, node)]

\* walk_connections does not report the connections of the root itself.
GoDown(t, parent, child) ==
  IF parent = Root THEN t ELSE [t EXCEPT !.down = Append(@, Connection(parent, child))]
ComeUp(t, parent, child) ==
  IF parent = Root THEN t ELSE [t EXCEPT !.up = Append(@, Connection(parent, child))]

\* Faulty Unseen: the walk starts anew for each observer of the root.
UnseenFromParent(parent, child, visited) == child \notin visited \/ parent = Root

Unseen(parent, child, visited) == child \notin visited

\* A loop over the observers of a node, about to look at one of them.
Loops == [node : AllNodes, next : Nat \ {0}, trail : Trails]
Loop(node, next, trail) == [node |-> node, next |-> next, trail |-> trail]

\* The recursion that step_nodes, step_connections and filter share: the trail
\* at the end of a loop.  A node that was not visited yet is entered, and the
\* recursive call loops over its observers.
Traversal(g) ==
  LET after[l \in Loops] ==
        IF l.next > Len(g[l.node]) THEN l.trail
        ELSE LET child == g[l.node][l.next]
                 down == GoDown(l.trail, l.node, child)
                 back == IF ~Unseen(l.node, child, down.visited) THEN down
                         ELSE Leave(after[Loop(child, 1, Enter(down, l.node, child))], child)
             IN  after[Loop(l.node, l.next + 1, ComeUp(back, l.node, child))]
  IN  after[Loop(Root, 1, Unbegun)]

Children(walk) == [i \in DOMAIN walk |-> walk[i].child]

\* Faulty NodesBackwards: node_fun is called before the children.
NodesOnTheWayDown(g) == Children(Traversal(g).entered)

\* The order in which node_fun and connection_fun are called.
NodesForwards(g) == Children(Traversal(g).entered)
NodesBackwards(g) == Traversal(g).left
ConnectionsForwards(g) == Traversal(g).down
ConnectionsBackwards(g) == Traversal(g).up

\* The node whose list the rejected node is taken out of.
CutFrom(e) == e.parent

\* filter_nodes: each rejected node is cut out of the list of the node from
\* which the walk enters it, and its observers are put at the end.
Spliced(h, n, child, children) ==
  [Disconnected(h, n, child) EXCEPT ![n] = @ \o children]

Filtered(g, Rejected) ==
  LET cut(h, e) == IF e.child \in Rejected
                   THEN Spliced(h, CutFrom(e), e.child, g[e.child]) ELSE h
  IN  FoldLeft(cut, g, Traversal(g).entered)

FilterNodes(Rejected) ==
  /\ ~metrics_instrumented
  /\ observers' = Filtered(observers, Rejected)
  /\ Small(observers')
  /\ UNCHANGED metrics_instrumented

-----------------------------------------------------------------------------
(* GraphRoot.                                                              *)

\* insert_metrics_between: one of MetricsNodes, of which there are enough.
Inserted(g, n1, metrics_node, n2) ==
  Connected(Connected(Disconnected(g, n1, n2), n1, metrics_node), metrics_node, n2)

\* Faulty Walked: the connections are replaced from the last to the first.
LastFirst(g) == Reverse(ConnectionsBackwards(g))

Walked(g) == ConnectionsBackwards(g)

Instrumented(g) ==
  LET walk == Walked(g)
      insert(h, k) == Inserted(h, walk[k].parent, MetricsNodes[k], walk[k].child)
  IN  FoldLeft(insert, g, [k \in DOMAIN walk |-> k])

\* The metrics nodes that nobody observes from are destroyed.
Collected(g) ==
  [n \in AllNodes |-> IF n \in Nodes \/ \E p \in Nodes : n \in Range(g[p])
                      THEN g[n] ELSE <<>>]

InstrumentMetrics ==
  /\ ~metrics_instrumented
  /\ Len(Walked(observers)) <= Len(MetricsNodes)
  /\ observers' = Instrumented(observers)
  /\ metrics_instrumented' = TRUE

DeinstrumentMetrics ==
  /\ metrics_instrumented
  /\ observers' = Collected(Filtered(observers, Range(MetricsNodes)))
  /\ metrics_instrumented' = FALSE

Next ==
  \/ \E n \in Nodes, o \in Nodes \ {Root} : Connect(n, o) \/ Disconnect(n, o)
  \/ \E Rejected \in SUBSET (Nodes \ {Root}) : FilterNodes(Rejected)
  \/ InstrumentMetrics
  \/ DeinstrumentMetrics

Spec == Init /\ [][Next]_vars

-----------------------------------------------------------------------------
(* Properties.                                                             *)

\* The nodes that n signals to, directly or through others.
Below(g, n) ==
  LET further(near, k) == near \cup UNION {Range(g[m]) : m \in near}
  IN  FoldLeft(further, Range(g[n]), [k \in 1..Cardinality(AllNodes) |-> k])

Acyclic(g) == \A n \in AllNodes : n \notin Below(g, n)

\* How often a sequence has an element.
Times(seq, e) == Cardinality({i \in DOMAIN seq : seq[i] = e})

\* A walk calls node_fun once for each node below the root, and connection_fun
\* once for each of their connections, whatever the graph: with cycles, several
\* paths to a node and repeated connections (walk_nodes, walk_connections).
WalkedOnce ==
  /\ \A walk \in {NodesForwards(observers), NodesBackwards(observers)} :
       IsInjective(walk) /\ Range(walk) = Below(observers, Root)
  /\ \A walk \in {ConnectionsForwards(observers), ConnectionsBackwards(observers)},
        n, o \in AllNodes :
       Times(walk, Connection(n, o)) =
         IF n \in Below(observers, Root) THEN Times(observers[n], o) ELSE 0

\* In a graph without cycles the walk backwards comes to a node after all the
\* nodes below it, by whatever path: so start_all starts a node only when those
\* that will receive its messages are started (walk_nodes_backwards).
ObserversFirst ==
  Acyclic(observers) =>
    LET walk == NodesBackwards(observers)
    IN  \A i, j \in DOMAIN walk : i < j => walk[j] \notin Below(observers, walk[i])

\* Profiling puts one MetricsNode into each connection below the root, and each
\* MetricsNode has one parent and one child (instrument_metrics).
AllMetered ==
  metrics_instrumented =>
    /\ \A n \in Below(observers, Root) \cap Nodes :
         Range(observers[n]) \subseteq Range(MetricsNodes)
    /\ \A m \in Below(observers, Root) \ Nodes :
         /\ Len(observers[m]) = 1
         /\ Cardinality({l \in Links(observers) : observers[l[1]][l[2]] = m}) = 1

\* Profiling and its end give the program its graph back: the same connections,
\* as often and in the same order, so that messages are delivered in the same
\* order (instrument_metrics, deinstrument_metrics).
RoundTrip ==
  ~metrics_instrumented =>
    Collected(Filtered(Instrumented(observers), Range(MetricsNodes))) = observers

\* Profiling meters every connection, and its end undoes it.
Profiles == AllMetered /\ RoundTrip

Prunes(g, Rejected) == Below(Filtered(g, Rejected), Root) = Below(g, Root) \ Rejected

\* The nodes with a connection to n.
Parents(g, n) == {p \in Below(g, Root) \cup {Root} : n \in Range(g[p])}

\* filter_nodes takes the rejected nodes out and keeps all others within reach,
\* if each rejected node has one parent and that is kept: so it is with the
\* MetricsNodes (filter_nodes).
PrunesSparse ==
  \A Rejected \in SUBSET (Nodes \ {Root}) :
    (\A r \in Rejected : \E p \in Nodes \ Rejected : Parents(observers, r) \subseteq {p})
      => Prunes(observers, Rejected)

\* "Graph is pruned according to filter predicate": whatever it rejects is taken out
\* of a graph, at least if that has no cycles.  The code breaks it: filter cuts a
\* rejected node off from the parent it comes from, and returns at a node it has
\* visited; the node stays connected to a second parent, or to the node that it
\* was spliced to in place of a rejected parent (filter_nodes).
PrunesRejected ==
  Acyclic(observers) =>
    \A Rejected \in SUBSET (Nodes \ {Root}) : Prunes(observers, Rejected)

=============================================================================
