----------------------------- MODULE GraphRoot -----------------------------
(***************************************************************************)
(* roboflex::nodes::GraphRoot: start, start_all, profile and stop, built   *)
(* from the walks and the instrumentation of Graph and from the threads of *)
(* RunnableNode.  One thread, main, calls them; each is a list of calls on *)
(* single nodes that main makes one after the other.                       *)
(***************************************************************************)
EXTENDS Naturals, SequencesExt

CONSTANTS
  Nodes,           \* the nodes of the program
  Root,            \* the GraphRoot
  Runnable,        \* the nodes that are RunnableNodes
  Trigger,         \* metrics_trigger
  MetricsNodes,    \* the MetricsNodes to create
  Graphs,          \* the graphs that the program may build
  NoNode,          \* the null pointer
  EndsItself,      \* see RunnableNode
  MaxCalls         \* bound: calls of start and run on nodes

ASSUME GraphRootAssumption ==
  /\ IsFiniteSet(Nodes)
  /\ Root \in Nodes
  /\ Runnable \subseteq Nodes \ {Root}
  /\ Trigger \notin Nodes
  /\ NoNode \notin Runnable \cup {Trigger}
  /\ EndsItself \subseteq Runnable \cup {Trigger}
  /\ MaxCalls \in Nat
  /\ MetricsNodes \in Seq(Range(MetricsNodes))
  /\ Range(MetricsNodes) \cap Nodes = {}
  /\ IsInjective(MetricsNodes)

VARIABLES
  my_thread, alive, stop_signal, main, running_node, handler, interrupted,
  asked, calls,                      \* see RunnableNode
  observers, metrics_instrumented,   \* see Graph
  node_to_run,                       \* GraphRoot::_node_to_run
  todo,                              \* what the call under way has still to do
  built,                             \* history: the graph as the program built it
  last                               \* history: the last call on the GraphRoot

Threads == INSTANCE RunnableNode
             WITH Nodes <- Runnable \cup {Trigger}, InterruptAt <- {"body"}
Wiring == INSTANCE Graph
            WITH MaxLinks <- Len(MetricsNodes)

\* The program connects its own nodes, and there are MetricsNodes enough.
ASSUME GraphsAssumption ==
  \A g \in Graphs :
    /\ g \in [Nodes \cup Range(MetricsNodes) -> Seq(Nodes \ {Root})]
    /\ \A m \in Range(MetricsNodes) : g[m] = <<>>
    /\ Wiring!Small(g)

threads == <<my_thread, alive, stop_signal, main, running_node, handler,
             interrupted, asked, calls>>
wires == <<observers, metrics_instrumented>>
program == <<node_to_run, todo, last>>
vars == <<threads, wires, program, built>>

Init ==
  /\ Threads!Init
  /\ observers \in Graphs
  /\ metrics_instrumented = FALSE
  /\ node_to_run = NoNode
  /\ todo = <<>>
  /\ built = observers
  /\ last = "none"

-----------------------------------------------------------------------------
(* What the calls have to do.                                              *)

Task(do, n) == [do |-> do, node |-> n]

\* What the walk's callback does: to every RunnableNode but one.
ForEach(do, walk, but) ==
  FoldLeft(LAMBDA tasks, n : IF n \in Runnable \ {but} THEN Append(tasks, Task(do, n))
                                                      ELSE tasks,
           <<>>, walk)

StartWalk(g) == Wiring!NodesBackwards(g)

\* start_all: the nodes below come first, and node_to_run is run at the end.
StartTasks(g, run) ==
  ForEach("start", StartWalk(g), run)
    \o IF run = NoNode THEN <<>> ELSE <<Task("run", run)>>

\* Faulty StopTasks: the graph is rewired before the trigger is stopped.
RewiredFirst(g, run, profiled) ==
  IF profiled THEN <<Task("deinstrument", NoNode), Task("stop", Trigger)>>
                   \o ForEach("stop", Wiring!NodesForwards(g), run)
              ELSE ForEach("stop", Wiring!NodesForwards(g), run)

\* Faulty StopTasks: the metrics are forgotten.
NodesOnly(g, run, profiled) == ForEach("stop", Wiring!NodesForwards(g), run)

\* stop: all nodes but node_to_run, then the trigger, then the MetricsNodes.
StopTasks(g, run, profiled) ==
  ForEach("stop", Wiring!NodesForwards(g), run)
    \o IF profiled THEN <<Task("stop", Trigger), Task("deinstrument", NoNode)>>
                   ELSE <<>>

-----------------------------------------------------------------------------
(* The calls.                                                              *)

Ready == todo = <<>> /\ Threads!At("idle")

\* The program starts the graph again only when it has stopped it.
MayStart == Ready /\ my_thread = {}

\* start() is start_all(nullptr).
StartAll(run) ==
  /\ MayStart
  /\ node_to_run' = run
  /\ todo' = StartTasks(observers, run)
  /\ last' = "start"
  /\ UNCHANGED <<threads, wires, built>>

\* profile: instruments the graph, starts the trigger and the nodes, and stops
\* it all when the node that was run has returned.
Profile(run) ==
  /\ MayStart
  /\ IF metrics_instrumented THEN UNCHANGED wires ELSE Wiring!InstrumentMetrics
  /\ node_to_run' = run
  /\ todo' = <<Task("start", Trigger)>> \o StartTasks(observers', run)
               \o IF run = NoNode THEN <<>> ELSE <<Task("stop_all", NoNode)>>
  /\ last' = "profile"
  /\ UNCHANGED <<threads, built>>

Stop ==
  /\ Ready
  /\ todo' = StopTasks(observers, node_to_run, metrics_instrumented)
  /\ last' = "stop"
  /\ UNCHANGED <<threads, wires, node_to_run, built>>

-----------------------------------------------------------------------------
(* Their tasks.                                                            *)

Next1(do) == todo # <<>> /\ Threads!At("idle") /\ Head(todo).do = do

Done == todo' = Tail(todo) /\ UNCHANGED <<node_to_run, last>>

StartNode ==
  /\ Next1("start")
  /\ Threads!Start(Head(todo).node)
  /\ Done
  /\ UNCHANGED <<wires, built>>

RunNode ==
  /\ Next1("run")
  /\ Threads!Run(Head(todo).node)
  /\ Done
  /\ UNCHANGED <<wires, built>>

\* stop_and_join does nothing without a thread.
StopNode ==
  /\ Next1("stop")
  /\ IF Head(todo).node \in my_thread THEN Threads!StopAndJoin(Head(todo).node)
                                      ELSE UNCHANGED threads
  /\ Done
  /\ UNCHANGED <<wires, built>>

\* profile calls stop.
StopAll ==
  /\ Next1("stop_all")
  /\ todo' = StopTasks(observers, node_to_run, metrics_instrumented)
  /\ last' = "stop"
  /\ UNCHANGED <<threads, wires, node_to_run, built>>

Deinstrument ==
  /\ Next1("deinstrument")
  /\ Wiring!DeinstrumentMetrics
  /\ Done
  /\ UNCHANGED <<threads, built>>

\* main goes on with the call on a node.
Proceed ==
  /\ Threads!MainProceeds
  /\ UNCHANGED <<wires, program, built>>

Tasks == StartNode \/ RunNode \/ StopNode \/ StopAll \/ Deinstrument \/ Proceed

\* The other threads, and SIGINT.
Outside ==
  /\ \/ \E n \in Runnable \cup {Trigger} : Threads!ChildReturns(n)
     \/ \E n \in Runnable : Threads!RequestStop(n)
     \/ Threads!Interrupt
  /\ UNCHANGED <<wires, program, built>>

Next ==
  \/ \E run \in Runnable \cup {NoNode} : StartAll(run) \/ Profile(run)
  \/ Stop
  \/ Tasks
  \/ Outside

Spec == Init /\ [][Next]_vars

\* As in RunnableNode: nothing but a stop makes child_thread_fn end for sure.
FairSpec ==
  /\ Spec
  /\ WF_vars(Tasks /\ (Threads!At("body") => stop_signal[main.node]))
  /\ \A n \in Runnable \cup {Trigger} :
       WF_vars(Threads!ChildReturns(n) /\ stop_signal[n] /\ UNCHANGED <<wires, program, built>>)

-----------------------------------------------------------------------------
(* Properties.                                                             *)

\* The connections change only while no thread runs: no message is lost between
\* the disconnect and the connect of a MetricsNode (profile, stop).
QuietRewiring ==
  [][observers' # observers => \A n \in DOMAIN alive : alive[n] = 0]_vars

\* When stop returns the graph is as it was built and no thread is left: "It can
\* start() all RunnableNodes in the graph, and stop() them" (graph_root.h:18).
StopUndoes ==
  (Ready /\ last = "stop") => my_thread = {} /\ observers = built

\* A SIGINT that ends the run of a node while profiling ends all (profile).
InterruptEndsProfile ==
  (interrupted /\ last = "profile") ~> (Ready /\ my_thread = {} /\ observers = built)

=============================================================================
