---------------------------- MODULE RunnableNode ----------------------------
(***************************************************************************)
(* roboflex::core::RunnableNode: start, stop_and_join, request_stop, run   *)
(* and the SIGINT handler that run installs.                               *)
(*                                                                         *)
(* One thread, main, starts, stops and runs the nodes.  Other threads only *)
(* call request_stop, and SIGINT comes at the points InterruptAt of main.  *)
(* child_thread_fn is a loop that returns once stop_requested() is true;   *)
(* that of the nodes in EndsItself may return before, as that of           *)
(* UniversalDataPlayer does at the end of its file.                        *)
(***************************************************************************)
EXTENDS Naturals

CONSTANTS
  Nodes,           \* the RunnableNodes
  NoNode,          \* the null pointer
  EndsItself,      \* the nodes whose child_thread_fn may end without a stop
  InterruptAt,     \* the points of main at which SIGINT may come
  MaxCalls         \* bound: calls of start and run

ASSUME RunnableNodeAssumption ==
  /\ NoNode \notin Nodes
  /\ EndsItself \subseteq Nodes
  /\ MaxCalls \in Nat

VARIABLES
  my_thread,       \* the nodes whose my_thread is not nullptr
  alive,           \* alive[n]: the spawned threads inside child_thread_fn of n
  stop_signal,     \* stop_signal[n]: RunnableNode::stop_signal
  main,            \* the operation under way: its node and its next statement
  running_node,    \* the global running_node
  handler,         \* is interrupt_signal_handler installed?
  interrupted,     \* history: the handler ran during this call of run
  asked,           \* history: the nodes asked to stop since stop_signal was cleared
  calls            \* calls of start and run so far

threads == <<my_thread, alive>>
interrupts == <<running_node, handler, interrupted>>
vars == <<threads, stop_signal, main, interrupts, asked, calls>>

Idle == [at |-> "idle", node |-> NoNode]

Init ==
  /\ my_thread = {}
  /\ alive = [n \in Nodes |-> 0]
  /\ stop_signal = [n \in Nodes |-> TRUE]
  /\ main = Idle
  /\ running_node = NoNode
  /\ handler = FALSE
  /\ interrupted = FALSE
  /\ asked = {}
  /\ calls = 0

\* main executes the statement at.
At(at) == main.at = at

Goto(at) == main' = [main EXCEPT !.at = at]

-----------------------------------------------------------------------------
(* start and stop_and_join.                                                *)

\* Faulty HasThread: start does not look at my_thread.
NeverLooks(n) == FALSE

HasThread(n) == n \in my_thread

\* Faulty Cleared: stop_signal keeps the value of the last stop.
NotCleared(n) == stop_signal

\* stop_signal = false
Cleared(n) == [stop_signal EXCEPT ![n] = FALSE]

\* start: no thread yet, so it clears stop_signal.
Start(n) ==
  /\ At("idle")
  /\ calls < MaxCalls
  /\ ~HasThread(n)
  /\ stop_signal' = Cleared(n)
  /\ asked' = asked \ {n}
  /\ main' = [at |-> "spawn", node |-> n]
  /\ calls' = calls + 1
  /\ UNCHANGED <<threads, interrupts>>

\* start: there is a thread already, even if it has ended.
StartAgain(n) ==
  /\ At("idle")
  /\ calls < MaxCalls
  /\ HasThread(n)
  /\ calls' = calls + 1
  /\ UNCHANGED <<threads, stop_signal, main, interrupts, asked>>

\* The new thread enters child_thread_fn.
Spawn ==
  /\ At("spawn")
  /\ my_thread' = my_thread \cup {main.node}
  /\ alive' = [alive EXCEPT ![main.node] = @ + 1]
  /\ main' = Idle
  /\ UNCHANGED <<stop_signal, interrupts, asked, calls>>

\* Faulty Requested: stop_and_join joins without request_stop.
NotRequested(n) == stop_signal

\* request_stop
Requested(n) == [stop_signal EXCEPT ![n] = TRUE]

\* stop_and_join, also from the destructor: it requests the stop ...
StopAndJoin(n) ==
  /\ At("idle")
  /\ n \in my_thread
  /\ stop_signal' = Requested(n)
  /\ asked' = asked \cup {n}
  /\ main' = [at |-> "join", node |-> n]
  /\ UNCHANGED <<threads, interrupts, calls>>

\* join returns when the thread has ended.
Joinable(n) == alive[n] = 0

\* ... and waits for the thread.
Join ==
  /\ At("join")
  /\ Joinable(main.node)
  /\ my_thread' = my_thread \ {main.node}
  /\ main' = Idle
  /\ UNCHANGED <<alive, stop_signal, interrupts, asked, calls>>

-----------------------------------------------------------------------------
(* run, whose SignalStacker installs the handler and restores it.          *)

\* running_node = n
Run(n) ==
  /\ At("idle")
  /\ calls < MaxCalls
  /\ running_node' = n
  /\ main' = [at |-> "install", node |-> n]
  /\ calls' = calls + 1
  /\ UNCHANGED <<threads, stop_signal, handler, interrupted, asked>>

\* ::signal(SIGINT, interrupt_signal_handler)
Install ==
  /\ At("install")
  /\ handler' = TRUE
  /\ Goto("clear")
  /\ UNCHANGED <<threads, stop_signal, running_node, interrupted, asked, calls>>

ClearStop ==
  /\ At("clear")
  /\ stop_signal' = Cleared(main.node)
  /\ asked' = asked \ {main.node}
  /\ Goto("body")
  /\ UNCHANGED <<threads, interrupts, calls>>

\* child_thread_fn returns.
Finished(n) == stop_signal[n] \/ n \in EndsItself

BodyReturns ==
  /\ At("body")
  /\ Finished(main.node)
  /\ Goto("forget")
  /\ UNCHANGED <<threads, stop_signal, interrupts, asked, calls>>

\* running_node = NULL
Forget ==
  /\ At("forget")
  /\ running_node' = NoNode
  /\ Goto("restore")
  /\ UNCHANGED <<threads, stop_signal, handler, interrupted, asked, calls>>

\* ::signal(SIGINT, previous_interrupt_signal_handler), and run returns.
Restore ==
  /\ At("restore")
  /\ handler' = FALSE
  /\ interrupted' = FALSE
  /\ main' = Idle
  /\ UNCHANGED <<threads, stop_signal, running_node, asked, calls>>

-----------------------------------------------------------------------------
(* The spawned threads, the other threads, and SIGINT.                     *)

\* child_thread_fn returns, and the thread ends.
ChildReturns(n) ==
  /\ alive[n] > 0
  /\ Finished(n)
  /\ alive' = [alive EXCEPT ![n] = @ - 1]
  /\ UNCHANGED <<my_thread, stop_signal, main, interrupts, asked, calls>>

\* Another thread calls request_stop.
RequestStop(n) ==
  /\ ~At("crashed")
  /\ stop_signal' = Requested(n)
  /\ asked' = asked \cup {n}
  /\ UNCHANGED <<threads, main, interrupts, calls>>

\* interrupt_signal_handler requests the stop of running_node.
Interrupt ==
  /\ handler
  /\ main.at \in InterruptAt
  /\ running_node # NoNode
  /\ stop_signal' = Requested(running_node)
  /\ asked' = asked \cup {running_node}
  /\ interrupted' = TRUE
  /\ UNCHANGED <<threads, main, running_node, handler, calls>>

\* It dereferences a null running_node: the process dies.
Crash ==
  /\ handler
  /\ main.at \in InterruptAt
  /\ running_node = NoNode
  /\ alive' = [n \in Nodes |-> 0]
  /\ Goto("crashed")
  /\ UNCHANGED <<my_thread, stop_signal, interrupts, asked, calls>>

-----------------------------------------------------------------------------
MainProceeds == \/ Spawn \/ Join
                \/ Install \/ ClearStop \/ BodyReturns \/ Forget \/ Restore

Next ==
  \/ \E n \in Nodes : \/ Start(n) \/ StartAgain(n) \/ StopAndJoin(n) \/ Run(n)
                      \/ ChildReturns(n) \/ RequestStop(n)
  \/ MainProceeds
  \/ Interrupt \/ Crash

Spec == Init /\ [][Next]_vars

\* Threads run, and child_thread_fn looks at stop_requested again and again;
\* nothing makes it end by itself.
FairSpec ==
  /\ Spec
  /\ WF_vars(MainProceeds /\ (At("body") => stop_signal[main.node]))
  /\ \A n \in Nodes : WF_vars(ChildReturns(n) /\ stop_signal[n])

-----------------------------------------------------------------------------
(* Properties.                                                             *)

Points == {"idle", "spawn", "join", "install", "clear", "body", "forget",
           "restore", "crashed"}

TypeOK ==
  /\ my_thread \subseteq Nodes
  /\ alive \in [Nodes -> 0..1]
  /\ stop_signal \in [Nodes -> BOOLEAN]
  /\ main \in [at : Points, node : Nodes \cup {NoNode}]
  /\ main.at \in {"idle", "crashed"} \/ main.node \in Nodes
  /\ running_node \in Nodes \cup {NoNode}
  /\ handler \in BOOLEAN
  /\ interrupted \in BOOLEAN
  /\ asked \subseteq Nodes
  /\ calls \in 0..MaxCalls

\* A node has at most one spawned thread, and none once stop has returned:
\* my_thread is never reset or overwritten while its thread runs (start and
\* stop_and_join, in any order and however the thread ends).
ThreadIsHeld == \A n \in Nodes : alive[n] <= IF n \in my_thread THEN 1 ELSE 0

\* A thread that does not end by itself ends only when somebody asked its node
\* to stop after it was started: the initial stop_signal and the stops of an
\* earlier life are forgotten (start clears it before it spawns, and run).
OnlyWhenAsked ==
  [][\A n \in Nodes \ EndsItself : ChildReturns(n) => n \in asked]_vars

\* stop returns (stop_and_join: the thread hears the request).
StopReturns == At("join") ~> At("idle")

\* After a SIGINT run returns: it has set "myself as the signal handler"
\* (node.cpp:393) in order to stop.
InterruptStops == interrupted ~> At("idle")

=============================================================================
