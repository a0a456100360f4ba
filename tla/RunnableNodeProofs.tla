------------------------- MODULE RunnableNodeProofs -------------------------
(***************************************************************************)
(* Proofs about RunnableNode: my_thread always stands for the one thread   *)
(* of its node, and a thread hears no stop but its own, for any number of  *)
(* nodes and calls, wherever SIGINT comes.                                 *)
(***************************************************************************)
EXTENDS RunnableNode, TLAPS

\* start spawns for a node that has no thread.
SpawnIsFirst == At("spawn") => main.node \notin my_thread

\* A thread that sees stop_signal, or is about to see it, was asked to stop.
StopWasAsked ==
  /\ \A n \in Nodes : alive[n] > 0 /\ stop_signal[n] => n \in asked
  /\ At("spawn") /\ stop_signal[main.node] => main.node \in asked

Inv == TypeOK /\ ThreadIsHeld /\ SpawnIsFirst /\ StopWasAsked

-----------------------------------------------------------------------------
\* The invariant holds initially.
LEMMA InitInv == Init => Inv
<1>. SUFFICES ASSUME Init PROVE Inv
  OBVIOUS
<1>. USE RunnableNodeAssumption DEF Init
<1>1. stop_signal \in [Nodes -> BOOLEAN] /\ handler \in BOOLEAN /\ interrupted \in BOOLEAN
  BY Zenon
<1>2. alive \in [Nodes -> 0..1] /\ \A n \in Nodes : alive[n] = 0
  OBVIOUS
<1>3. main = Idle /\ main.at = "idle" /\ main \in [at : Points, node : Nodes \cup {NoNode}]
  BY DEF Idle, Points
<1>4. TypeOK
  BY <1>1, <1>2, <1>3 DEF TypeOK, At
<1>5. ThreadIsHeld /\ SpawnIsFirst /\ StopWasAsked
  BY <1>2, <1>3 DEF ThreadIsHeld, SpawnIsFirst, StopWasAsked, At
<1>. QED
  BY <1>4, <1>5 DEF Inv

\* Every step keeps the types.
LEMMA StepType == Inv /\ [Next]_vars => TypeOK'
<1>. SUFFICES ASSUME Inv, [Next]_vars PROVE TypeOK'
  OBVIOUS
<1>. USE RunnableNodeAssumption DEF Inv, TypeOK, At, Goto, Points, Idle, threads, interrupts
<1>1. ASSUME NEW n \in Nodes, Start(n) PROVE TypeOK'
  <2>1. stop_signal' \in [Nodes -> BOOLEAN]
    BY <1>1 DEF Start, Cleared
  <2>2. main' \in [at : Points, node : Nodes \cup {NoNode}] /\ main'.node \in Nodes
    BY <1>1 DEF Start
  <2>3. calls' \in 0..MaxCalls /\ asked' \subseteq Nodes
    BY <1>1 DEF Start
  <2>4. UNCHANGED <<my_thread, alive, running_node, handler, interrupted>>
    BY <1>1 DEF Start
  <2>. QED
    BY <2>1, <2>2, <2>3, <2>4
<1>1a. ASSUME NEW n \in Nodes, StartAgain(n) PROVE TypeOK'
  BY <1>1a DEF StartAgain
<1>2. ASSUME NEW n \in Nodes, StopAndJoin(n) PROVE TypeOK'
  BY <1>2 DEF StopAndJoin, Requested
<1>2a. ASSUME NEW n \in Nodes, Run(n) PROVE TypeOK'
  BY <1>2a DEF Run
<1>3. ASSUME NEW n \in Nodes, ChildReturns(n) PROVE TypeOK'
  BY <1>3 DEF ChildReturns, Finished
<1>4. ASSUME NEW n \in Nodes, RequestStop(n) PROVE TypeOK'
  BY <1>4 DEF RequestStop, Requested
<1>5. CASE Spawn
  <2>1. alive[main.node] = 0
    BY <1>5 DEF Spawn, SpawnIsFirst, ThreadIsHeld
  <2>. QED
    BY <1>5, <2>1 DEF Spawn
<1>6. CASE Join
  BY <1>6 DEF Join, Joinable
<1>7. CASE Install
  BY <1>7 DEF Install
<1>8. CASE ClearStop
  BY <1>8 DEF ClearStop, Cleared
<1>9. CASE BodyReturns
  BY <1>9 DEF BodyReturns
<1>10. CASE Forget
  BY <1>10 DEF Forget
<1>11. CASE Restore
  BY <1>11 DEF Restore
<1>12. CASE Interrupt
  BY <1>12 DEF Interrupt, Requested
<1>13. CASE Crash
  BY <1>13 DEF Crash
<1>14. CASE UNCHANGED vars
  <2>1. UNCHANGED <<my_thread, alive, stop_signal, main, running_node, handler,
                    interrupted, asked, calls>>
    BY <1>14 DEF vars
  <2>. QED
    BY <2>1
<1>. QED
  BY <1>1, <1>2, <1>3, <1>4, <1>5, <1>6, <1>7, <1>8, <1>9, <1>10, <1>11, <1>12,
     <1>13, <1>14, <1>1a, <1>2a DEF Next, MainProceeds

\* Spawning and joining keep my_thread and the threads together.
LEMMA StepHeld == Inv /\ [Next]_vars => ThreadIsHeld' /\ SpawnIsFirst'
<1>. SUFFICES ASSUME Inv, [Next]_vars PROVE ThreadIsHeld' /\ SpawnIsFirst'
  OBVIOUS
<1>. USE RunnableNodeAssumption DEF Inv, TypeOK, ThreadIsHeld, SpawnIsFirst, At, Goto,
                                    Idle, threads, interrupts
<1>1. ASSUME NEW n \in Nodes, Start(n) PROVE ThreadIsHeld' /\ SpawnIsFirst'
  BY <1>1 DEF Start, HasThread
<1>2. CASE Spawn
  BY <1>2 DEF Spawn
<1>3. CASE Join
  BY <1>3 DEF Join, Joinable
<1>4. ASSUME NEW n \in Nodes, ChildReturns(n) PROVE ThreadIsHeld' /\ SpawnIsFirst'
  BY <1>4 DEF ChildReturns
<1>5. CASE Crash
  BY <1>5 DEF Crash
<1>6. ASSUME NEW n \in Nodes, StartAgain(n) \/ StopAndJoin(n) \/ Run(n) \/ RequestStop(n)
      PROVE  ThreadIsHeld' /\ SpawnIsFirst'
  BY <1>6 DEF StartAgain, StopAndJoin, Run, RequestStop
<1>7. CASE Install \/ ClearStop \/ BodyReturns \/ Forget \/ Restore
  BY <1>7 DEF Install, ClearStop, BodyReturns, Forget, Restore
<1>8. CASE Interrupt \/ UNCHANGED vars
  BY <1>8 DEF Interrupt, vars
<1>. QED
  BY <1>1, <1>2, <1>3, <1>4, <1>5, <1>6, <1>7, <1>8 DEF Next, MainProceeds

\* stop_signal is true for a running thread only when somebody asked.
LEMMA StepAsked == Inv /\ [Next]_vars => StopWasAsked'
<1>. SUFFICES ASSUME Inv, [Next]_vars PROVE StopWasAsked'
  OBVIOUS
<1>. USE RunnableNodeAssumption DEF Inv, TypeOK, StopWasAsked, At, Goto, Idle, threads,
                                    interrupts
<1>1. ASSUME NEW n \in Nodes, Start(n) PROVE StopWasAsked'
  BY <1>1 DEF Start, Cleared
<1>2. CASE Spawn
  BY <1>2 DEF Spawn
<1>3. ASSUME NEW n \in Nodes, StopAndJoin(n) \/ RequestStop(n) PROVE StopWasAsked'
  BY <1>3 DEF StopAndJoin, RequestStop, Requested
<1>4. CASE Interrupt
  BY <1>4 DEF Interrupt, Requested
<1>5. CASE ClearStop
  BY <1>5 DEF ClearStop, Cleared
<1>6. ASSUME NEW n \in Nodes, ChildReturns(n) PROVE StopWasAsked'
  BY <1>6 DEF ChildReturns
<1>7. CASE Crash
  BY <1>7 DEF Crash
<1>8. ASSUME NEW n \in Nodes, StartAgain(n) \/ Run(n) PROVE StopWasAsked'
  BY <1>8 DEF StartAgain, Run
<1>9. CASE Join \/ Install \/ BodyReturns \/ Forget \/ Restore \/ UNCHANGED vars
  BY <1>9 DEF Join, Install, BodyReturns, Forget, Restore, vars
<1>. QED
  BY <1>1, <1>2, <1>3, <1>4, <1>5, <1>6, <1>7, <1>8, <1>9 DEF Next, MainProceeds

\* Every step preserves the invariant.
LEMMA StepInv == Inv /\ [Next]_vars => Inv'
  BY StepType, StepHeld, StepAsked DEF Inv

-----------------------------------------------------------------------------
\* Types hold always (RunnableNode's members and the globals of run).
THEOREM TypeCorrect == Spec => []TypeOK
<1>1. Inv => TypeOK
  BY DEF Inv
<1>. QED
  BY InitInv, StepInv, <1>1, PTL DEF Spec

\* At most one spawned thread per node, and none without my_thread (start and
\* stop_and_join): so stop leaves none behind.
THEOREM OneThreadEach == Spec => []ThreadIsHeld
<1>1. Inv => ThreadIsHeld
  BY DEF Inv
<1>. QED
  BY InitInv, StepInv, <1>1, PTL DEF Spec

\* A thread that does not end by itself ends only when asked (start, run).
THEOREM StopsAreAsked == Spec => OnlyWhenAsked
<1>1. Inv => [\A n \in Nodes \ EndsItself : ChildReturns(n) => n \in asked]_vars
  BY DEF Inv, StopWasAsked, ChildReturns, Finished
<1>. QED
  BY InitInv, StepInv, <1>1, PTL DEF Spec, OnlyWhenAsked
=============================================================================
