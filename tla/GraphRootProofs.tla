--------------------------- MODULE GraphRootProofs ---------------------------
(***************************************************************************)
(* Proofs about GraphRoot: whatever graph the program has built, and       *)
(* wherever threads end and SIGINT comes, stop ends the threads that start *)
(* and profile have started, and gives the program its graph back; and the *)
(* connections change only while no thread runs.                           *)
(*                                                                         *)
(* What is known of walks, of profiling and of a node's thread is taken    *)
(* from the proofs about Graph and RunnableNode.                           *)
(***************************************************************************)
EXTENDS GraphRoot, FiniteSetTheorems, SequenceTheorems, TLAPS

Walks == INSTANCE GraphProofs WITH MaxLinks <- Len(MetricsNodes)
Alone == INSTANCE RunnableNodeProofs
           WITH Nodes <- Runnable \cup {Trigger}, InterruptAt <- {"body"}

Runners == Runnable \cup {Trigger}

\* The calls that main may have to make.
Jobs == [do : {"start", "run", "stop"}, node : Runners]
          \cup [do : {"stop_all", "deinstrument"}, node : {NoNode}]

\* The nodes that stop will stop.
Stopped(g, run, profiled) ==
  ((Range(Wiring!NodesForwards(g)) \cap Runnable) \ {run})
    \cup IF profiled THEN {Trigger} ELSE {}

Stoppable == Stopped(observers, node_to_run, metrics_instrumented)

\* The nodes that main has still to start, or to stop, and the one that a call
\* under way is at.
Waiting(do) == {n \in Runners : Task(do, n) \in Range(todo)}
Midway(at) == {n \in Runners : main = [at |-> at, node |-> n]}

ProgramType ==
  /\ todo \in Seq(Jobs)
  /\ node_to_run \in Runnable \cup {NoNode}
  /\ last \in {"none", "start", "profile", "stop"}

\* While the graph is profiled it is the one that was built, with a MetricsNode
\* in each connection.
Wired ==
  /\ built \in Walks!Plain /\ Walks!Small(built)
  /\ metrics_instrumented \in BOOLEAN
  /\ observers = IF metrics_instrumented THEN Walks!Instrumented(built) ELSE built

\* Whatever has a thread, or is to have one, is among the nodes to stop.
Starting ==
  last # "stop" =>
    /\ main.at # "join"
    /\ \A i \in DOMAIN todo : todo[i].do \in {"start", "run", "stop_all"}
    /\ my_thread \cup Waiting("start") \cup Midway("spawn") \subseteq Stoppable

\* Whatever has a thread is still to be stopped, and the graph is rewired when
\* that is done.
Stopping ==
  last = "stop" =>
    /\ main.at \in {"idle", "join"}
    /\ my_thread \subseteq Waiting("stop") \cup Midway("join")
    /\ metrics_instrumented => todo # <<>>
    /\ \A i \in DOMAIN todo :
         todo[i].do = IF metrics_instrumented /\ i = Len(todo) THEN "deinstrument" ELSE "stop"

Inv == ProgramType /\ Wired /\ Starting /\ Stopping

-----------------------------------------------------------------------------
(* What is known of the walks and of the nodes.                            *)

LEMMA WalksAssumed == Walks!GraphAssumption
<1>1. /\ Walks!Range(MetricsNodes) = Range(MetricsNodes)
      /\ Walks!IsFiniteSet(Nodes) <=> IsFiniteSet(Nodes)
      /\ Walks!IsInjective(MetricsNodes) <=> IsInjective(MetricsNodes)
  BY DEF Walks!Range, Range, Walks!IsFiniteSet, IsFiniteSet, Walks!IsInjective, IsInjective
<1>2. Len(MetricsNodes) \in Nat
  BY GraphRootAssumption, LenProperties
<1>. QED
  BY <1>1, <1>2, GraphRootAssumption DEF Walks!GraphAssumption

LEMMA AloneAssumed == Alone!RunnableNodeAssumption
  BY GraphRootAssumption DEF Alone!RunnableNodeAssumption

\* The two instances of Graph speak of the same operations.
LEMMA SameRange ==
  ASSUME NEW s
  PROVE  Wiring!Range(s) = Range(s) /\ Walks!Range(s) = Range(s)
  BY DEF Wiring!Range, Walks!Range, Range

LEMMA SameNodes ==
  /\ Wiring!AllNodes = Nodes \cup Range(MetricsNodes)
  /\ Walks!AllNodes = Nodes \cup Range(MetricsNodes)
  BY SameRange DEF Wiring!AllNodes, Walks!AllNodes

LEMMA SameWalks ==
  ASSUME NEW g
  PROVE  /\ Wiring!NodesForwards(g) = Walks!NodesForwards(g)
         /\ Wiring!NodesBackwards(g) = Walks!NodesBackwards(g)
         /\ Wiring!ConnectionsBackwards(g) = Walks!ConnectionsBackwards(g)
         /\ Wiring!Traversal(g) = Walks!Traversal(g)
<1>1. Wiring!Traversal(g) = Walks!Traversal(g)
  BY DEF Wiring!Traversal, Walks!Traversal, Wiring!GoDown, Walks!GoDown, Wiring!Enter,
         Walks!Enter, Wiring!Unseen, Walks!Unseen, Wiring!Loop, Walks!Loop, Wiring!Leave,
         Walks!Leave, Wiring!ComeUp, Walks!ComeUp, Wiring!Connection, Walks!Connection,
         Wiring!Connections, Walks!Connections, Wiring!Loops, Walks!Loops, Wiring!Trails,
         Walks!Trails, Wiring!Unbegun, Walks!Unbegun, Wiring!Followers, Walks!Followers,
         Wiring!AllNodes, Walks!AllNodes, Wiring!Range, Walks!Range
<1>. QED
  BY <1>1 DEF Wiring!NodesForwards, Walks!NodesForwards, Wiring!NodesBackwards,
              Walks!NodesBackwards, Wiring!ConnectionsBackwards, Walks!ConnectionsBackwards,
              Wiring!Children, Walks!Children

LEMMA SameProfiling ==
  ASSUME NEW g
  PROVE  /\ Wiring!Instrumented(g) = Walks!Instrumented(g)
         /\ Wiring!Filtered(g, Wiring!Range(MetricsNodes)) = Walks!Filtered(g, Walks!Range(MetricsNodes))
         /\ Wiring!Collected(g) = Walks!Collected(g)
         /\ Wiring!Small(g) = Walks!Small(g)
<1>1. Wiring!Instrumented(g) = Walks!Instrumented(g)
  BY ZenonT(60) DEF Wiring!Instrumented, Walks!Instrumented, Wiring!Walked, Walks!Walked,
         Wiring!ConnectionsBackwards, Walks!ConnectionsBackwards, Wiring!Inserted,
         Walks!Inserted, Wiring!Connected, Walks!Connected, Wiring!Disconnected,
         Walks!Disconnected, Wiring!Without, Walks!Without, Wiring!FoldLeft, Walks!FoldLeft,
         Wiring!MapThenFoldSet, Walks!MapThenFoldSet, Wiring!Max, Walks!Max,
         Wiring!Traversal, Walks!Traversal, Wiring!GoDown, Walks!GoDown, Wiring!Enter,
         Walks!Enter, Wiring!Unseen, Walks!Unseen, Wiring!Loop, Walks!Loop, Wiring!Leave,
         Walks!Leave, Wiring!ComeUp, Walks!ComeUp, Wiring!Connection, Walks!Connection,
         Wiring!Connections, Walks!Connections, Wiring!Loops, Walks!Loops, Wiring!Trails,
         Walks!Trails, Wiring!Unbegun, Walks!Unbegun, Wiring!Followers, Walks!Followers,
         Wiring!AllNodes, Walks!AllNodes, Wiring!Range, Walks!Range
<1>2. Wiring!Filtered(g, Wiring!Range(MetricsNodes)) = Walks!Filtered(g, Walks!Range(MetricsNodes))
  BY ZenonT(60) DEF Wiring!Filtered, Walks!Filtered, Wiring!Spliced, Walks!Spliced, Wiring!CutFrom,
         Walks!CutFrom, Wiring!Disconnected, Walks!Disconnected, Wiring!Without,
         Walks!Without, Wiring!FoldLeft, Walks!FoldLeft, Wiring!MapThenFoldSet,
         Walks!MapThenFoldSet, Wiring!Max, Walks!Max, Wiring!Traversal, Walks!Traversal,
         Wiring!GoDown, Walks!GoDown, Wiring!Enter, Walks!Enter, Wiring!Unseen,
         Walks!Unseen, Wiring!Loop, Walks!Loop, Wiring!Leave, Walks!Leave, Wiring!ComeUp,
         Walks!ComeUp, Wiring!Connection, Walks!Connection, Wiring!Connections,
         Walks!Connections, Wiring!Loops, Walks!Loops, Wiring!Trails, Walks!Trails,
         Wiring!Unbegun, Walks!Unbegun, Wiring!Followers, Walks!Followers, Wiring!AllNodes,
         Walks!AllNodes, Wiring!Range, Walks!Range
<1>3. Wiring!Collected(g) = Walks!Collected(g)
  BY SameNodes, SameRange DEF Wiring!Collected, Walks!Collected
<1>4. Wiring!Small(g) = Walks!Small(g)
  BY SameNodes DEF Wiring!Small, Walks!Small, Wiring!Links, Walks!Links,
                   Wiring!Cardinality, Walks!Cardinality, Wiring!IsFiniteSet, Walks!IsFiniteSet
<1>. QED
  BY <1>1, <1>2, <1>3, <1>4

\* Both walks come to the same nodes.
LEMMA WalksMeet ==
  ASSUME NEW g \in Walks!Wirings
  PROVE  /\ Wiring!NodesForwards(g) \in Seq(Walks!Followers)
         /\ Wiring!NodesBackwards(g) \in Seq(Walks!Followers)
         /\ Range(Wiring!NodesForwards(g)) = Range(Wiring!NodesBackwards(g))
<1>. DEFINE t == Walks!Traversal(g)
            u == Walks!Children(t.entered)
<1>1. t \in Walks!Trails /\ Walks!Orderly(g, t) /\ Walks!Range(t.left) = t.visited
  BY WalksAssumed, Walks!WalkEnds
<1>2. t.left \in Seq(Walks!Followers) /\ t.entered \in Seq(Walks!Connections)
  BY <1>1 DEF Walks!Trails
<1>3. Walks!Range(u) = t.visited
  BY <1>1 DEF Walks!Orderly
<1>4. u \in Seq(Walks!Followers)
  <2>. HIDE DEF t
  <2>. QED
    BY <1>2, WalksAssumed, Walks!ChildrenFacts
<1>5. Wiring!NodesForwards(g) = u /\ Wiring!NodesBackwards(g) = t.left
  BY SameWalks DEF Walks!NodesForwards, Walks!NodesBackwards
<1>. HIDE DEF t, u
<1>. QED
  BY <1>1, <1>2, <1>3, <1>4, <1>5, SameRange

\* What is known of the graph while it is profiled, and after.
LEMMA BuiltWires ==
  ASSUME NEW g \in Walks!Plain, Walks!Small(g)
  PROVE  /\ g \in Walks!Wirings
         /\ Walks!Instrumented(g) \in Walks!Wirings
         /\ Walks!Collected(Walks!Filtered(Walks!Instrumented(g), Walks!Range(MetricsNodes))) = g
<1>1. /\ Walks!Metered(g, Walks!Instrumented(g))
      /\ Walks!Collected(Walks!Filtered(Walks!Instrumented(g), Walks!Range(MetricsNodes))) = g
  BY WalksAssumed, Walks!ProfilingUndone
<1>. QED
  BY <1>1 DEF Walks!Metered, Walks!Plain

LEMMA GraphsArePlain ==
  ASSUME NEW g \in Graphs
  PROVE  g \in Walks!Plain /\ Walks!Small(g)
<1>1. /\ g \in [Walks!AllNodes -> Seq(Nodes \ {Root})]
      /\ \A m \in Range(MetricsNodes) : g[m] = <<>>
      /\ Walks!Small(g)
  BY GraphsAssumption, SameNodes, SameProfiling
<1>2. ASSUME NEW n \in Walks!AllNodes
      PROVE  /\ g[n] \in Seq(Walks!Followers)
             /\ Walks!Range(g[n]) \subseteq Nodes
             /\ n \notin Nodes => g[n] = <<>>
  <2>1. g[n] \in Seq(Nodes \ {Root}) /\ Nodes \ {Root} \subseteq Walks!Followers
    BY <1>1, SameNodes DEF Walks!Followers
  <2>2. DOMAIN g[n] = 1 .. Len(g[n]) /\ \A i \in 1 .. Len(g[n]) : g[n][i] \in Nodes \ {Root}
    BY <2>1, LenProperties, ElementOfSeq
  <2>3. g[n] \in Seq(Walks!Followers)
    BY <2>1, SeqMonotonic
  <2>4. Walks!Range(g[n]) \subseteq Nodes
    BY <2>2 DEF Walks!Range
  <2>5. n \notin Nodes => g[n] = <<>>
    BY <1>1, SameNodes
  <2>. QED
    BY <2>3, <2>4, <2>5
<1>3. g \in Walks!Wirings
  BY <1>1, <1>2 DEF Walks!Wirings
<1>. QED
  BY <1>1, <1>2, <1>3 DEF Walks!Plain

-----------------------------------------------------------------------------
(* The calls that a walk gives rise to.                                    *)

Calls(do) == [do : {do}, node : Runnable]

\* The step of the fold by which ForEach is defined.
Listing(S, do, but) ==
  [tasks \in Seq(Calls(do)) |->
     [n \in S |-> IF n \in Runnable \ {but} THEN Append(tasks, Task(do, n)) ELSE tasks]]

LEMMA ForEachInSteps ==
  ASSUME NEW S, NEW do, NEW walk \in Seq(S), NEW but
  PROVE  /\ Listing(S, do, but) \in [Seq(Calls(do)) -> [S -> Seq(Calls(do))]]
         /\ \E h : Walks!BySteps(Seq(Calls(do)), Listing(S, do, but), << >>, walk,
                                 ForEach(do, walk, but), h)
<1>. DEFINE H == Seq(Calls(do))
            D == 1 .. Len(walk)
            List(tasks, n) == IF n \in Runnable \ {but} THEN Append(tasks, Task(do, n)) ELSE tasks
            G == Listing(S, do, but)
            Body(f) == [T \in SUBSET D |->
                          IF T = {} THEN << >> ELSE List(f[T \ {Max(T)}], walk[Max(T)])]
            f == CHOOSE f : f = Body(f)
<1>1. DOMAIN walk = D /\ Len(walk) \in Nat /\ \A i \in D : walk[i] \in S
  BY LenProperties, ElementOfSeq
<1>2. ForEach(do, walk, but) = f[D]
  BY <1>1 DEF ForEach, FoldLeft, MapThenFoldSet
<1>3. \A T : Max(T) = Walks!Max(T)
  BY DEF Max, Walks!Max
<1>4. \A T \in SUBSET D : T # {} => Max(T) \in D
  BY <1>1, <1>3, WalksAssumed, Walks!MaxOfSome
<1>5. \A tasks \in H, n \in S : List(tasks, n) \in H /\ G[tasks][n] = List(tasks, n)
  <2>1. \A n \in Runnable : Task(do, n) \in Calls(do)
    BY DEF Task, Calls
  <2>. QED
    BY <2>1, AppendProperties DEF Listing
<1>6. << >> \in H /\ G \in [H -> [S -> H]]
  BY <1>5, EmptySeq DEF Listing
<1>. HIDE DEF List, G
<1>7. f = Body(f)
  <2>1. PICK k \in [SUBSET D -> H] : Walks!FoldsBy(G, << >>, walk, k)
    <3>. HIDE DEF H
    <3>. QED
      BY <1>6, WalksAssumed, Walks!FoldExists
  <2>2. \A T \in SUBSET D : k[T] = IF T = {} THEN << >> ELSE List(k[T \ {Max(T)}], walk[Max(T)])
    BY <1>1, <1>3, <1>4, <1>5, <2>1 DEF Walks!FoldsBy
  <2>3. k = Body(k)
    BY <2>1, <2>2
  <2>. QED
    BY <2>3
<1>. HIDE DEF f
<1>8. \A T \in SUBSET D : f[T] = IF T = {} THEN << >> ELSE List(f[T \ {Max(T)}], walk[Max(T)])
  BY <1>7
<1>. HIDE DEF H
<1>9. Walks!FoldsIn(H, G, << >>, walk, f)
  BY <1>1, <1>3, <1>4, <1>5, <1>8 DEF Walks!FoldsIn
<1>10. \E h : Walks!BySteps(H, G, << >>, walk, f[1 .. Len(walk)], h)
  BY <1>6, <1>9, WalksAssumed, Walks!FoldBySteps
<1>. QED
  BY <1>2, <1>6, <1>10 DEF H, G

LEMMA ForEachType ==
  ASSUME NEW S, NEW do, NEW walk \in Seq(S), NEW but
  PROVE  ForEach(do, walk, but) \in Seq(Calls(do))
<1>1. Len(walk) \in 0 .. Len(walk)
  BY LenProperties
<1>2. PICK h : Walks!BySteps(Seq(Calls(do)), Listing(S, do, but), << >>, walk,
                             ForEach(do, walk, but), h)
  BY ForEachInSteps
<1>3. h \in [0 .. Len(walk) -> Seq(Calls(do))] /\ h[Len(walk)] = ForEach(do, walk, but)
  BY <1>2 DEF Walks!BySteps
<1>. QED
  BY <1>1, <1>3

LEMMA ForEachEmpty ==
  ASSUME NEW do, NEW but
  PROVE  ForEach(do, << >>, but) = << >>
<1>1. << >> \in Seq({})
  BY EmptySeq
<1>2. PICK h : Walks!BySteps(Seq(Calls(do)), Listing({}, do, but), << >>, << >>,
                             ForEach(do, << >>, but), h)
  BY <1>1, ForEachInSteps
<1>. QED
  BY <1>2, WalksAssumed, Walks!FoldEmpty

\* The walk comes to one more node.
OneMore(do, walk, n, but) ==
  ForEach(do, Append(walk, n), but) =
    IF n \in Runnable \ {but} THEN Append(ForEach(do, walk, but), Task(do, n))
                              ELSE ForEach(do, walk, but)

LEMMA ForEachAppend ==
  ASSUME NEW S, NEW do, NEW walk \in Seq(S), NEW n \in S, NEW but
  PROVE  OneMore(do, walk, n, but)
<1>1. Append(walk, n) \in Seq(S) /\ ForEach(do, walk, but) \in Seq(Calls(do))
  BY AppendProperties, ForEachType
<1>2. ForEach(do, Append(walk, n), but) = Listing(S, do, but)[ForEach(do, walk, but)][n]
  <2>1. PICK h : Walks!BySteps(Seq(Calls(do)), Listing(S, do, but), << >>, walk,
                               ForEach(do, walk, but), h)
    BY ForEachInSteps
  <2>2. PICK k : Walks!BySteps(Seq(Calls(do)), Listing(S, do, but), << >>, Append(walk, n),
                               ForEach(do, Append(walk, n), but), k)
    BY <1>1, ForEachInSteps
  <2>. QED
    BY <2>1, <2>2, WalksAssumed, Walks!FoldAppend
<1>. QED
  BY <1>1, <1>2 DEF Listing, OneMore

\* The calls of every RunnableNode that the walk comes to, but for one.
Due(do, walk, but) == {Task(do, n) : n \in (Range(walk) \cap Runnable) \ {but}}

LEMMA ForEachCalls ==
  ASSUME NEW S, NEW do, NEW walk \in Seq(S), NEW but
  PROVE  Range(ForEach(do, walk, but)) = Due(do, walk, but)
<1>. DEFINE P == {w \in Seq(S) : Range(ForEach(do, w, but)) = Due(do, w, but)}
<1>1. Range(<< >>) = {} /\ << >> \in Seq(S)
  BY SameRange, WalksAssumed, Walks!EmptyRange, EmptySeq
<1>2. << >> \in P
  BY <1>1, ForEachEmpty DEF Due
<1>3. ASSUME NEW w \in P, NEW n \in S PROVE Append(w, n) \in P
  <2>1. Append(w, n) \in Seq(S) /\ Range(Append(w, n)) = Range(w) \cup {n}
    BY SameRange, WalksAssumed, Walks!AppendFacts
  <2>2. Range(ForEach(do, w, but)) = Due(do, w, but) /\ ForEach(do, w, but) \in Seq(Calls(do))
    BY ForEachType
  <2>3. ForEach(do, Append(w, n), but) =
           IF n \in Runnable \ {but} THEN Append(ForEach(do, w, but), Task(do, n))
                                     ELSE ForEach(do, w, but)
    <3>1. w \in Seq(S)
      OBVIOUS
    <3>. HIDE DEF P
    <3>2. OneMore(do, w, n, but)
      BY <3>1, ForEachAppend
    <3>. QED
      BY <3>2 DEF OneMore
  <2>4. CASE n \in Runnable \ {but}
    <3>1. Task(do, n) \in Calls(do)
      BY <2>4 DEF Task, Calls
    <3>2. Range(Append(ForEach(do, w, but), Task(do, n))) = Due(do, w, but) \cup {Task(do, n)}
      BY <2>2, <3>1, SameRange, WalksAssumed, Walks!AppendFacts
    <3>3. Due(do, Append(w, n), but) = Due(do, w, but) \cup {Task(do, n)}
      BY <2>1, <2>4 DEF Due
    <3>. QED
      BY <2>1, <2>3, <2>4, <3>2, <3>3
  <2>5. CASE n \notin Runnable \ {but}
    <3>1. Due(do, Append(w, n), but) = Due(do, w, but)
      BY <2>1, <2>5 DEF Due
    <3>. QED
      BY <2>1, <2>2, <2>3, <2>5, <3>1
  <2>. QED
    BY <2>4, <2>5
<1>4. walk \in P
  <2>. HIDE DEF P
  <2>1. P \in SUBSET Seq(S)
    BY DEF P
  <2>. QED
    BY <1>2, <1>3, <2>1, WalksAssumed, Walks!AppendInduction
<1>. QED
  BY <1>4

LEMMA OneTask ==
  ASSUME NEW S, NEW a \in S
  PROVE  <<a>> \in Seq(S) /\ Len(<<a>>) = 1 /\ <<a>>[1] = a /\ Range(<<a>>) = {a}
<1>1. <<a>> \in Seq(S) /\ Len(<<a>>) = 1 /\ <<a>>[1] = a
  OBVIOUS
<1>2. DOMAIN <<a>> = {1}
  OBVIOUS
<1>. QED
  BY <1>1, <1>2 DEF Range

LEMMA TwoTasks ==
  ASSUME NEW S, NEW a \in S, NEW b \in S
  PROVE  <<a, b>> \in Seq(S) /\ Len(<<a, b>>) = 2 /\ <<a, b>>[1] = a /\ <<a, b>>[2] = b
         /\ Range(<<a, b>>) = {a, b}
<1>1. <<a, b>> \in Seq(S) /\ Len(<<a, b>>) = 2 /\ <<a, b>>[1] = a /\ <<a, b>>[2] = b
  OBVIOUS
<1>2. DOMAIN <<a, b>> = {1, 2}
  OBVIOUS
<1>. QED
  BY <1>1, <1>2 DEF Range

LEMMA Listed ==
  ASSUME NEW S, NEW s \in Seq(S)
  PROVE  /\ Len(s) \in Nat /\ DOMAIN s = 1 .. Len(s)
         /\ \A i \in DOMAIN s : s[i] \in S /\ s[i] \in Range(s)
         /\ \A e \in Range(s) : \E i \in DOMAIN s : s[i] = e
BY LenProperties, ElementOfSeq DEF Range

\* The tasks of one kind.
LEMMA EachCalls ==
  ASSUME NEW g \in Walks!Wirings, NEW do \in {"start", "stop"}, NEW walk,
         walk \in {Wiring!NodesForwards(g), Wiring!NodesBackwards(g)}, NEW run
  PROVE  /\ ForEach(do, walk, run) \in Seq(Jobs)
         /\ \A i \in DOMAIN ForEach(do, walk, run) : ForEach(do, walk, run)[i].do = do
         /\ Range(ForEach(do, walk, run)) = Due(do, Wiring!NodesForwards(g), run)
<1>1. walk \in Seq(Walks!Followers) /\ Range(walk) = Range(Wiring!NodesForwards(g))
  BY WalksMeet
<1>2. ForEach(do, walk, run) \in Seq(Calls(do))
  BY <1>1, ForEachType
<1>3. Calls(do) \subseteq Jobs /\ \A e \in Calls(do) : e.do = do
  BY DEF Calls, Jobs, Runners
<1>4. ForEach(do, walk, run) \in Seq(Jobs)
  BY <1>2, <1>3, SeqMonotonic
<1>5. Range(ForEach(do, walk, run)) = Due(do, walk, run)
  BY <1>1, ForEachCalls
<1>6. Due(do, walk, run) = Due(do, Wiring!NodesForwards(g), run)
  BY <1>1 DEF Due
<1>7. \A i \in DOMAIN ForEach(do, walk, run) : ForEach(do, walk, run)[i] \in Calls(do)
  BY <1>2, Listed
<1>. QED
  BY <1>3, <1>4, <1>5, <1>6, <1>7

LEMMA JoinedLists ==
  ASSUME NEW S, NEW s \in Seq(S), NEW t \in Seq(S)
  PROVE  /\ s \o t \in Seq(S)
         /\ Len(s \o t) = Len(s) + Len(t)
         /\ DOMAIN (s \o t) = 1 .. (Len(s) + Len(t))
         /\ Range(s \o t) = Range(s) \cup Range(t)
         /\ \A i \in 1 .. (Len(s) + Len(t)) :
              \/ i \in DOMAIN s /\ (s \o t)[i] = s[i]
              \/ i - Len(s) \in DOMAIN t /\ (s \o t)[i] = t[i - Len(s)]
<1>1. Len(s) \in Nat /\ Len(t) \in Nat /\ DOMAIN s = 1 .. Len(s) /\ DOMAIN t = 1 .. Len(t)
  BY LenProperties
<1>2. /\ s \o t \in Seq(S) /\ Len(s \o t) = Len(s) + Len(t)
      /\ \A i \in 1 .. Len(s) + Len(t) : (s \o t)[i] = IF i <= Len(s) THEN s[i] ELSE t[i - Len(s)]
  BY ConcatProperties
<1>3. DOMAIN (s \o t) = 1 .. (Len(s) + Len(t))
  BY <1>2, LenProperties
<1>4. Range(s \o t) = Range(s) \cup Range(t)
  BY RangeConcatenation
<1>5. \A i \in 1 .. (Len(s) + Len(t)) :
         \/ i \in DOMAIN s /\ (s \o t)[i] = s[i]
         \/ i - Len(s) \in DOMAIN t /\ (s \o t)[i] = t[i - Len(s)]
  BY <1>1, <1>2
<1>. QED
  BY <1>2, <1>3, <1>4, <1>5

\* start starts what its walk comes to, but not the node to run.
LEMMA StartsWhatIsBelow ==
  ASSUME NEW g \in Walks!Wirings, NEW run \in Runnable \cup {NoNode}
  PROVE  /\ StartTasks(g, run) \in Seq(Jobs)
         /\ \A i \in DOMAIN StartTasks(g, run) : StartTasks(g, run)[i].do \in {"start", "run"}
         /\ \A n : Task("start", n) \in Range(StartTasks(g, run)) =>
                     n \in (Range(Wiring!NodesForwards(g)) \cap Runnable) \ {run}
<1>. DEFINE s == ForEach("start", StartWalk(g), run)
            t == IF run = NoNode THEN <<>> ELSE <<Task("run", run)>>
<1>1. /\ s \in Seq(Jobs)
      /\ \A i \in DOMAIN s : s[i].do = "start"
      /\ Range(s) = Due("start", Wiring!NodesForwards(g), run)
  BY EachCalls DEF StartWalk
<1>2. /\ t \in Seq(Jobs)
      /\ \A i \in DOMAIN t : t[i].do = "run"
      /\ \A e \in Range(t) : e.do = "run"
  <2>1. CASE run = NoNode
    <3>1. t = <<>> /\ DOMAIN <<>> = {} /\ Range(<<>>) = {} /\ <<>> \in Seq(Jobs)
      BY <2>1, EmptySeq, SameRange, WalksAssumed, Walks!EmptyRange
    <3>. HIDE DEF t
    <3>. QED
      BY <3>1
  <2>2. CASE run # NoNode
    <3>1. Task("run", run) \in Jobs /\ Task("run", run).do = "run"
      BY <2>2 DEF Task, Jobs, Runners
    <3>2. t = <<Task("run", run)>>
      BY <2>2
    <3>3. t \in Seq(Jobs) /\ Range(t) = {Task("run", run)}
      BY <3>1, <3>2, OneTask
    <3>. HIDE DEF t
    <3>. QED
      BY <3>1, <3>3, Listed
  <2>. QED
    BY <2>1, <2>2
<1>3. StartTasks(g, run) = s \o t
  BY DEF StartTasks
<1>. HIDE DEF s, t
<1>4. /\ s \o t \in Seq(Jobs) /\ Range(s \o t) = Range(s) \cup Range(t)
      /\ \A i \in DOMAIN (s \o t) : (s \o t)[i].do \in {"start", "run"}
  BY <1>1, <1>2, JoinedLists
<1>5. \A n : Task("start", n) \in Range(s \o t) => Task("start", n) \in Range(s)
  BY <1>2, <1>4 DEF Task
<1>6. \A n, m : Task("start", n) = Task("start", m) => n = m
  BY DEF Task
<1>. QED
  BY <1>1, <1>3, <1>4, <1>5, <1>6 DEF Due

\* stop stops the same nodes, and the trigger before the graph is rewired.
LEMMA StopsWhatIsBelow ==
  ASSUME NEW g \in Walks!Wirings, NEW run, NEW profiled \in BOOLEAN
  PROVE  /\ StopTasks(g, run, profiled) \in Seq(Jobs)
         /\ profiled => StopTasks(g, run, profiled) # <<>>
         /\ \A i \in DOMAIN StopTasks(g, run, profiled) :
              StopTasks(g, run, profiled)[i].do =
                IF profiled /\ i = Len(StopTasks(g, run, profiled)) THEN "deinstrument" ELSE "stop"
         /\ \A n \in (Range(Wiring!NodesForwards(g)) \cap Runnable) \ {run} :
              Task("stop", n) \in Range(StopTasks(g, run, profiled))
         /\ profiled => Task("stop", Trigger) \in Range(StopTasks(g, run, profiled))
<1>. DEFINE s == ForEach("stop", Wiring!NodesForwards(g), run)
            a == Task("stop", Trigger)
            b == Task("deinstrument", NoNode)
            r == StopTasks(g, run, profiled)
<1>1. /\ s \in Seq(Jobs)
      /\ \A i \in DOMAIN s : s[i].do = "stop"
      /\ Range(s) = Due("stop", Wiring!NodesForwards(g), run)
  BY EachCalls
<1>2. CASE profiled
  <2>1. r = s \o <<a, b>>
    BY <1>2 DEF StopTasks
  <2>2. a \in Jobs /\ b \in Jobs /\ a.do = "stop" /\ b.do = "deinstrument"
    BY DEF Task, Jobs, Runners
  <2>. HIDE DEF s, a, b, r
  <2>3. /\ <<a, b>> \in Seq(Jobs) /\ Len(<<a, b>>) = 2 /\ <<a, b>>[1] = a /\ <<a, b>>[2] = b
        /\ Range(<<a, b>>) = {a, b}
    BY <2>2, TwoTasks
  <2>. DEFINE t == <<a, b>>
  <2>. HIDE DEF t
  <2>4. t \in Seq(Jobs) /\ Len(t) = 2 /\ t[1] = a /\ t[2] = b /\ Range(t) = {a, b} /\ DOMAIN t = 1 .. 2
    BY <2>3, Listed DEF t
  <2>5. /\ r \in Seq(Jobs) /\ Len(r) = Len(s) + 2 /\ DOMAIN r = 1 .. (Len(s) + 2)
        /\ Range(r) = Range(s) \cup {a, b}
        /\ \A i \in 1 .. (Len(s) + 2) :
             \/ i \in DOMAIN s /\ r[i] = s[i]
             \/ i - Len(s) \in DOMAIN t /\ r[i] = t[i - Len(s)]
    <3>1. r = s \o t
      BY <2>1 DEF t
    <3>2. /\ s \o t \in Seq(Jobs) /\ Len(s \o t) = Len(s) + Len(t)
          /\ DOMAIN (s \o t) = 1 .. (Len(s) + Len(t))
          /\ Range(s \o t) = Range(s) \cup Range(t)
          /\ \A i \in 1 .. (Len(s) + Len(t)) :
               \/ i \in DOMAIN s /\ (s \o t)[i] = s[i]
               \/ i - Len(s) \in DOMAIN t /\ (s \o t)[i] = t[i - Len(s)]
      <4>1. s \in Seq(Jobs) /\ t \in Seq(Jobs)
        BY <1>1, <2>4
      <4>. QED
        BY <4>1, JoinedLists
    <3>. QED
      BY <2>4, <3>1, <3>2
  <2>6. Len(s) \in Nat /\ DOMAIN s = 1 .. Len(s)
    BY <1>1, LenProperties
  <2>7. ASSUME NEW i \in DOMAIN r
        PROVE  r[i].do = IF i = Len(r) THEN "deinstrument" ELSE "stop"
    <3>1. CASE i \in DOMAIN s /\ r[i] = s[i]
      BY <1>1, <2>5, <2>6, <3>1
    <3>2. CASE i - Len(s) \in DOMAIN t /\ r[i] = t[i - Len(s)]
      <4>1. i = Len(s) + 1 \/ i = Len(s) + 2
        BY <2>4, <2>5, <2>6, <3>2
      <4>2. CASE i = Len(s) + 1
        BY <2>2, <2>4, <2>5, <2>6, <3>2, <4>2
      <4>3. CASE i = Len(s) + 2
        BY <2>2, <2>4, <2>5, <2>6, <3>2, <4>3
      <4>. QED
        BY <4>1, <4>2, <4>3
    <3>. QED
      BY <2>5, <3>1, <3>2
  <2>8. r # <<>>
    BY <2>5, <2>6, EmptySeq
  <2>. QED
    BY <1>1, <1>2, <2>5, <2>7, <2>8 DEF a, r, Due
<1>3. CASE ~profiled
  <2>1. r = s \o <<>>
    BY <1>3 DEF StopTasks
  <2>. HIDE DEF s, r
  <2>2. r = s
    BY <1>1, <2>1, ConcatEmptySeq
  <2>. QED
    BY <1>1, <1>3, <2>2 DEF r, Due
<1>. QED
  BY <1>2, <1>3

-----------------------------------------------------------------------------
(* The steps of GraphRoot are steps of the nodes.                          *)

LEMMA SameThreads ==
  /\ Threads!Init => Alone!Init
  /\ [Threads!Next]_(Threads!vars) => [Alone!Next]_(Alone!vars)
  /\ Threads!TypeOK = Alone!TypeOK
<1>1. Threads!Init => Alone!Init
  BY DEF Threads!Init, Alone!Init, Threads!Idle, Alone!Idle
<1>2. UNCHANGED Threads!vars => UNCHANGED Alone!vars
  BY DEF Threads!vars, Threads!threads, Threads!interrupts, Alone!vars, Alone!threads, Alone!interrupts
<1>3. ASSUME NEW n
      PROVE  /\ Threads!Start(n) => Alone!Start(n)
             /\ Threads!StartAgain(n) => Alone!StartAgain(n)
             /\ Threads!StopAndJoin(n) => Alone!StopAndJoin(n)
             /\ Threads!Run(n) => Alone!Run(n)
             /\ Threads!ChildReturns(n) => Alone!ChildReturns(n)
             /\ Threads!RequestStop(n) => Alone!RequestStop(n)
  BY DEF Threads!Start, Alone!Start, Threads!StartAgain, Alone!StartAgain,
         Threads!StopAndJoin, Alone!StopAndJoin, Threads!Run, Alone!Run,
         Threads!ChildReturns, Alone!ChildReturns, Threads!RequestStop, Alone!RequestStop,
         Threads!At, Alone!At, Threads!HasThread, Alone!HasThread, Threads!Cleared,
         Alone!Cleared, Threads!Requested, Alone!Requested, Threads!Finished, Alone!Finished,
         Threads!threads, Alone!threads, Threads!interrupts, Alone!interrupts
<1>4. Threads!MainProceeds => Alone!MainProceeds
  BY DEF Threads!MainProceeds, Alone!MainProceeds, Threads!Spawn, Alone!Spawn, Threads!Join,
         Alone!Join, Threads!Install, Alone!Install, Threads!ClearStop, Alone!ClearStop,
         Threads!BodyReturns, Alone!BodyReturns, Threads!Forget, Alone!Forget,
         Threads!Restore, Alone!Restore, Threads!At, Alone!At, Threads!Goto, Alone!Goto,
         Threads!Joinable, Alone!Joinable, Threads!Idle, Alone!Idle, Threads!Cleared,
         Alone!Cleared, Threads!Finished, Alone!Finished,
         Threads!threads, Alone!threads, Threads!interrupts, Alone!interrupts
<1>5. (Threads!Interrupt => Alone!Interrupt) /\ (Threads!Crash => Alone!Crash)
  BY DEF Threads!Interrupt, Alone!Interrupt, Threads!Crash, Alone!Crash, Threads!Requested,
         Alone!Requested, Threads!Goto, Alone!Goto,
         Threads!threads, Alone!threads, Threads!interrupts, Alone!interrupts
<1>6. Threads!TypeOK = Alone!TypeOK
  BY DEF Threads!TypeOK, Alone!TypeOK, Threads!Points, Alone!Points
<1>. QED
  BY <1>1, <1>2, <1>3, <1>4, <1>5, <1>6 DEF Threads!Next, Alone!Next

\* profile starts the trigger too, and may come to call stop.
ProfileTasks(g, run) ==
  <<Task("start", Trigger)>> \o StartTasks(g, run)
    \o IF run = NoNode THEN <<>> ELSE <<Task("stop_all", NoNode)>>

LEMMA ProfileStartsMore ==
  ASSUME NEW g \in Walks!Wirings, NEW run \in Runnable \cup {NoNode}
  PROVE  /\ ProfileTasks(g, run) \in Seq(Jobs)
         /\ \A i \in DOMAIN ProfileTasks(g, run) :
              ProfileTasks(g, run)[i].do \in {"start", "run", "stop_all"}
         /\ \A n : Task("start", n) \in Range(ProfileTasks(g, run)) =>
              n \in ((Range(Wiring!NodesForwards(g)) \cap Runnable) \ {run}) \cup {Trigger}
<1>. DEFINE a == Task("start", Trigger)
            b == Task("stop_all", NoNode)
            s == StartTasks(g, run)
            t == IF run = NoNode THEN <<>> ELSE <<b>>
<1>1. a \in Jobs /\ b \in Jobs /\ a.do = "start" /\ b.do = "stop_all"
  BY DEF Task, Jobs, Runners
<1>2. ProfileTasks(g, run) = (<<a>> \o s) \o t
  BY DEF ProfileTasks
<1>3. \A n : /\ Task("start", n).do = "start"
             /\ Task("start", n) = a => n = Trigger
  BY DEF Task
<1>4. /\ s \in Seq(Jobs)
      /\ \A i \in DOMAIN s : s[i].do \in {"start", "run"}
      /\ \A n : Task("start", n) \in Range(s) =>
                  n \in (Range(Wiring!NodesForwards(g)) \cap Runnable) \ {run}
  BY StartsWhatIsBelow
<1>. HIDE DEF a, b, s
<1>5. t \in Seq(Jobs) /\ \A i \in DOMAIN t : t[i].do = "stop_all"
  <2>1. CASE run = NoNode
    <3>1. t = <<>> /\ DOMAIN <<>> = {} /\ <<>> \in Seq(Jobs)
      BY <2>1, EmptySeq
    <3>. HIDE DEF t
    <3>. QED
      BY <3>1
  <2>2. CASE run # NoNode
    <3>1. t = <<b>>
      BY <2>2
    <3>2. t \in Seq(Jobs) /\ Range(t) = {b}
      BY <1>1, <3>1, OneTask
    <3>. HIDE DEF t
    <3>. QED
      BY <1>1, <3>2, Listed
  <2>. QED
    BY <2>1, <2>2
<1>. HIDE DEF t
<1>6. \A n : Task("start", n) \notin Range(t)
  BY <1>3, <1>5, Listed
<1>. DEFINE v == <<a>>
            u == v \o s
<1>7. v \in Seq(Jobs) /\ Range(v) = {a} /\ \A i \in DOMAIN v : v[i].do = "start"
  <2>1. v \in Seq(Jobs) /\ Range(v) = {a}
    BY <1>1, OneTask
  <2>. HIDE DEF v
  <2>. QED
    BY <1>1, <2>1, Listed
<1>. HIDE DEF v
<1>8. /\ u \in Seq(Jobs) /\ Range(u) = {a} \cup Range(s)
      /\ \A i \in DOMAIN u : u[i].do \in {"start", "run"}
  BY <1>4, <1>7, JoinedLists
<1>. HIDE DEF u
<1>9. /\ u \o t \in Seq(Jobs) /\ Range(u \o t) = Range(u) \cup Range(t)
      /\ \A i \in DOMAIN (u \o t) : (u \o t)[i].do \in {"start", "run", "stop_all"}
  BY <1>5, <1>8, JoinedLists
<1>10. ProfileTasks(g, run) = u \o t
  BY <1>2 DEF u, v
<1>. QED
  BY <1>3, <1>4, <1>6, <1>8, <1>9, <1>10

\* The first of the calls, and the rest.
LEMMA FirstAndRest ==
  ASSUME NEW s \in Seq(Jobs), s # <<>>
  PROVE  /\ Head(s) \in Jobs /\ Head(s) = s[1] /\ 1 \in DOMAIN s
         /\ Tail(s) \in Seq(Jobs) /\ Len(Tail(s)) = Len(s) - 1
         /\ DOMAIN Tail(s) = 1 .. Len(s) - 1
         /\ \A i \in DOMAIN Tail(s) : i + 1 \in DOMAIN s /\ Tail(s)[i] = s[i + 1]
         /\ Range(s) = {Head(s)} \cup Range(Tail(s))
<1>1. /\ Len(s) \in Nat \ {0} /\ DOMAIN s = 1 .. Len(s)
      /\ \A i \in 1 .. Len(s) : s[i] \in Jobs
  BY LenProperties, ElementOfSeq, EmptySeq
<1>2. /\ Tail(s) \in Seq(Jobs) /\ Len(Tail(s)) = Len(s) - 1 /\ Head(s) = s[1]
      /\ \A i \in 1 .. Len(Tail(s)) : Tail(s)[i] = s[i + 1]
  BY HeadTailProperties
<1>3. DOMAIN Tail(s) = 1 .. Len(s) - 1
  BY <1>2, LenProperties
<1>4. ASSUME NEW i \in DOMAIN s, i # 1 PROVE i - 1 \in DOMAIN Tail(s) /\ s[i] = Tail(s)[i - 1]
  <2>1. i - 1 \in 1 .. Len(Tail(s)) /\ (i - 1) + 1 = i
    BY <1>1, <1>2, <1>4
  <2>2. Tail(s)[i - 1] = s[(i - 1) + 1]
    BY <1>2, <2>1
  <2>. QED
    BY <1>2, <1>3, <2>1, <2>2
<1>5. \A i \in DOMAIN Tail(s) : i + 1 \in DOMAIN s /\ Tail(s)[i] = s[i + 1]
  BY <1>1, <1>2, <1>3
<1>6. 1 \in DOMAIN s /\ s[1] \in Jobs
  BY <1>1
<1>7. Range(s) = {Head(s)} \cup Range(Tail(s))
  BY <1>2, <1>4, <1>5, <1>6 DEF Range
<1>. QED
  BY <1>2, <1>3, <1>5, <1>6, <1>7

-----------------------------------------------------------------------------
(* The shape of the program's state.                                       *)

Shape == ProgramType /\ Wired

LEMMA ShapeIsWired ==
  ASSUME Shape
  PROVE  observers \in Walks!Wirings
  BY BuiltWires DEF Shape, Wired

LEMMA InitShape == Init => Shape
<1>. SUFFICES ASSUME Init PROVE Shape
  OBVIOUS
<1>1. ProgramType
  BY EmptySeq DEF Init, ProgramType
<1>2. Wired
  BY GraphsArePlain DEF Init, Wired
<1>. QED
  BY <1>1, <1>2 DEF Shape

LEMMA StepShape == Shape /\ [Next]_vars => Shape'
<1>. SUFFICES ASSUME Shape, [Next]_vars PROVE Shape'
  OBVIOUS
<1>. USE DEF Shape
<1>1. observers \in Walks!Wirings
  BY ShapeIsWired
<1>2. ASSUME NEW run \in Runnable \cup {NoNode}, StartAll(run) PROVE Shape'
  <2>1. todo' \in Seq(Jobs)
    BY <1>1, <1>2, StartsWhatIsBelow DEF StartAll
  <2>. QED
    BY <1>2, <2>1 DEF StartAll, ProgramType, Wired, wires
<1>3. ASSUME NEW run \in Runnable \cup {NoNode}, Profile(run) PROVE Shape'
  <2>1. metrics_instrumented' = TRUE /\ observers' = Walks!Instrumented(built)
    BY <1>3, SameProfiling DEF Profile, Wired, wires, Wiring!InstrumentMetrics
  <2>2. built' = built /\ Wired'
    BY <1>3, <2>1 DEF Profile, Wired
  <2>3. observers' \in Walks!Wirings
    BY <2>1, BuiltWires DEF Wired
  <2>4. todo' = ProfileTasks(observers', run)
    BY <1>3 DEF Profile, ProfileTasks
  <2>5. todo' \in Seq(Jobs)
    <3>. DEFINE g == observers'
    <3>. HIDE DEF g
    <3>1. ProfileTasks(g, run) \in Seq(Jobs)
      BY <2>3, ProfileStartsMore DEF g
    <3>. QED
      BY <2>4, <3>1 DEF g
  <2>. QED
    BY <1>3, <2>2, <2>5 DEF Profile, ProgramType
<1>4. CASE Stop \/ StopAll
  <2>1. StopTasks(observers, node_to_run, metrics_instrumented) \in Seq(Jobs)
    BY <1>1, StopsWhatIsBelow DEF Wired
  <2>. QED
    BY <1>4, <2>1 DEF Stop, StopAll, ProgramType, Wired, wires
<1>5. ASSUME NEW do, Next1(do), Done PROVE ProgramType'
  BY <1>5, FirstAndRest DEF Next1, Done, ProgramType
<1>6. CASE StartNode \/ RunNode \/ StopNode
  BY <1>5, <1>6 DEF StartNode, RunNode, StopNode, Wired, wires
<1>7. CASE Deinstrument
  <2>1. /\ metrics_instrumented /\ metrics_instrumented' = FALSE /\ built' = built
        /\ observers' = Walks!Collected(Walks!Filtered(observers, Walks!Range(MetricsNodes)))
    BY <1>7, SameProfiling, SameRange DEF Deinstrument, Wiring!DeinstrumentMetrics
  <2>2. observers' = built
    BY <2>1, BuiltWires DEF Wired
  <2>. QED
    BY <1>5, <1>7, <2>1, <2>2 DEF Deinstrument, Wired
<1>8. CASE Proceed \/ Outside \/ UNCHANGED vars
  BY <1>8 DEF Proceed, Outside, vars, wires, program, ProgramType, Wired
<1>. QED
  BY <1>2, <1>3, <1>4, <1>6, <1>7, <1>8 DEF Next, Tasks

\* main calls start, run and stop on the nodes as one thread may, whatever the
\* calls on the GraphRoot: GraphRoot implements RunnableNode.
THEOREM UsesTheNodes == Spec => Threads!Spec
<1>1. Init => Threads!Init
  BY DEF Init
<1>2. Shape /\ [Next]_vars => [Threads!Next]_(Threads!vars)
  <2>1. SUFFICES ASSUME Shape, [Next]_vars PROVE Threads!Next \/ UNCHANGED threads
    BY DEF threads, Threads!vars, Threads!threads, Threads!interrupts
  <2>2. CASE UNCHANGED vars
    BY <2>2 DEF vars
  <2>3. CASE \E run \in Runnable \cup {NoNode} : StartAll(run) \/ Profile(run)
    BY <2>3 DEF StartAll, Profile
  <2>4. CASE Stop \/ StopAll \/ Deinstrument
    BY <2>4 DEF Stop, StopAll, Deinstrument
  <2>5. CASE StartNode \/ RunNode \/ StopNode
    <3>1. Head(todo) \in Jobs /\ Head(todo).do \in {"start", "run", "stop"}
      BY <2>1, <2>5, FirstAndRest DEF StartNode, RunNode, StopNode, Next1, Shape, ProgramType
    <3>2. Head(todo).node \in Runnable \cup {Trigger}
      BY <3>1 DEF Jobs, Runners
    <3>. QED
      BY <2>5, <3>2 DEF StartNode, RunNode, StopNode, Threads!Next
  <2>6. CASE Proceed
    <3>1. Threads!MainProceeds
      BY <2>6 DEF Proceed
    <3>. QED
      BY <3>1 DEF Threads!Next
  <2>7. CASE Outside
    <3>1. \/ \E n \in Runnable \cup {Trigger} : Threads!ChildReturns(n) \/ Threads!RequestStop(n)
          \/ Threads!Interrupt
      BY <2>7 DEF Outside
    <3>. QED
      BY <3>1 DEF Threads!Next
  <2>. QED
    BY <2>1, <2>2, <2>3, <2>4, <2>5, <2>6, <2>7 DEF Next, Tasks
<1>. QED
  BY <1>1, <1>2, InitShape, StepShape, PTL DEF Spec, Threads!Spec

LEMMA NodesHold == Spec => [](Threads!TypeOK /\ Alone!ThreadIsHeld)
<1>1. Threads!Spec => Alone!Spec
  BY SameThreads, PTL DEF Threads!Spec, Alone!Spec
<1>2. Alone!Spec => []Alone!TypeOK
  BY AloneAssumed, Alone!TypeCorrect
<1>3. Alone!Spec => []Alone!ThreadIsHeld
  BY AloneAssumed, Alone!OneThreadEach
<1>4. Alone!TypeOK => Threads!TypeOK
  BY SameThreads
<1>. QED
  BY <1>1, <1>2, <1>3, <1>4, UsesTheNodes, PTL
-----------------------------------------------------------------------------
(* What start and stop owe to one another.                                 *)

\* What a step of main does to the thread of a node.
LEMMA MainSteps ==
  ASSUME Threads!TypeOK, Threads!MainProceeds
  PROVE  \/ /\ main.at = "spawn" /\ main'.at = "idle"
            /\ my_thread' = my_thread \cup Midway("spawn")
         \/ /\ main.at = "join" /\ main'.at = "idle"
            /\ my_thread' = my_thread \ Midway("join")
         \/ /\ main.at \notin {"idle", "spawn", "join"} /\ main'.at \notin {"spawn", "join"}
            /\ my_thread' = my_thread
<1>1. /\ main = [at |-> main.at, node |-> main.node]
      /\ main.at = "spawn" \/ main.at = "join" => main.node \in Runners
  BY DEF Threads!TypeOK, Threads!Points, Runners
<1>2. CASE Threads!Spawn
  <2>1. Midway("spawn") = {main.node}
    BY <1>1, <1>2 DEF Threads!Spawn, Threads!At, Midway
  <2>. QED
    BY <1>2, <2>1 DEF Threads!Spawn, Threads!At, Threads!Idle
<1>3. CASE Threads!Join
  <2>1. Midway("join") = {main.node}
    BY <1>1, <1>3 DEF Threads!Join, Threads!At, Midway
  <2>. QED
    BY <1>3, <2>1 DEF Threads!Join, Threads!At, Threads!Idle
<1>4. CASE Threads!Install \/ Threads!ClearStop \/ Threads!BodyReturns \/ Threads!Forget \/ Threads!Restore
  <2>1. /\ main.at \in {"install", "clear", "body", "forget", "restore"}
        /\ my_thread' = my_thread
        /\ main' = Threads!Idle \/ \E at \in {"clear", "body", "forget", "restore"} :
                                      main' = [main EXCEPT !.at = at]
    BY <1>4 DEF Threads!Install, Threads!ClearStop, Threads!BodyReturns, Threads!Forget,
                Threads!Restore, Threads!At, Threads!Goto, Threads!threads
  <2>2. main'.at \in {"idle", "clear", "body", "forget", "restore"}
    BY <1>1, <2>1 DEF Threads!Idle
  <2>. QED
    BY <2>1, <2>2
<1>. QED
  BY <1>2, <1>3, <1>4 DEF Threads!MainProceeds

\* The other threads, and SIGINT, leave main and my_thread as they are.
LEMMA OutsideSteps ==
  ASSUME Outside \/ UNCHANGED vars
  PROVE  UNCHANGED <<my_thread, main, observers, metrics_instrumented, node_to_run, todo, last, built>>
<1>1. CASE UNCHANGED vars
  BY <1>1 DEF vars, threads, wires, program
<1>2. CASE Outside
  BY <1>2 DEF Outside, wires, program, Threads!ChildReturns, Threads!RequestStop,
              Threads!Interrupt, Threads!threads
<1>. QED
  BY <1>1, <1>2

\* No call on a node is under way.
LEMMA NotMidway ==
  ASSUME NEW at, main.at # at
  PROVE  Midway(at) = {}
  BY DEF Midway

LEMMA NotMidwayNext ==
  ASSUME NEW at, main'.at # at
  PROVE  Midway(at)' = {}
  BY DEF Midway

LEMMA InitCalls == Init => Starting /\ Stopping
<1>. SUFFICES ASSUME Init PROVE Starting
  BY DEF Init, Stopping
<1>1. main.at = "idle" /\ my_thread = {} /\ todo = <<>> /\ last = "none"
  BY DEF Init, Threads!Init, Threads!Idle
<1>2. DOMAIN <<>> = {} /\ Range(<<>>) = {}
  BY SameRange, WalksAssumed, Walks!EmptyRange
<1>3. Waiting("start") = {} /\ Midway("spawn") = {}
  BY <1>1, <1>2 DEF Waiting, Midway
<1>. QED
  BY <1>1, <1>2, <1>3 DEF Starting

LEMMA StepStarting == Shape /\ Threads!TypeOK /\ Starting /\ Stopping /\ [Next]_vars => Starting'
<1>. SUFFICES ASSUME Shape, Threads!TypeOK, Starting, Stopping, [Next]_vars, last' # "stop"
              PROVE  Starting'
  BY DEF Starting
<1>1. ASSUME NEW run \in Runnable \cup {NoNode}, StartAll(run) PROVE Starting'
  <2>1. todo' = StartTasks(observers, run) /\ observers \in Walks!Wirings
    BY <1>1, ShapeIsWired DEF StartAll
  <2>2. main'.at = "idle" /\ my_thread' = {}
    BY <1>1 DEF StartAll, MayStart, Ready, Threads!At, threads
  <2>3. Stoppable' = Stopped(observers, run, metrics_instrumented)
    BY <1>1 DEF StartAll, Stoppable, wires
  <2>4. Waiting("start")' \subseteq Stoppable'
    BY <2>1, <2>3, StartsWhatIsBelow DEF Waiting, Stopped
  <2>5. \A i \in DOMAIN todo' : todo'[i].do \in {"start", "run", "stop_all"}
    BY <2>1, StartsWhatIsBelow
  <2>. QED
    BY <2>2, <2>4, <2>5, NotMidwayNext DEF Starting
<1>2. ASSUME NEW run \in Runnable \cup {NoNode}, Profile(run) PROVE Starting'
  <2>. DEFINE g == observers'
  <2>1. todo' = ProfileTasks(g, run) /\ node_to_run' = run
    BY <1>2 DEF Profile, ProfileTasks
  <2>2. main'.at = "idle" /\ my_thread' = {}
    BY <1>2 DEF Profile, MayStart, Ready, Threads!At, threads
  <2>3. g \in Walks!Wirings
    <3>1. Shape'
      BY StepShape
    <3>. QED
      BY <3>1, BuiltWires DEF Shape, Wired
  <2>4. Stoppable' = Stopped(g, run, TRUE)
    BY <1>2, <2>1 DEF Profile, Stoppable, wires, Wiring!InstrumentMetrics
  <2>. HIDE DEF g
  <2>5. Waiting("start")' \subseteq Stoppable'
    BY <2>1, <2>3, <2>4, ProfileStartsMore DEF Waiting, Stopped
  <2>6. \A i \in DOMAIN todo' : todo'[i].do \in {"start", "run", "stop_all"}
    BY <2>1, <2>3, ProfileStartsMore
  <2>. QED
    BY <2>2, <2>5, <2>6, NotMidwayNext DEF Starting
<1>3. CASE Stop \/ StopAll
  BY <1>3 DEF Stop, StopAll
<1>4. ASSUME NEW do, Next1(do), Done, UNCHANGED <<wires, built>>
      PROVE  /\ \A i \in DOMAIN todo' : todo'[i].do \in {"start", "run", "stop_all"}
             /\ Stoppable' = Stoppable
             /\ Waiting("start")' \subseteq Waiting("start")
             /\ Head(todo).do = do /\ do \in {"start", "run", "stop_all"}
             /\ \A n \in Runners : Head(todo) = Task("start", n) => n \in Waiting("start")
             /\ my_thread \cup Waiting("start") \subseteq Stoppable
  <2>1. todo \in Seq(Jobs) /\ todo # <<>> /\ todo' = Tail(todo) /\ Head(todo).do = do
    BY <1>4 DEF Next1, Done, Shape, ProgramType
  <2>2. last # "stop" /\ \A i \in DOMAIN todo : todo[i].do \in {"start", "run", "stop_all"}
    BY <1>4 DEF Done, Starting
  <2>3. \A i \in DOMAIN todo' : todo'[i].do \in {"start", "run", "stop_all"}
    BY <2>1, <2>2, FirstAndRest
  <2>4. do \in {"start", "run", "stop_all"}
    BY <2>1, <2>2, FirstAndRest
  <2>5. Stoppable' = Stoppable
    BY <1>4 DEF Done, Stoppable, wires
  <2>6. Range(todo) = {Head(todo)} \cup Range(todo')
    BY <2>1, FirstAndRest
  <2>. QED
    BY <2>1, <2>2, <2>3, <2>4, <2>5, <2>6 DEF Waiting, Starting
<1>5. CASE StartNode
  <2>1. Head(todo) \in Jobs
    BY <1>5, FirstAndRest DEF StartNode, Next1, Shape, ProgramType
  <2>2. Head(todo) = Task("start", Head(todo).node) /\ Head(todo).node \in Runners
    BY <1>5, <2>1 DEF StartNode, Next1, Jobs, Runners, Task
  <2>3. main' = [at |-> "spawn", node |-> Head(todo).node] /\ my_thread' = my_thread
    BY <1>5 DEF StartNode, Threads!Start, Threads!threads
  <2>4. Midway("spawn")' \subseteq {Head(todo).node} /\ main'.at = "spawn"
    BY <2>3 DEF Midway
  <2>5. Next1("start") /\ Done /\ UNCHANGED <<wires, built>>
    BY <1>5 DEF StartNode
  <2>. QED
    BY <1>4, <2>2, <2>3, <2>4, <2>5 DEF Starting
<1>6. CASE RunNode
  <2>1. main'.at = "install" /\ my_thread' = my_thread
    BY <1>6 DEF RunNode, Threads!Run, Threads!threads
  <2>2. Next1("run") /\ Done /\ UNCHANGED <<wires, built>>
    BY <1>6 DEF RunNode
  <2>. QED
    BY <1>4, <2>1, <2>2, NotMidwayNext DEF Starting
<1>7. CASE StopNode \/ Deinstrument
  <2>1. last # "stop" /\ (Next1("stop") \/ Next1("deinstrument"))
    BY <1>7 DEF StopNode, Deinstrument, Done
  <2>2. Head(todo).do \in {"start", "run", "stop_all"}
    BY <2>1, FirstAndRest DEF Starting, Next1, Shape, ProgramType
  <2>. QED
    BY <2>1, <2>2 DEF Next1
<1>8. CASE Proceed
  <2>1. UNCHANGED <<observers, metrics_instrumented, node_to_run, todo, last>> /\ last # "stop"
    BY <1>8 DEF Proceed, wires, program
  <2>2. Stoppable' = Stoppable /\ Waiting("start")' = Waiting("start")
    BY <2>1 DEF Stoppable, Waiting
  <2>3. /\ main'.at \notin {"spawn", "join"}
        /\ my_thread' \subseteq my_thread \cup Midway("spawn")
    BY <1>8, MainSteps DEF Proceed
  <2>. QED
    BY <2>1, <2>2, <2>3, NotMidwayNext DEF Starting
<1>9. CASE Outside \/ UNCHANGED vars
  BY <1>9, OutsideSteps DEF Starting, Stoppable, Waiting, Midway
<1>. QED
  BY <1>1, <1>2, <1>3, <1>5, <1>6, <1>7, <1>8, <1>9 DEF Next, Tasks

LEMMA StepStopping == Shape /\ Threads!TypeOK /\ Starting /\ Stopping /\ [Next]_vars => Stopping'
<1>. SUFFICES ASSUME Shape, Threads!TypeOK, Starting, Stopping, [Next]_vars, last' = "stop"
              PROVE  Stopping'
  BY DEF Stopping
<1>1. ASSUME NEW run \in Runnable \cup {NoNode}, StartAll(run) \/ Profile(run) PROVE FALSE
  BY <1>1 DEF StartAll, Profile
<1>2. CASE Stop \/ StopAll
  <2>. DEFINE s == StopTasks(observers, node_to_run, metrics_instrumented)
  <2>1. /\ todo' = s /\ main' = main /\ main.at = "idle"
        /\ my_thread' = my_thread /\ UNCHANGED <<observers, metrics_instrumented, node_to_run>>
    BY <1>2 DEF Stop, StopAll, Ready, Next1, Threads!At, threads, wires
  <2>2. /\ metrics_instrumented => s # <<>>
        /\ \A i \in DOMAIN s :
             s[i].do = IF metrics_instrumented /\ i = Len(s) THEN "deinstrument" ELSE "stop"
        /\ \A n \in (Range(Wiring!NodesForwards(observers)) \cap Runnable) \ {node_to_run} :
             Task("stop", n) \in Range(s)
        /\ metrics_instrumented => Task("stop", Trigger) \in Range(s)
    BY ShapeIsWired, StopsWhatIsBelow DEF Shape, Wired
  <2>. HIDE DEF s
  <2>3. Stoppable \subseteq Waiting("stop")'
    BY <2>1, <2>2 DEF Stoppable, Stopped, Waiting, Runners
  <2>4. my_thread \subseteq Stoppable
    <3>1. CASE last # "stop"
      BY <3>1 DEF Starting
    <3>2. CASE last = "stop" /\ Stop
      <4>1. todo = <<>> /\ Range(<<>>) = {}
        BY <3>2, SameRange, WalksAssumed, Walks!EmptyRange DEF Stop, Ready
      <4>2. Waiting("stop") = {} /\ Midway("join") = {}
        BY <2>1, <4>1, NotMidway DEF Waiting
      <4>. QED
        BY <3>2, <4>2 DEF Stopping
    <3>3. CASE last = "stop" /\ StopAll
      <4>1. todo \in Seq(Jobs) /\ todo # <<>> /\ Head(todo).do = "stop_all"
        BY <3>3 DEF StopAll, Next1, Shape, ProgramType
      <4>2. \A i \in DOMAIN todo : todo[i].do \in {"deinstrument", "stop"}
        BY <3>3 DEF Stopping
      <4>. QED
        BY <4>1, <4>2, FirstAndRest
    <3>. QED
      BY <1>2, <3>1, <3>2, <3>3
  <2>. QED
    BY <2>1, <2>2, <2>3, <2>4 DEF Stopping
<1>3. ASSUME NEW do, Next1(do), Done
      PROVE  /\ todo \in Seq(Jobs) /\ todo # <<>> /\ todo' = Tail(todo) /\ Head(todo).do = do
             /\ Head(todo) \in Jobs
             /\ main.at = "idle"
             /\ do = IF metrics_instrumented /\ Len(todo) = 1 THEN "deinstrument" ELSE "stop"
             /\ \A i \in DOMAIN todo' :
                  todo'[i].do = IF metrics_instrumented /\ i = Len(todo') THEN "deinstrument" ELSE "stop"
             /\ my_thread \subseteq Waiting("stop")
             /\ Range(todo) = {Head(todo)} \cup Range(todo')
  <2>1. todo \in Seq(Jobs) /\ todo # <<>> /\ todo' = Tail(todo) /\ Head(todo).do = do
    BY <1>3 DEF Next1, Done, Shape, ProgramType
  <2>2. /\ last = "stop" /\ main.at = "idle"
        /\ \A i \in DOMAIN todo :
             todo[i].do = IF metrics_instrumented /\ i = Len(todo) THEN "deinstrument" ELSE "stop"
    BY <1>3 DEF Next1, Done, Stopping, Threads!At
  <2>3. /\ Head(todo) \in Jobs /\ Head(todo) = todo[1] /\ 1 \in DOMAIN todo
        /\ Len(Tail(todo)) = Len(todo) - 1
        /\ \A i \in DOMAIN Tail(todo) : i + 1 \in DOMAIN todo /\ Tail(todo)[i] = todo[i + 1]
        /\ Range(todo) = {Head(todo)} \cup Range(Tail(todo))
        /\ DOMAIN Tail(todo) = 1 .. Len(todo) - 1
    BY <2>1, FirstAndRest
  <2>4. Len(todo) \in Nat
    BY <2>1, LenProperties
  <2>5. do = IF metrics_instrumented /\ Len(todo) = 1 THEN "deinstrument" ELSE "stop"
    BY <2>1, <2>2, <2>3
  <2>6. ASSUME NEW i \in DOMAIN todo'
        PROVE  todo'[i].do = IF metrics_instrumented /\ i = Len(todo') THEN "deinstrument" ELSE "stop"
    <3>1. todo'[i] = todo[i + 1] /\ i + 1 \in DOMAIN todo
      BY <2>1, <2>3
    <3>2. i + 1 = Len(todo) <=> i = Len(todo')
      BY <2>1, <2>3, <2>4
    <3>. QED
      BY <2>2, <3>1, <3>2
  <2>7. my_thread \subseteq Waiting("stop")
    BY <2>2, NotMidway DEF Stopping
  <2>. QED
    BY <2>1, <2>2, <2>3, <2>5, <2>6, <2>7
<1>4. CASE StartNode \/ RunNode
  <2>1. Done /\ (Next1("start") \/ Next1("run"))
    BY <1>4 DEF StartNode, RunNode
  <2>. QED
    BY <1>3, <2>1
<1>5. CASE StopNode
  <2>. DEFINE n == Head(todo).node
  <2>1. Next1("stop") /\ Done /\ UNCHANGED metrics_instrumented
    BY <1>5 DEF StopNode, wires
  <2>2. /\ todo \in Seq(Jobs) /\ todo # <<>> /\ todo' = Tail(todo)
        /\ Head(todo) \in Jobs /\ Head(todo).do = "stop"
        /\ main.at = "idle"
        /\ ~(metrics_instrumented /\ Len(todo) = 1)
        /\ my_thread \subseteq Waiting("stop")
        /\ Range(todo) = {Head(todo)} \cup Range(todo')
        /\ \A i \in DOMAIN todo' :
             todo'[i].do = IF metrics_instrumented /\ i = Len(todo') THEN "deinstrument" ELSE "stop"
    BY <1>3, <2>1
  <2>3. n \in Runners /\ Head(todo) = Task("stop", n)
    BY <2>2 DEF Jobs, Task
  <2>4. metrics_instrumented => todo' # <<>>
    <3>1. Len(Tail(todo)) = Len(todo) - 1 /\ Len(todo) \in Nat
      BY <2>2, FirstAndRest, LenProperties
    <3>2. Len(<<>>) = 0
      BY EmptySeq
    <3>. QED
      BY <2>2, <3>1, <3>2
  <2>5. Waiting("stop") \subseteq Waiting("stop")' \cup {n}
    BY <2>2, <2>3 DEF Waiting, Task
  <2>6. CASE n \in my_thread
    <3>1. main' = [at |-> "join", node |-> n] /\ my_thread' = my_thread
      BY <1>5, <2>6 DEF StopNode, Threads!StopAndJoin, Threads!threads
    <3>2. n \in Midway("join")' /\ main'.at = "join"
      BY <2>3, <3>1 DEF Midway
    <3>. QED
      BY <2>1, <2>2, <2>4, <2>5, <3>1, <3>2 DEF Stopping
  <2>7. CASE n \notin my_thread
    <3>1. my_thread' = my_thread /\ main' = main
      BY <1>5, <2>7 DEF StopNode, threads
    <3>. QED
      BY <2>1, <2>2, <2>4, <2>5, <2>7, <3>1 DEF Stopping
  <2>. QED
    BY <2>6, <2>7
<1>6. CASE Deinstrument
  <2>1. Next1("deinstrument") /\ Done
    BY <1>6 DEF Deinstrument
  <2>2. /\ todo' = Tail(todo) /\ todo \in Seq(Jobs) /\ todo # <<>> /\ Len(todo) = 1
        /\ main.at = "idle" /\ Head(todo).do = "deinstrument"
        /\ my_thread \subseteq Waiting("stop")
        /\ Range(todo) = {Head(todo)} \cup Range(todo')
    BY <1>3, <2>1
  <2>3. ~metrics_instrumented' /\ my_thread' = my_thread /\ main' = main
    BY <1>6 DEF Deinstrument, Wiring!DeinstrumentMetrics, threads
  <2>4. DOMAIN todo' = {}
    BY <2>2, FirstAndRest
  <2>5. Waiting("stop") = {}
    BY <2>2, <2>4 DEF Waiting, Task, Range
  <2>. QED
    BY <2>2, <2>3, <2>4, <2>5 DEF Stopping
<1>7. CASE Proceed
  <2>1. UNCHANGED <<metrics_instrumented, todo>> /\ last = "stop"
    BY <1>7 DEF Proceed, wires, program
  <2>2. main.at \in {"idle", "join"}
    BY <2>1 DEF Stopping
  <2>3. main'.at = "idle" /\ my_thread' = my_thread \ Midway("join")
    BY <1>7, <2>2, MainSteps DEF Proceed
  <2>4. Waiting("stop")' = Waiting("stop")
    BY <2>1 DEF Waiting
  <2>. QED
    BY <2>1, <2>3, <2>4 DEF Stopping
<1>8. CASE Outside \/ UNCHANGED vars
  BY <1>8, OutsideSteps DEF Stopping, Waiting, Midway
<1>. QED
  BY <1>1, <1>2, <1>4, <1>5, <1>6, <1>7, <1>8 DEF Next, Tasks

LEMMA CallsHold == Spec => [](Inv /\ Threads!TypeOK /\ Alone!ThreadIsHeld)
<1>1. Init => Inv
  BY InitShape, InitCalls DEF Inv, Shape
<1>2. Threads!TypeOK /\ Inv /\ [Next]_vars => Inv'
  BY StepShape, StepStarting, StepStopping DEF Inv, Shape
<1>. QED
  BY <1>1, <1>2, NodesHold, PTL DEF Spec

\* When stop returns no thread is left and the graph is as it was built, whatever
\* was started or profiled before, and however threads and runs have ended
\* (GraphRoot::stop).
THEOREM StopEndsAll == Spec => []StopUndoes
<1>1. Inv => StopUndoes
  <2>1. SUFFICES ASSUME Inv, Ready, last = "stop" PROVE my_thread = {} /\ observers = built
    BY DEF StopUndoes
  <2>2. todo = <<>> /\ main.at = "idle" /\ Range(<<>>) = {}
    BY <2>1, SameRange, WalksAssumed, Walks!EmptyRange DEF Ready, Threads!At
  <2>3. Waiting("stop") = {} /\ Midway("join") = {}
    BY <2>2, NotMidway DEF Waiting
  <2>. QED
    BY <2>1, <2>2, <2>3 DEF Inv, Stopping, Wired
<1>. QED
  BY <1>1, CallsHold, PTL

\* profile and stop rewire the graph only while no spawned thread runs.
THEOREM RewiresAlone == Spec => QuietRewiring
<1>1. /\ Shape /\ Starting /\ Stopping /\ Threads!TypeOK /\ Alone!ThreadIsHeld /\ [Next]_vars
      => [observers' # observers => \A n \in DOMAIN alive : alive[n] = 0]_vars
  <2>1. SUFFICES ASSUME Shape, Starting, Stopping, Threads!TypeOK, Alone!ThreadIsHeld, [Next]_vars,
                        observers' # observers
                 PROVE  \A n \in DOMAIN alive : alive[n] = 0
    OBVIOUS
  <2>2. SUFFICES my_thread = {}
    <3>1. alive \in [Runners -> 0 .. 1]
      BY <2>1 DEF Threads!TypeOK, Runners
    <3>. QED
      BY <2>1, <2>2, <3>1 DEF Alone!ThreadIsHeld, Runners
  <2>3. CASE \E run \in Runnable \cup {NoNode} : Profile(run)
    BY <2>3 DEF Profile, MayStart
  <2>4. CASE Deinstrument
    <3>1. /\ todo \in Seq(Jobs) /\ todo # <<>> /\ Head(todo).do = "deinstrument"
          /\ main.at = "idle"
      BY <2>1, <2>4 DEF Deinstrument, Next1, Threads!At, Shape, ProgramType
    <3>2. last = "stop"
      BY <2>1, <3>1, FirstAndRest DEF Starting
    <3>3. Head(todo) = todo[1] /\ 1 \in DOMAIN todo
      BY <3>1, FirstAndRest
    <3>4. Len(todo) = 1
      BY <2>1, <3>1, <3>2, <3>3 DEF Stopping
    <3>5. Waiting("stop") = {} /\ Midway("join") = {}
      <4>1. DOMAIN todo = {1}
        BY <3>1, <3>4, LenProperties
      <4>. QED
        BY <3>1, <3>3, <4>1, NotMidway DEF Waiting, Task, Range
    <3>. QED
      BY <2>1, <3>2, <3>5 DEF Stopping
  <2>5. CASE StartNode \/ RunNode \/ StopNode \/ StopAll \/ Proceed \/ Stop
    BY <2>1, <2>5 DEF StartNode, RunNode, StopNode, StopAll, Proceed, Stop, wires
  <2>6. CASE \E run \in Runnable \cup {NoNode} : StartAll(run)
    BY <2>1, <2>6 DEF StartAll, wires
  <2>7. CASE Outside \/ UNCHANGED vars
    BY <2>1, <2>7, OutsideSteps
  <2>. QED
    BY <2>1, <2>3, <2>4, <2>5, <2>6, <2>7 DEF Next, Tasks
<1>2. Inv => Shape /\ Starting /\ Stopping
  BY DEF Inv, Shape
<1>. QED
  BY <1>1, <1>2, CallsHold, PTL DEF Spec, QuietRewiring
=============================================================================
