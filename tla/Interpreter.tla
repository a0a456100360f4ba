---------------------------- MODULE Interpreter -----------------------------
(***************************************************************************)
(* A graph that runs under Python: the threads of its RunnableNodes, which *)
(* are C++ threads, and the thread of the Python program, main, which      *)
(* calls the nodes through their bindings.  The mutexes of the nodes and   *)
(* Python's global interpreter lock, the GIL, are held at the same time    *)
(* and in either order.                                                    *)
(*                                                                         *)
(* A thread is the sequence of statements it has still to execute: that of *)
(* LibraryNodes in place of a signal, a receive or a call.                 *)
(***************************************************************************)
EXTENDS LibraryNodes

CONSTANTS
  Runnable,        \* the FrequencyGenerators, each one of which has a thread
  Main,            \* the thread of the Python program
  Calls,           \* the calls <<call, node>> that the program may make
  MaxMade          \* bound: the messages that are created

\* the calls that send a message of the program
Sends == {"signal", "signal object", "receive"}

ASSUME InterpreterAssumption ==
  /\ Runnable \subseteq {n \in Nodes : Kind[n] = "node"}
  /\ Main \notin Nodes
  /\ None \notin Nodes \cup {Main}
  /\ MaxMade \in Nat
  /\ Calls \subseteq (Sends \cup {"connect", "has_observers", ">"}) \X Nodes
                   \cup {"last_message"} \X {n \in Nodes : Kind[n] = "last"}
                   \cup {"chop"} \X {n \in Nodes : Kind[n] = "buffer"}
                   \cup {"start", "stop"} \X Runnable

\* No message is wider than a buffer: what shift_left_add did then is undefined.
ASSUME ColumnsAssumption == Width >= 2

Threads == Runnable \cup {Main}

VARIABLES
  todo,            \* todo[t]: the statements that thread t has to execute
  gil,             \* the thread that holds the GIL
  owner,           \* owner[x]: the thread that has locked mutex x
  memory,          \* memory[n]: what node n remembers
  alive,           \* the RunnableNodes whose thread runs
  asked,           \* stop_signal of the RunnableNodes
  made,            \* the number of messages created
  heard,           \* history: how many messages an EveryN has received
  passed,          \* history: how many it has signalled
  columns          \* history: the columns that a TensorRightBuffer has received

locks == <<gil, owner>>
history == <<heard, passed, columns>>
vars == <<todo, locks, memory, alive, asked, made, history>>

Init ==
  /\ todo = [t \in Threads |-> <<>>]
  /\ gil = Main
  /\ owner = [x \in Mutexes |-> None]
  /\ memory = [n \in Nodes |-> InitialMemory(n)]
  /\ alive = {}
  /\ asked = {}
  /\ made = 0
  /\ heard = [n \in Nodes |-> 0]
  /\ passed = [n \in Nodes |-> 0]
  /\ columns = [n \in Nodes |-> <<>>]

Held(t) == {x \in Mutexes : owner[x] = t}

\* t goes on with program, and then with the statements after the first one.
Continue(t, program) == todo' = [todo EXCEPT ![t] = program \o Tail(@)]

At(t, what) == todo[t] # <<>> /\ Head(todo[t])[1] = what
Arg(t, i) == Head(todo[t])[i]

\* message number k, with one column or two
NewMessage(k) == Message(FALSE, [i \in 1..(1 + (k % 2)) |-> k], 0)

-----------------------------------------------------------------------------
(* The statements.                                                         *)

LockMutex(t) ==
  /\ At(t, "lock")
  /\ owner[Arg(t, 2)] \in {None, t}
  /\ owner' = [owner EXCEPT ![Arg(t, 2)] = t]
  /\ Continue(t, <<>>)
  /\ UNCHANGED <<gil, memory, alive, asked, made, history>>

UnlockMutex(t) ==
  /\ At(t, "unlock")
  /\ owner' = [owner EXCEPT ![Arg(t, 2)] = None]
  /\ Continue(t, <<>>)
  /\ UNCHANGED <<gil, memory, alive, asked, made, history>>

AcquireGil(t) ==
  /\ At(t, "take gil")
  /\ gil = None
  /\ gil' = t
  /\ Continue(t, <<>>)
  /\ UNCHANGED <<owner, memory, alive, asked, made, history>>

ReleaseGil(t) ==
  /\ At(t, "give gil")
  /\ gil' = None
  /\ Continue(t, <<>>)
  /\ UNCHANGED <<owner, memory, alive, asked, made, history>>

\* Python code runs, and may let other threads run Python code too.
Python(t) ==
  /\ At(t, "python")
  /\ \/ Continue(t, <<>>)
     \/ Continue(t, <<GiveGil, TakeGil>>)
  /\ UNCHANGED <<locks, memory, alive, asked, made, history>>

SignalMessage(t) ==
  /\ At(t, "signal")
  /\ Continue(t, SignalBody(Held(t), Arg(t, 2), Arg(t, 3)))
  /\ passed' = IF Kind[Arg(t, 2)] = "every" THEN [passed EXCEPT ![Arg(t, 2)] = @ + 1]
                                            ELSE passed
  /\ UNCHANGED <<locks, memory, alive, asked, made, heard, columns>>

ReceiveMessage(t) ==
  /\ At(t, "receive")
  /\ \E program \in Receipts(Held(t), gil = t, Arg(t, 2), Arg(t, 3)) : Continue(t, program)
  /\ heard' = IF Kind[Arg(t, 2)] = "every" THEN [heard EXCEPT ![Arg(t, 2)] = @ + 1]
                                           ELSE heard
  /\ UNCHANGED <<locks, memory, alive, asked, made, passed, columns>>

UpdateMemory(t) ==
  /\ At(t, "update")
  /\ LET n == Arg(t, 2)
         how == Arg(t, 3)
         m == Arg(t, 4)
     IN  /\ Continue(t, AfterUpdate(n, memory[n], how, m))
         /\ memory' = [memory EXCEPT ![n] = Updated(@, how, m)]
         /\ columns' = IF how = "add" THEN [columns EXCEPT ![n] = @ \o m.cols] ELSE columns
  /\ UNCHANGED <<locks, alive, asked, made, heard, passed>>

\* A node remembers m, or a function that was called with it has not returned.
InUse(t, m) ==
  \/ \E n \in Nodes : Kind[n] = "last" /\ memory[n] = m
  \/ \E s \in Threads : \E i \in DOMAIN todo[s] :
       /\ s # t \/ i # 1
       /\ todo[s][i][1] \in {"signal", "receive", "update", "release"}
       /\ Last(todo[s][i]) = m

\* the deleter of a MessagePtr that type_caster::load made of a Python object
Deleter(t, m) == IF m.python THEN WithGil(gil = t, <<>>) ELSE <<>>

ReleaseMessage(t) ==
  /\ At(t, "release")
  /\ Continue(t, IF InUse(t, Arg(t, 2)) THEN <<>> ELSE Deleter(t, Arg(t, 2)))
  /\ UNCHANGED <<locks, memory, alive, asked, made, history>>

\* RunnableNode: start does nothing if there is a thread.
StartThread(t) ==
  /\ At(t, "start")
  /\ alive' = alive \cup {Arg(t, 2)}
  /\ asked' = IF Arg(t, 2) \in alive THEN asked ELSE asked \ {Arg(t, 2)}
  /\ Continue(t, <<>>)
  /\ UNCHANGED <<locks, memory, made, history>>

AskToStop(t) ==
  /\ At(t, "request stop")
  /\ asked' = asked \cup {Arg(t, 2)}
  /\ Continue(t, <<>>)
  /\ UNCHANGED <<locks, memory, alive, made, history>>

JoinThread(t) ==
  /\ At(t, "join")
  /\ Arg(t, 2) \notin alive
  /\ Continue(t, <<>>)
  /\ UNCHANGED <<locks, memory, alive, asked, made, history>>

Execute(t) ==
  \/ LockMutex(t) \/ UnlockMutex(t) \/ AcquireGil(t) \/ ReleaseGil(t) \/ Python(t)
  \/ SignalMessage(t) \/ ReceiveMessage(t) \/ UpdateMemory(t) \/ ReleaseMessage(t)
  \/ StartThread(t) \/ AskToStop(t) \/ JoinThread(t)

-----------------------------------------------------------------------------
(* FrequencyGenerator::child_thread_fn: the loop, and on_trigger after a   *)
(* sleep of some length.                                                   *)

Trigger(n) ==
  /\ n \in alive /\ todo[n] = <<>>
  /\ n \notin asked
  /\ made < MaxMade
  /\ made' = made + 1
  /\ todo' = [todo EXCEPT ![n] = <<Signal(n, NewMessage(made'))>>]
  /\ UNCHANGED <<locks, memory, alive, asked, history>>

LoopEnds(n) ==
  /\ n \in alive /\ todo[n] = <<>>
  /\ n \in asked
  /\ alive' = alive \ {n}
  /\ UNCHANGED <<todo, locks, memory, asked, made, history>>

\* The program calls a binding, if it sends something with a new message.
Call ==
  /\ todo[Main] = <<>>
  /\ \E c \in Calls :
       /\ made' = IF c[1] \in Sends THEN made + 1 ELSE made
       /\ made' <= MaxMade
       /\ todo' = [todo EXCEPT ![Main] = Binding(c[1], c[2], NewMessage(made'))]
  /\ UNCHANGED <<locks, memory, alive, asked, history>>

\* It does something else.
Pause ==
  /\ todo[Main] = <<>>
  /\ todo' = [todo EXCEPT ![Main] = <<RunPython>>]
  /\ UNCHANGED <<locks, memory, alive, asked, made, history>>

Next ==
  \/ \E t \in Threads : Execute(t)
  \/ \E n \in Runnable : Trigger(n) \/ LoopEnds(n)
  \/ Call \/ Pause

Spec == Init /\ [][Next]_vars

\* The scheduler runs every thread, and a thread goes on with its statements;
\* the loop of a FrequencyGenerator sees stop_signal.
FairSpec ==
  /\ Spec
  /\ \A t \in Threads : WF_vars(Execute(t))
  /\ \A n \in Runnable : WF_vars(LoopEnds(n))

-----------------------------------------------------------------------------
(* Properties.                                                             *)

\* the threads that must move before t can
WaitsFor(t) ==
  CASE At(t, "lock") -> {owner[Arg(t, 2)]} \ {None, t}
    [] At(t, "take gil") -> {gil} \ {None}
    [] At(t, "join") -> {Arg(t, 2)} \cap alive
    [] OTHER -> {}

\* No threads wait for each other, for a mutex, for the GIL or for the end of a
\* thread (the call_guards in pybindings.cpp).
NoDeadlock ==
  \A S \in SUBSET Threads : S # {} => \E t \in S : WaitsFor(t) \cap S = {}

\* "a node that just remembers the last message, in a thread-safe way"
\* (pybindings.cpp:311): a thread that waits to read it, or to replace it, does
\* not wait for a thread that waits for it.
LastMessageIsSafe ==
  \A t, s \in Threads :
    At(t, "lock") /\ Arg(t, 2) = OwnMutex(Arg(t, 2)[1]) /\ Kind[Arg(t, 2)[1]] = "last"
      => ~(s \in WaitsFor(t) /\ t \in WaitsFor(s))

\* n observes one node, p, and nothing else sends to it.
OnlyThrough(n, p) ==
  /\ p \in Nodes
  /\ \A o \in Nodes : n \in Range(Observers[o]) <=> o = p
  /\ \A c \in Calls : c[2] = n => c[1] \notin Sends

\* The last node n observes the buffer b alone, and the program makes b signal
\* nothing but what it holds.
RemembersBuffer(n, b) ==
  /\ OnlyThrough(n, b)
  /\ Kind[n] = "last" /\ Kind[b] = "buffer"
  /\ \A c \in Calls : c[2] = b => c[1] \notin {"signal", "signal object"}

\* above is n and all that signals to it, and there is no buffer among them.
BelowNoBuffer(n, above) ==
  /\ above \subseteq Nodes /\ n \in above
  /\ \A o \in above : Kind[o] # "buffer"
  /\ \A o \in Nodes : Range(Observers[o]) \cap above # {} => o \in above

\* There is no cycle: depth grows along the connections.
LeadsDown(depth) ==
  /\ depth \in [Nodes -> Nat]
  /\ \A n \in Nodes : \A o \in Range(Observers[n]) : depth[n] < depth[o]

Inside(n) == \E t \in Threads : \E i \in DOMAIN todo[t] :
               todo[t][i][1] = "update" /\ todo[t][i][2] = n

\* "A Node that signals every n'th received message" (every_n.h), the first one
\* of each n, although it counts without a lock and several threads may send to
\* it: all of them come through one node's signal.
EveryNthIsSignalled ==
  \A n \in Nodes : Kind[n] = "every" /\ ~Inside(n) =>
    passed[n] = (heard[n] + Nth - 1) \div Nth

\* A TensorRightBuffer holds the last columns that it received, whichever thread
\* brought them, save those that were chopped, and it has counted them all;
\* "New information is always at the right end" (tensor_buffer.h).
WindowHolds ==
  \A n \in Nodes : Kind[n] = "buffer" =>
    LET all == columns[n]
        before == Len(all) - Width
    IN  /\ memory[n].count = Len(all)
        /\ \A i \in 1..Width :
             memory[n].cols[i] \in {Filler} \cup {all[j] : j \in {before + i} \cap DOMAIN all}
        /\ all # <<>> => memory[n].cols[Width] = Last(all)

\* Whoever is below a TensorRightBuffer receives its buffers in the order of
\* their counts (the signal in TensorRightBuffer::receive, under its mutex).
SnapshotsInOrder ==
  [][\A n \in Nodes :
       Kind[n] = "last" /\ memory[n] # None => memory'[n].count >= memory[n].count]_vars

\* stop returns: the thread that it waits for can take the GIL and every mutex
\* that it needs to come to the end of its loop (call_guard of stop).
StopReturns ==
  \A n \in Runnable : (At(Main, "join") /\ Arg(Main, 2) = n) ~> (todo[Main] = <<>>)

=============================================================================
