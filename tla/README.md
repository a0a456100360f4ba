# A TLA+ model of roboflex

roboflex is a C++ library for robots: a program is a graph of *nodes* that pass
*messages* to each other by direct calls. Some nodes have threads, and any
thread walks the graph below the node that it makes signal. This directory
holds TLA+ modules that model the library - its threads, locks and lifecycles, its
data files, its messages and their codecs, and the way it runs under Python's
interpreter lock - TLC configurations that check them, and proofs for TLAPS. Paths below are relative
to the repository.

    tlc -config MCNode.cfg MCNode.tla             # a run
    tlapm NodeProofs.tla                          # the proofs of a module

## 1. The system

### Components

| component | state | operations | interacts by |
|---|---|---|---|
| Node (`node.cpp`, `node.h`) | observer list, recursive mutex, send counter | `connect`, `disconnect`, `signal`, `signal_self`, `receive`, `get_observers` | `notify_observers` calls `receive_from` of each observer with the mutex held |
| Walks and filter (`node.cpp`) | none of their own | `walk_nodes`, `walk_connections`, `filter_nodes` | callbacks on nodes and connections |
| RunnableNode (`node.cpp`) | `my_thread`, `stop_signal`; the globals `running_node` and the SIGINT handler | `start`, `stop`, `request_stop`, `run` | a thread per node; a signal handler |
| Producer, Event (`producer.h`, `event.h`) | last message, its mutex, an event | `receive`, the thread's loop, `set`, `clear`, `wait_once`, `wait` | upstream threads wake the node's own thread |
| GraphRoot (`graph_root.cpp`) | `_node_to_run`, trigger, `metrics_instrumented` | `start`, `start_all`, `profile`, `stop` | walks that start, stop and rewire |
| MetricsNode, MetricsPublisherNode (`metrics.cpp`) | five trackers and a mutex; indexes per source | `receive`, `record_metrics`, `publish_and_reset`, `reset` | the recording thread, the trigger's thread, the user |
| take (`take.cpp`) | a vector and an event on the caller's stack | `take`, `take1` | a callback run by other threads |
| Message (`message.cpp`, `message.h`, `message_backing_store.cpp`) | a buffer with a `_meta` header | constructors, `set_sender_info`, field access | shared by all threads that pass it on |
| Library nodes (`every_n.h`, `last_one.h`, `tensor_buffer.h`, ...) | a counter, a last message, a window of columns | `receive`, `get_last_message`, `chop` | as observers; some lock a mutex of their own |
| FrequencyGenerator (`frequency_generator.cpp`) | `frequency_hz` | thread loop, `set_frequency` | signals; the trigger of a profile |
| UniversalDataSaver, UniversalDataPlayer | an open stream and its buffer, position and flags | `receive`, `flush`, `set_file_path`; `produce`, the thread's loop | the file |
| Core messages, tensor serialization | none | write and read tensors, `set_value`, `copy_flex` | the bytes of a message |
| Python codecs (`dynoflex.py`, `flextensors.py`) | none | `_serialize`, `flex_decode` | the same bytes |
| Python bindings (`pybindings.cpp`, `pybindings.h`) | the GIL, references to Python objects | calls with and without the GIL, trampolines, the deleter of a message | Python `receive` and threads |
| Utilities; build files and examples | none | system calls | |

`PROJECT.json` lists each with its status and sources.

### What is hard

* **Everything happens under locks that are held for long.** `notify_observers`
  keeps a node's mutex while its observers work, so a thread holds the mutexes of
  the whole chain above it, while other threads enter the same graph elsewhere
  and callbacks edit the very lists that are being iterated.
* **State read outside the lock that protects it.** `signal` stamps a message
  with the counter before it takes the mutex; `Producer` clears its event after
  it has released the mutex; `run` clears `stop_signal` after SIGINT is enabled.
* **Lifecycles.** Threads start, end by themselves, are asked to stop and are
  joined; a stop must not outlive the start that follows it.
* **Whole-graph operations.** Cycles, repeated connections and several paths to
  a node; profiling rewires every connection and must give the graph back.
* **Stack memory shared with other threads** (`take`).
* **Two kinds of locks.** Under Python each thread may hold the GIL, the mutexes of the
  nodes above it and the mutex of a LastOne, a buffer or a saver, and wants the
  others; a call that keeps the GIL, or a message whose last reference is dropped in
  the wrong place, can close a circle.
* **Files that end anywhere.** The saver's stream hands over its buffer when it
  likes and a process may die at any moment; what is left is appended to, and played.
* **One format, many codecs.** C++ writes tensors in two ways, Python in a third, and
  nodes on the way copy what they do not know.

The list with lines is under `hazards` in `PROJECT.json`.

### What makes each component correct

* Node: one loop per observer list, iterators that stay valid, nobody skipped,
  notifications in order, no circular wait, a message keeps its first sender.
* Walks: every node and connection once; receivers before senders.
* RunnableNode: at most one thread per node, none after `stop`; a thread ends
  only when it was asked to in this life; `stop` and an interrupted `run` return.
* Producer: no message produced twice, none awaited for ever, `stop` returns.
* GraphRoot: receivers have threads before senders; connections change at rest;
  `stop` and SIGINT undo everything.
* Metrics: each value is published once, in messages whose trackers agree; the
  trackers hold the statistics of exactly the values since their reset.
* take: consecutive messages, and no callback after it has returned.
* Files: whole records but for the places of crashes; a player plays what was
  recorded, without repeating or skipping, and comes to the end.
* Library nodes and bindings: no circle of mutexes, GIL and joins; every n-th message;
  the window of a buffer holds the last columns and is passed on in order.
* Messages: values survive copies, all codecs read one tensor alike, a header has the
  name, guid and counter of one node.

## 2. The modules

| module | models | proofs |
|---|---|---|
| `Multicast` | abstract: what a node promises its observers | `NodeProofs` |
| `Node` | node lists, mutexes, call stacks, messages | `NodeProofs` |
| `Producer` | Producer with its Event | `EventProofs` |
| `RunnableNode` | threads, `run`, SIGINT | `RunnableNodeProofs` |
| `Graph` | walks, `filter_nodes`, instrumentation | `GraphProofs` |
| `GraphRoot` | composes `RunnableNode` and `Graph` by INSTANCE | `GraphRootProofs` |
| `Take` | `take` and `Event::wait` | `EventProofs` |
| `Metrics` | recording, publishing and resetting | `MetricsProofs` |
| `DataFile` | UniversalDataSaver, the file, crashes, UniversalDataPlayer | `DataFileProofs` |
| `LibraryNodes` | operators: the statements of every `receive` and binding | |
| `Interpreter` | threads that execute them with mutexes and the GIL | `InterpreterProofs` |
| `FlexCodec` | operators: FlexBuffer values, `copy_flex`, the tensor codecs | |
| `Messages` | messages that are made, shared, copied, signed and overwritten | |

Each `MC` module gives the constants their values for TLC. Definitions that are
preceded by *Faulty* are mutated forms of the definition after them: replacing
that definition by its faulty form must break a property, which shows that the
property can fail. They are used nowhere else.

### Node and Multicast

A call of `signal` is a *frame* of a thread's stack. Its `pc` says where it is:
before `set_sender_info`, waiting for the mutex, in the loop over the observers,
or after `notify_self` has counted. `SetSenderInfo`, `LockObservers` (the mutex
is taken and the counter goes up), `Deliver` (one observer receives; a
pass-through observer pushes a frame), `Return` (the mutex is released) are the
steps between which other threads run. The `std::list` is a set of list nodes
`[at, to]`, ordered by `at`, so that an iterator is a number that survives the
erasure of other list nodes as a list iterator does. `Kind` says what a node does
with a message: ignore it (`sink`), pass it on, filter it, make a new one, or
copy it with or without its header. `Connect` and `Disconnect` happen in user code:
outside every call, or in a callback, there on nodes whose mutex the thread holds
already. Two things are kept out, both undefined or unbounded in the code: a
callback that erases the list node it is called from, and a callback that waits
for another node's mutex only to edit its list.

`Multicast` has no threads, locks or stacks: a notification begins, goes through
each connection that is due, and ends, one at a time for each node. `Node!Abstract`
maps `links` to the lists, `sent` to the counters, `due` to what lies ahead of the
iterator. `SerialMulticast` says that `Node` implements it.

Assumed of the program: the graph is acyclic (`Height`). The library does not
check that, and a message in a cycle recurses without end.

### Producer

`Store` and `Set` are the two halves of `receive`, with `last_message_mutex` held
across both. The thread's statements are `Loop`, `WaitOnce`, `Wake` (by the event
or by its timeout), `GetLatestMessage`, `Clear` and `Produce`. Messages are
numbered, so that older and newer can be told apart. `Start`, `RequestStop` and
`Join` are another thread's.

### RunnableNode

One thread, `main`, is at one point of one operation. `Start` and `Spawn` are the
two halves of `start`; `StopAndJoin` and `Join` of `stop`; `Run`, `Install`, `ClearStop`,
`BodyReturns`, `Forget` and `Restore` are `run` and its `SignalStacker`.
`Interrupt` is the handler at one of the points `InterruptAt`; `Crash` is a handler
that finds `running_node` null. `ChildReturns` is the end of a thread, after a stop
or, for `EndsItself`, before. `StartAgain` is `start` on a node that still has
`my_thread`, which does nothing.

### Graph and GraphRoot

`Graph` treats a graph as a function from nodes to sequences, and an operation as
one step. `Traversal` is the recursion that the walks and `filter_nodes` share, as a
recursive function of a *loop* over a node's observers: the node, the place in its list,
and the *trail* of the walk so far, which is the set `visited`, the connections by which
nodes were `entered`, the nodes it has `left`, and the connections it went `down` and came
`up`. The four walks are fields of the trail at the end. A recursive call takes the trail
with it, as the code passes its set by reference.
`Filtered`, `Instrumented` and `Collected` apply the callbacks in the order of the
walk. They change the graph under the walk, which sees the lists as they were: it
copies each one (`get_observers`) when it reaches the node, before a callback
changes it. `Profiles` (`AllMetered` and `RoundTrip`) and `PrunesSparse` are stated with
these operators for every graph the edits can build. `instrument_metrics` creates a
MetricsNode per connection; here they come from `MetricsNodes`, and `InstrumentMetrics`
asks that these suffice, which they do (section 4). `Without` and `ForEach` are folds
rather than SelectSeq, of which the provers know nothing.

`GraphRoot` keeps the list of calls an operation has still to make (`todo`) and
carries them out with the actions of `RunnableNode`, so threads end and SIGINT
comes between any two. Wiring changes in one step each, after `Graph`.

### Take

`taker` goes through `take`; a signaller locks the node, calls the callback
if it is connected (`Push`, then `SetEvent` when the vector is full) and unlocks.
`TimeOut` is the expiry inside `Event::wait`, which goes back to sleep. `Take` and `Producer`
share no name, as `EventProofs` extends both.

### Metrics

`Receive` measures, `RecordBegins`, `RecordOne` and `RecordEnds` are
`record_metrics` under `mtx`, one tracker per step; `PublishBegins` copies the
trackers into the message, `ResetOne` resets one, `PublishEnds` unlocks. The user's
`reset` takes no mutex: `ResetBegins` waits until nothing is recorded or published,
as anything else is a data race. Doubles are integers: means and variances count
1/`Scale`, and `ScaleAssumption` makes every division of Welford's recurrence exact for
the messages of the run, so that `TracksSamples` can compare with the definition of
mean and variance. `Receive` takes any counter of any source, equal and smaller ones too, as
the code does; `skipped` remembers which messages of a source had not come when a later one
did, `disordered` the sources that did not keep their order.

### DataFile

A file is a sequence of units, two for a record's size and one or more for its data, so
that it may end anywhere in a record. `disk` is what the files hold, `buffer` what the
saver's stream has not handed over: `Flush(k)` hands over any part of it, for the explicit
`flush` and for the writes that find the buffer full. `Receive`, `WriteSize`, `WriteData`
and `SignalOn` are `receive` under its mutex; `SetFilePath` closes one file and opens the
other; `Crash` loses the buffer and everything in memory. `tears` remembers the places at
which a crash left a part of a record. The player is a record of its stream's position,
`eofbit` and `failbit` and its thread's flags. `ReadAndSignal` reads a size, and what follows
as that many bytes; what is no record is taken for any size and played as `Garbled`. `PlayNext`
and `RunOut` are the loop of `child_thread_fn`, `Produce` is `produce`, with the same stream.
To signal what is garbled is undefined behaviour: `set_sender_info` writes to the places that
the bytes name. Two outcomes are modelled: nothing that matters comes of it
(`ReadAndSignal`), or the process dies (`DiesOfGarbage`), as it also does when a garbled size
cannot be allocated. What else a stray write may do to the process is not modelled.
Assumed: a file is not recorded while it is played.

### LibraryNodes and Interpreter

`LibraryNodes` says what a `signal`, a `receive` or a call of a binding *is*: a sequence of
statements - lock, unlock, take or give the GIL, run Python code, update a node's memory,
signal a message, release a reference, start, stop, join. `Interpreter` executes them: each
thread has a sequence `todo`, and one action per statement replaces the first one by what
it stands for. So the locks that a thread holds when it reaches a node are those of the
way it took. `WithGil` and `WithoutGil` are pybind11's scoped acquire and release;
`Python` may lose the GIL to another thread and get it back, as the interpreter does
between any two bytecodes. A message made in Python, or handed over by a
binding, has a deleter that takes the GIL
(`Deleter`), executed by whoever drops the last reference. `Trigger` and `LoopEnds` are the
loop of FrequencyGenerator; `Call` and `Pause` are what the Python program does.

A time is not modelled, so `set_frequency` changes nothing here. `Node` is not composed
with `Interpreter`: the graph is fixed, and the observer lists are read, not edited.
Assumed: no message is wider than a buffer (`ColumnsAssumption`; the messages of the model
have one column or two), as what `shift_left_add` does with one that is, is undefined.

### FlexCodec and Messages

A FlexBuffer value is `[type, of]` with the types of the library; a tensor is a function from
places to elements, and its data the sequence of its elements in the order in which
they lie in memory. `Copied` is `copy_flex`, `XtensorMap`, `EigenMap`, `NumpyMap` and `Serialized`
write, `XarrayOf`, `XtensorOf`, `EigenOf`, `Loaded` and `Decoded` read, with the refusals
(`Thrown`) of the code. Type numbers are positions in the tables of `flex_tensor_format.h` and
`flextensors.py`, two tables that must agree. `flexbuffers.py` is a copy of that library: `Loaded`
says what its users get from it.

`Messages` puts these values into messages. A message object points to a store; `View`
makes another object of the same store, `Send` copies the bytes. `Copy` and `TakeHeader` are the
constructors that take the data, or the header, of another message; `Signed` is
`set_sender_info`, with the name that is too long and throws halfway; `SetValue` overwrites a
tensor in place, in every object that shares it. `meant` remembers which payload was put
under each key, so that the properties compare what is read with what was meant, and
`signer` the node that signalled a store first. `AsRead` is what Python would read if nothing
were lost: the properties name the kinds of data (`KindOf`) that they leave out.

## 3. The runs

| run | checks | shows |
|---|---|---|
| `node` | `LoopIntact`, `NoDeadlock`, `ProvenanceKept`, `SerialMulticast`, `SignalReturns` | two threads signal at two nodes of a graph with two paths to one observer, and edit it wherever they may |
| `producer` | `NewerAndNewer`, `WokenIsProduced`, `StopReturns` | nothing twice; a message that is there when the event is set is produced, or a newer one; a stop is heard |
| `runnable` | `ThreadIsHeld`, `OnlyWhenAsked`, `StopReturns` | every order of start, stop, run, the end of a thread and SIGINT |
| `runnable_early_interrupt` | `InterruptStops`, violated | SIGINT before `stop_signal = false` is forgotten |
| `graph` | `WalkedOnce`, `ObserversFirst`, `Profiles`, `PrunesSparse` | every graph of four nodes and four connections |
| `root` | `StopUndoes`, `QuietRewiring`, `InterruptEndsProfile` | start, profile and stop again and again |
| `take` | `NoLateCallback`, `ExactlyWanted`, `TakeReturns` | three in a row, and a dead stack is never touched |
| `metrics` | `TracksSamples`, `NoGapOverlooked`, `MissedAreSkipped`, `AllAlike`, `NothingLost`, `AllPublished` | recording messages in any order, publishing, resetting at once |
| `data_file` | `WholeRecords`, `PlaysIntact`, `SkipsNothing`, `PlaysToTheEnd` | two threads record while paths change and the process dies; a player plays what is left |
| `interpreter` | `NoDeadlock`, `EveryNthIsSignalled`, `WindowHolds`, `SnapshotsInOrder`, `StopReturns` | a C++ thread and a Python program in one graph of library nodes |
| `last_one` | `LastMessageIsSafe`, violated | `last_message` read from Python while its node drops a Python message |
| `messages` | `ValuesIntact`, `PythonReads`, `TensorsAgree`, `HeaderIsOfSource` | messages of thirteen payloads, three deep |

The two violated properties are findings; `PROJECT.json` quotes the lines of the
repository that say otherwise.

What the other properties do not ask, because the code does not do it (section 5 says which
configuration has the behaviour):

* `WokenIsProduced` asks only for what is there when the event is set. A message stored after
  the fetch and before the clear is not, and the timeout does not bring it: `wait_once`
  returns `isSet_`, which is false then.
* `PrunesSparse` is about rejected nodes with one parent, that is kept.
* `TracksSamples` asks for the maximum only if a value is positive.
* `MissedAreSkipped` is about sources whose counters came in order (not in `disordered`);
  `NoGapOverlooked` is about all. Two threads that signal one node do repeat and swap its
  counters, see `SetSenderInfo` of `Node`.
* `PlaysToTheEnd` is about files that no crash cut off. Behind a tear the player may go on or
  the process may die (`DiesOfGarbage`).
* `PythonReads` leaves out None, bool, a tensor in a plain dict, arrays of rank 0 and
  dicts with a part of the keys of a tensor; `TensorsAgree` leaves out numpy on rank 0, and asks
  of a matrix in column order only that Eigen reads it back.
* `TakeReturns` is about enough messages; the timeout of `take` does not end it.

### Bounds, and why they are enough

* `node`: three nodes in a triangle, two threads, two messages, two places
  in each list, and one own signal of each node. Two threads and one node with two
  observers suffice for every overlap of two loops with an edit; the triangle gives
  the second path to an observer and the lock order of two nodes. `FromTop` lets one
  thread enter below the other. The middle node passes a message on or does not; the
  last one copies it with its header and signals the copy.
* `producer`: two upstream threads, four messages, two starts: one message before,
  one in and one after the window between fetch and clear, and a stop in each.
* `runnable`: two nodes, one of which ends by itself, and four calls, enough for
  start, stop and start again of one node around a run of the other.
* `graph`: all 4-node graphs with up to four connections, cycles, loops and
  repeated connections among them. A violation of a walk needs a node with two
  parents (three connections), or a cycle below such a node (four).
* `root`: a fork with a node reachable by two paths and a reverse insertion order,
  three connections, a MetricsNode more than they need, eight calls: a whole profile and
  its stop, and a start after it. `GraphsAssumption` says what a program may build: it
  connects nodes of its own, and nothing to the root.
* `take`: n = 3 of at most 6 messages, two signallers: messages before, during
  and after.
* `metrics`: two sources, counters to 2, two kinds of samples (one with a latency
  that is negative), three messages, one reset by the user: a gap in one source while the
  other comes, or a message behind a later one and one after that. `Scale = 36` is a multiple of
  1 * 2 and 2 * 3, which is what `ScaleAssumption` asks for three messages.
* `data_file`: two threads, a message of one unit and one of two, two files, seven
  units: two records in one file and a torn one, or one in each file, with a change of
  path, a crash and an append between any two units, and a player before and after.
* `interpreter`: twelve nodes, so that each kind of library node occurs, one generator
  thread and the program, four messages with one or two columns; n = 2, a window of 3
  and a chop of 2, so that the count wraps and the window overflows. The program makes
  the calls that are safe where it makes them (`SafeCalls`). `DepthAssumption` says that this
  graph and these calls are of the kind that `SignalsEveryNth` and `SnapshotsStayInOrder` are
  proved for.
* `messages`: three Message objects over three stores: a copy of a copy. Thirteen
  payloads: the types of FlexBuffers, ranks 0 to 2, matrices in both orders, arrays whose
  type has no C++ counterpart, and nested Python data, also such as does not come back, two of which are also written
  into copies; a node whose name fits and one whose name is too long.

`CHECK_DEADLOCK FALSE` stands in the runs whose program may end: all calls made,
all messages sent or made. `node`, `graph`, `metrics`, `data_file` and `interpreter`
always have a step left and check for deadlock.

### Fairness, and why the code justifies it

Each thread that is inside library code goes on with it: weak fairness of its next
statement, since nothing but a mutex or a wait can hold it up and the scheduler
runs every thread. No fairness is assumed of what a program or a user may or may
not do: signalling, connecting, starting, SIGINT, ending by itself, expiry of `take`'s
timeout. In detail:

* `Node`: weak fairness of `InCall` for each thread. A waiting thread gets the mutex
  as each thread makes finitely many own signals.
* `Producer`: the thread's steps, and `Wake` when the event is set or a timeout is
  running (`MustWake`): spurious wake-ups may come and need not.
* `RunnableNode`, `GraphRoot`: `main` goes on, unless it is in the body of `run` and
  has not been asked to stop; a child thread returns once `stop_signal` is set, which is
  what `child_thread_fn` must do.
* `Take`: strong fairness of the caller, who needs the mutex that signallers take
  again and again, and weak fairness of each signaller inside `notify_observers`.
* `Metrics`: strong fairness for the two steps that take `mtx`, for the same reason.
  The trigger signals for ever, so `PublishBegins` by it is fair.
* `DataFile`: the player's thread (`Playing`); recording, starting and crashes are free.
* `Interpreter`: each thread's next statement, and the end of the generator's loop once
  `stop_signal` is set. Mutexes and the GIL are only weakly fair: there are two threads, and
  finitely many messages.

## 4. What is proved

Checked by TLAPS for all values of the constants, any number of nodes, threads,
messages and calls:

| module | theorems |
|---|---|
| `NodeProofs` | `TypeCorrect`, `OneLoopPerNode`, `LoopsIntact`, `DeliveryInOrder`, `DeadlockFree`, `ProvenanceIsKept`, `ImplementsMulticast` |
| `EventProofs` | of Producer: `TypeCorrect`, `NoIdleWakeUp`, `NothingTwice`; of take: `TakeTyped`, `StackIsSafe`, `TakesInARow` |
| `RunnableNodeProofs` | `TypeCorrect`, `OneThreadEach`, `StopsAreAsked` |
| `GraphProofs` | `Typed`, `WalksOnce`, `ObserversComeFirst`, `FilterPrunesSparse`, `ProfilingIsUndone` |
| `GraphRootProofs` | `UsesTheNodes`, `StopEndsAll`, `RewiresAlone` |
| `MetricsProofs` | `TypeCorrect`, `LosesNothing`, `PublishesAlike`, `OverlooksNoGap`, `CountsMissedOnce`, `TracksAll` |
| `DataFileProofs` | `SaverTypeCorrect`, `RecordsAreWhole`, `PlayedAsSaved`, `NothingSkipped` |
| `InterpreterProofs` | `TypesHold`, `BuffersHoldTheirWindow`, `SignalsEveryNth`, `SnapshotsStayInOrder` |

Each rests on an inductive invariant (`IInv` or `Inv`) that holds initially, is kept
by every step and implies the property; TLC was first asked whether it holds on the
instances of the runs. The assumptions are the named `ASSUME`s of the modules,
evaluated by TLC in every run. Those of the graph say that there are finitely many nodes,
that nothing observes the root, and that no MetricsNode is created twice or is a node of the
program.

* **NodeProofs.** `LoopIntact` is `CursorValid` (the iterator stands on a list node) and
  `DeliveredPrefix` (nobody behind it was skipped), neither of which is inductive: that an
  edit spares the iterator of a loop needs to know that the editor holds the node's
  mutex or nobody is in a loop of the node, which is `MutualExclusion`; that is kept
  by `Return` only because a thread is in a node at most once, which is `Nested`
  (the frames of a stack lead down the graph, from `ListsOK`: edges lead down). That
  a delivery goes to nobody twice or out of order needs `Tickets`: a loop under way
  is the last notification its node counted. `DeadlockFree` is an argument of its own:
  among the threads of a supposed circle the one that waits for the lowest node waits
  for an owner that is deeper in the graph still (well-founded by `Height`).
  `ProvenanceIsKept` rests on two facts about messages: those that nobody has created are
  unsigned, and a call under way carries one that has been created.
* **`ImplementsMulticast`.** Under the mapping a node notifies (`Busy`) while its mutex has an
  owner, and what is due (`Due`) is what lies ahead of the iterator of its loop. There is
  one loop of a node at most, so `Ahead` is about one iterator (`AheadOfLoop`), and none
  where the mutex is free (`AheadOfFree`). `LockObservers`, `Deliver`, `Return`, `Connect`,
  `Disconnect` and the count of `notify_self` are one step of `Multicast` each, every other
  step changes nothing there; `Return` finds nothing due because the iterator is at the end.
* **EventProofs.** `SetMeansNew` needs to know what the mutex protects: a receive
  under way has stored something new (`StoredIsNew`), and the thread that goes to
  fetch was woken for something new (`FetchIsDue`), since a fetch cannot come between
  `Store` and `Set`. For take, `ExactlyWanted` needs that the vector is filled only while the
  callback is connected, that it ends in the last message signalled while more are wanted
  (`UpToDate`), and that the event means a full vector.
* **RunnableNodeProofs.** `ThreadIsHeld` needs that `Spawn` is reached only with no
  `my_thread`; `OnlyWhenAsked` that whoever sees `stop_signal`, or is about to, was asked.
* **GraphProofs.** The invariants are little: the graph is one (`TypeInv`), and while it is
  profiled it is what instrumentation makes of a graph of the program (`Profiled`). The work is
  in what a walk collects from any graph.
  - *The walk ends.* `Traversal` is a recursive function, and that a function satisfies its
    recursive definition has to be proved. Each loop that a loop calls has less `Work`: fewer nodes
    are unvisited, or as many and fewer observers remain. `SolutionFor` takes the least amount of
    work for which there is no function, and makes one from those for less.
  - *Induction over a walk.* With that, `Reached` is a set of loops that contains the first one
    and, with a loop, those it calls, and `Ended` the trails with which they may end; so what is true of
    all of `Ended` is true of the trail at the end. `WalksOnce` is about trails that are `Orderly` -
    what was left was visited, with all its observers - and list the observers of each node in the order
    of its list (`ListedEnds`). `ObserversComeFirst` adds that the loops a loop is part of are
    above it (`Nested`), so in a graph without cycles an observer that was visited and is not left
    cannot be. `Below` is a fold with a fixed number of rounds; `BelowIsLeast` shows that the rounds
    suffice.
  - *Callbacks in the order of the walk* are folds, and a fold is the value of a function that
    makes its steps (`FoldsBy`). `FilterPrunesSparse` says after each step which observers
    are kept (`Kept`). For `ProfilingIsUndone`, `Metering` says of each step of the instrumentation
    which connections are still the program's and which have a MetricsNode, and `Metered` what has
    become of the graph; `Unmetering` does the same for the filter. The order comes back because
    the backward walk goes through the connections of a node in the order of its list, and
    instrumentation and filter both append at the end.
  - *MetricsNodes suffice*: a walk goes over each connection at most once, and there are at most
    `MaxLinks` (`WalkIsShort`); so the guard of `InstrumentMetrics` keeps nothing out.

  `Profiled` says that there is a graph among infinitely many, so TLC cannot evaluate it. What
  `root` has for it is `built`, the graph that there was.
* **GraphRootProofs.** `Shape` (the tasks are calls on threads that there are, and the graph is
  `built`, or `built` instrumented) is enough to see that each step is one of `RunnableNode`
  or changes none of its variables. That is `UsesTheNodes`: GraphRoot uses nodes' threads only by what
  RunnableNode offers; so `OneThreadEach` and `StopsAreAsked` hold of its program too. `StopUndoes` needs two invariants.
  `Starting`: until stop is called, whatever has a thread or will get one is among the
  nodes that stop would stop, which is true because the walk that starts and the one that stops
  come to the same nodes (`WalksMeet`, from `WalksOnce`), with MetricsNodes between them or
  without. `Stopping`: from then on whatever has a thread is still to be stopped, and if the graph
  is profiled the task that gives it back is still to come. A thread that ends by itself or SIGINT
  between two calls changes none of this. `RewiresAlone` needs `Stopping` too: all stops come
  before the rewiring, so that nobody has a thread then.
* **MetricsProofs.** `NothingLost` counts a tracker's values as published from the moment
  they are copied. `AllAlike` is about messages, the invariant about the trackers at
  every step: `Level` is the count a tracker will have when the operation under way is
  over, and `LevelsAgree` says all trackers come to the same one. That Dt may be behind
  by one, and by no more, needs `FirstIsFirst`: before the first message is recorded
  nothing is counted. `MutexHeld` makes the operations exclude each other.
  `OverlooksNoGap` and `CountsMissedOnce`: what a message finds missing is a number of
  counters, which `MissedInv` splits into what has been recorded and what the recorder
  still carries (`Unrecorded`). In any order that is at least what is newly skipped
  (`NewlySkipped`, `SkippedCounted`); in order it is the gap that opens (`NewGap`,
  `GapsCounted`), as `last_index` is then the greatest that came. `TracksAll` compares a recurrence with folds over the samples.
  The folds are unfolded by one value at a time, by the least length for which
  two functions of it could differ; the mean and the second moment of n values are those of
  Welford's recurrence as long as the divisions are exact, which the bound on messages and
  `ScaleAssumption` give; least and greatest value are such folds too, and `ExtremesAreBest`
  says what the fold is: the least value, as `Huge` bounds them all (`MetricsAssumption`), and the
  greatest if one is above the `Tiny` that the code starts with. Trackers are reset one after another, so `SumsInv` says of each
  that it sums up the values since its own reset (`SumsUp`), and `Bounded` that these,
  with the one under way (`Pending`), are no more than the messages.
* **DataFileProofs.** `WholeRecords` is about what a file holds with the buffer; a
  write keeps it only if the file ends where the write goes on. `Ends` says where: behind a
  record, or at a tear, or, while a thread is between its two writes, behind the size it
  wrote. That no other thread writes, or changes the path, in between is `OneRecords`, from
  the mutex. A crash cuts the file off at any unit, which leaves a whole beginning
  (`WholeShrinks`), and writes down the place in `tears`; that places so written down
  are never where units follow later by chance needs `TearsInside`.
  The player's theorems use these facts of the file it plays, which nobody writes
  (`Undisturbed`): it stands where a record begins, unless it has passed a tear (`InPlace`),
  a read of a size and its data ends at such a place again (`ReadsToRecord`), and it goes on
  where it ended or, if it repeats, at the beginning (`GoesOn`).
* **InterpreterProofs.** `TypesHold` says that a thread's program is made of statements that
  fit their node: a count only for an EveryN, an addition only for a buffer.
  `BuffersHoldTheirWindow` then is about `Updated` alone: an addition and a chop keep `Window`,
  and no other statement touches a buffer. `SignalsEveryNth` has two hypotheses: the graph
  has no cycle (`LeadsDown`), and the EveryN observes one node p and the program sends it nothing
  (`OnlyThrough`); without the second it is false, as nothing locks the count. The invariant
  `AloneInv` says that a thread which has locked p's observers has its unlock before it, and only
  before that the calls of the EveryN (`Owning`), while one that has not is to lock first, or has
  nothing to do with it (`Asking`, `Free`); so the EveryN is called by one thread at a time.
  That thread is at a place of one `receive` (`Section`), below which only deeper nodes work, so it
  cannot come to the EveryN again; `Phase` relates the count, what was heard and what was passed
  on at each place, and `Counted` does when no thread is there.
  `SnapshotsStayInOrder` needs the same of depth, and that a last node n either observes one
  buffer b and is sent nothing else, while the program does not make b signal messages of its
  own (`RemembersBuffer`), or has no buffer above it (`BelowNoBuffer`), when all counts are 0
  (`UncountedInv`). A last node further below a buffer is covered by neither. `SnapshotInv` says of
  each thread that it holds b's own mutex until its unlock, and until then has only snapshots
  with the count that b has now (`Holding`), none before it has added (`Fresh`); that without the
  mutex it has none, and may be about to lock it (`AtRest`); and that what n remembers is no newer
  than b (`Bounded`). So n is given what b holds, and the count of b never falls. If
  b signalled after its unlock (`SignalsUnlocked`), an older snapshot could be under way when b
  has moved on, and `Holding` would fail.

### Only model-checked

* Liveness (`SignalReturns`, `WokenIsProduced`, `StopReturns`, `TakeReturns`,
  `AllPublished`, `InterruptEndsProfile`, `PlaysToTheEnd`): the prover does not handle fairness and ENABLED.
* `Messages` and `FlexCodec`: values contain values, and their copies are RECURSIVE operators, which
  a module with theorems cannot use.
* The disagreements of the violated runs and of section 5.
* Of `Interpreter`, `NoDeadlock`, which depends on which calls the program makes on which graph (a
  proof would need a characterisation of the safe ones).

## 5. Disagreements that the runs do not show

Some have a property that states what a text of the repository says, and a configuration with
which TLC finds a behaviour that breaks it (`tlc -config MCProducer_lost.cfg MCProducer.tla`):

| property | configuration | the text | the code |
|---|---|---|---|
| `NewIsProduced` | `MCProducer_lost` | "continuously checks for new messages, and if there is one, it calls produce()" (`producer.h:14`) | clears the event after it has released `last_message_mutex` (`producer.h:54`): a message stored in between is fetched only after the next one, as the timeout does not fetch |
| `PrunesRejected` | `MCGraph_filter` | "Graph is pruned according to filter predicate" (`node.h:65`) | `filter` returns at a node it has visited (`node.cpp:172`): a rejected node with a second or a rejected parent stays |
| `MaxIsGreatest` | `MCMetrics_max` | "this class tracks the mean, min, max" (`metrics.h:19`) | `max_value` starts at `numeric_limits<double>::min()`, the least positive double (`metrics.cpp:27`), and stays there if no value is positive |
| `OnlySkipped` | `MCMetrics_gaps` | "the number of messages we skipped from that source" (`metrics.cpp:438`) | a message behind a later one moves the index back (`metrics.cpp:446`): the next one reports messages again, or such as came |
| `PlaysWhatIsSaved` | `MCDataFile_torn` | "plays what UniversalDataSaver writes" (`universal_data_player.h:16`) | a record that a crash cut off is signalled with whatever is in the buffer (`universal_data_player.cpp:64`) |
| `PartialDictsRead` | `MCMessages_dicts` | "Does the dict have all those keys?" (`flextensors.py:8`) | asks whether all keys of the dict are among those: a nested dict with a part of them, or with none, raises KeyError |
| `NumpyReadsAll` | `MCMessages_scalars` | "where we encounter a tensormap we instantiate a numpy tensor instead" (`flextensors.py:108`) | None for a tensor of rank 0 (`flextensors.py:88`) |
| `EigenReads` | `MCMessages_columns` | "numpy tensors (that can be interpreted at the c++-level as xtensor or eigen objects)" (`README.md:81`) | the format has no place for the order: Eigen, in column order by default (`flex_eigen.h:42`), sees rows as columns |

The others, found in reading the code for the models:

* SIGINT after `running_node = nullptr` and before the old handler is back calls
  `request_stop` on null (`node.cpp:382`); it is the action `Crash`.
* Two upstream threads give one counter to two messages of a node: `signal` reads
  `message_send_counter` before `notify_observers` locks and counts (`node.cpp:266`, against
  `node.h:106`); `SetSenderInfo` and `LockObservers` are two actions of `Node` for that reason.
* `Event::wait` goes back to sleep when its timeout has expired (`event.h:43`), so the timeout of
  `take` does not end it; the action `TimeOut` of `Take`.
* `start` on a node whose thread ended by itself does nothing (`node.cpp:332`, against
  `node.h:114`); the action `StartAgain`.
* `deinstrument_metrics` misses the MetricsNodes that the program has cut off while
  profiling (`graph_root.cpp:157`); `start` followed by `start_all(node)` leaves that node's
  thread running after `stop` (`graph_root.cpp:79`); `graph_root.cpp:177` disconnects
  another node than it was connected to.
* Message 0 of a source is never counted as
  missed, and messages before profiling began are (`metrics.cpp:438-447`); `reset` takes no
  mutex (`metrics.cpp:323`); a refused connection stays in the list (`metrics.cpp:288`,
  `node.cpp:55`); a received MetricsMessage takes its variance for the second moment
  (`metrics.cpp:150`).
* UniversalDataPlayer keeps `eofbit`: started again after the end it plays nothing; after a
  stop it goes on in the middle, and with `forever` it rewinds on the stop
  (`universal_data_player.cpp:152-175`). `produce_all_once` with `forever` never ends (line 144).
  `produce` on an empty file with `forever` signals an uninitialised buffer. `num_bytes_replayed` is
  counted twice (lines 60 and 155). `flush` does not take the saver's mutex
  (`universal_data_saver.cpp:42`).
* `EveryN` counts without a lock (`every_n.h:24`): below two nodes two threads may step over n, after
  which it never signals again. `frequency_hz` is read twice in `frequency_generator.cpp:62`.
* The bindings of `>`, `>=`, `>>`, `has_observers`, `num_observers`, `signal` of an object,
  `last_message`, `chop`, `record_message`, `set_file_path`, `produce` and `publish_and_reset` lock
  mutexes with the GIL held (`pybindings.cpp`): a C++ thread that holds the mutex above Python code
  waits for the GIL.
* A TensorRightBuffer starts with uninitialised values, and a tensor wider than the buffer
  shifts beyond its bounds (`tensor_buffer.h:15`).
* `copy_flex` makes an empty vector of a vector of keys, and of deprecated vectors of strings a key
  without a value (`message.cpp:82-93`). A payload function that writes a key that is kept gives two
  of it; the payloads of `Messages` write another.
* Python's `bool` comes back as `int`, as the branch for it is behind the one for `int`
  (`dynoflex.py:29-33`), and `None` is left out; user data with the key `_meta` replaces the header;
  an unsigned Python message has a name of 32 spaces.
* A shape in an untyped vector, which MESSAGEFORMAT.md allows, is read as empty
  (`flex_tensor_format.cpp:66`).
* `set_source_node_name` throws for more than 32 characters when counter and guid are stamped
  already (`message.h:137`). The copy of a message has the counter of the original and the guid
  of the node that signals it. `DoubleMessage::value` returns a float; the constructor of
  TensorMessage that takes a shape passes nullptr for a name (`core_messages.h:148`).

## 6. Plan

The order followed the weight of the behaviour: what every program does came first.

1. Done: `Node`, `Multicast`, `Producer`, `RunnableNode`, `Graph`, `GraphRoot`, `Take`,
   `Metrics`, with the proofs above; then `DataFile`, `LibraryNodes` with `Interpreter`,
   and `FlexCodec` with `Messages`.
2. Proofs: done for the safety properties of `Node`, its refinement of `Multicast`, `Producer`,
   `RunnableNode`, `Graph`, `GraphRoot`, `Take`, `Metrics` and `DataFile`, and for the counts,
   windows and snapshots of `Interpreter`. Left: a condition on graph and calls under which
   `NoDeadlock` holds.
3. A stop that comes from a callback: `Node` composed with `RunnableNode`; Python classes that
   override `connect`, `start` and `stop`, in `Interpreter`.

## 7. Not modelled, and why

* `serialization.cpp`, `serialization.h` and `serializer.h`: a sketch of another interface; the
  first is commented out in CMakeLists.txt and nothing includes the headers.
* Time: the delays of a player and of a FrequencyGenerator, timestamps.
* Sizes in bytes and the 8 bytes in front of a message: an element is one unit.
* The cache of DynoFlex, the properties and constructors of the bindings.
* Printing, `to_string`, logging, memory and time helpers, uuid: no property is about them.
* `handle_rpc` of two threads at once, unlocked `reset` during a record, walks during an
  edit: data races, after which C++ promises nothing.
* Destructors: `~RunnableNode` stops a thread after the members of the derived class are gone.
* Build files, examples, vendored code.
