---------------------------- MODULE LibraryNodes ----------------------------
(***************************************************************************)
(* The receive of each library node, as the statements that the calling    *)
(* thread executes.  What matters of a statement is which mutex it locks,  *)
(* whether it runs Python code, what it reads and writes in the node, and  *)
(* whom it calls.  Interpreter has the threads that execute them.          *)
(*                                                                         *)
(* A message carries columns of a tensor, and in a TensorBufferMessage the *)
(* number of columns that the buffer has seen.  A message that Python code *)
(* made is a Python object: whoever drops the last reference takes the GIL.*)
(***************************************************************************)
EXTENDS Integers, SequencesExt

CONSTANTS
  Nodes,           \* the nodes of the graph
  Observers,       \* Observers[n]: the list of n's observers
  Kind,            \* the class of each node
  Nth,             \* EveryN::n
  Width,           \* the last dimension of the buffer of a TensorRightBuffer
  ChopLength,      \* the columns that chop overwrites
  None             \* the null pointer

ASSUME LibraryNodesAssumption ==
  /\ Observers \in [Nodes -> Seq(Nodes)]
  /\ Kind \in [Nodes -> {"node", "callback", "filter", "map", "every", "last", "buffer",
                         "saver", "python", "python object"}]
  /\ Nth \in Nat \ {0}
  /\ Width \in Nat \ {0}
  /\ ChopLength \in 0..(Width - 1)

Message(python, cols, count) == [python |-> python, cols |-> cols, count |-> count]

\* what is in a buffer at first, and what chop writes
Filler == 0

\* What a node remembers: EveryN::count, LastOne::last_message, or the buffer
\* and the count of a TensorRightBuffer.
InitialMemory(n) ==
  CASE Kind[n] = "every" -> 0
    [] Kind[n] = "buffer" -> [cols |-> [i \in 1..Width |-> Filler], count |-> 0]
    [] OTHER -> None

-----------------------------------------------------------------------------
(* The statements.  The mutex of a node's observers is recursive, and so   *)
(* is the one that LastOne, TensorRightBuffer and UniversalDataSaver have. *)

ObserversMutex(n) == <<n, "observers">>
OwnMutex(n) == <<n, "own">>
Mutexes == Nodes \X {"observers", "own"}

Lock(x) == <<"lock", x>>
Unlock(x) == <<"unlock", x>>
TakeGil == <<"take gil">>
GiveGil == <<"give gil">>
RunPython == <<"python">>
Signal(n, m) == <<"signal", n, m>>
Receive(n, m) == <<"receive", n, m>>
Update(n, how, m) == <<"update", n, how, m>>
Release(m) == <<"release", m>>
Start(n) == <<"start", n>>
RequestStop(n) == <<"request stop", n>>
Join(n) == <<"join", n>>

\* a scoped lock around body, by a thread that has locked the mutexes in held
Guarded(held, x, body) ==
  IF x \in held THEN body ELSE <<Lock(x)>> \o body \o <<Unlock(x)>>

\* gil_scoped_acquire around body
WithGil(holds, body) == IF holds THEN body ELSE <<TakeGil>> \o body \o <<GiveGil>>

\* Faulty WithoutGil: a binding without its call_guard.
KeepsGil(body) == body

\* gil_scoped_release around body
WithoutGil(body) == <<GiveGil>> \o body \o <<TakeGil>>

\* Faulty SignalBody: the observers are called without the mutex.
UnlockedSignal(held, n, m) == [i \in DOMAIN Observers[n] |-> Receive(Observers[n][i], m)]

\* Node::signal: notify_observers calls all observers under the mutex.
SignalBody(held, n, m) ==
  Guarded(held, ObserversMutex(n), [i \in DOMAIN Observers[n] |-> Receive(Observers[n][i], m)])

-----------------------------------------------------------------------------
(* receive.                                                                *)

\* a message that Python code makes of m, or wraps around it
FromPython(m) == [m EXCEPT !.python = TRUE]

\* Faulty BufferReceive: the mutex is released before the message is signalled.
SignalsUnlocked(held, n, m) ==
  Guarded(held, OwnMutex(n), <<Update(n, "add", m)>>) \o <<Update(n, "send", m)>>

\* TensorRightBuffer signals the new buffer while it holds the mutex.
BufferReceive(held, n, m) ==
  Guarded(held, OwnMutex(n), <<Update(n, "add", m), Update(n, "send", m)>>)

\* EveryN: signal if count is 0, and count to n.
EveryReceive(n, m) == <<Update(n, "test", m), Update(n, "count", m), Update(n, "wrap", m)>>

\* MapFun: the function makes a message, which receive drops in the end.
MapReceive(holds, n, m) ==
  WithGil(holds, <<RunPython>>) \o <<Signal(n, FromPython(m)), Release(FromPython(m))>>

\* What the receive of n may do with m, in a thread that has locked the mutexes
\* in held, and the GIL if holds.  The functions of CallbackFun, FilterFun and
\* MapFun and the receive of a Python class are Python code; that receive may
\* signal a message, or an object of which signal makes a message.
Receipts(held, holds, n, m) ==
  LET code == WithGil(holds, <<RunPython>>)
  IN CASE Kind[n] = "node" -> {<<Signal(n, m)>>}
       [] Kind[n] = "callback" -> {code \o <<Signal(n, m)>>}
       [] Kind[n] = "filter" -> {code, code \o <<Signal(n, m)>>}
       [] Kind[n] = "map" -> {MapReceive(holds, n, m)}
       [] Kind[n] = "every" -> {EveryReceive(n, m)}
       [] Kind[n] = "last" ->
            {Guarded(held, OwnMutex(n), <<Update(n, "remember", m)>>) \o <<Signal(n, m)>>}
       [] Kind[n] = "buffer" -> {BufferReceive(held, n, m)}
       [] Kind[n] = "saver" -> {Guarded(held, OwnMutex(n), <<Signal(n, m)>>)}
       [] Kind[n] = "python" ->
            {WithGil(holds, <<RunPython>> \o WithoutGil(<<Signal(n, FromPython(m))>>))}
       [] Kind[n] = "python object" ->
            {WithGil(holds, <<RunPython, Signal(n, FromPython(m))>>)}

-----------------------------------------------------------------------------
(* Update: what becomes of a node's memory, and what its thread does next. *)

\* EveryN: 0 at n
Wrapped(count) == IF count = Nth THEN 0 ELSE count

\* Faulty Shifted: the buffer moves by one column for every tensor.
ShiftedByOne(cols, new) ==
  [i \in 1..Width |-> IF i > Width - Len(new) THEN new[i - Width + Len(new)] ELSE cols[i + 1]]

\* shift_left_add: the columns move to the left, and the new ones come last
Shifted(cols, new) == SubSeq(cols, Len(new) + 1, Width) \o new

\* chop: the first columns are overwritten
Chopped(cols) == [i \in 1..Width |-> IF i <= ChopLength THEN Filler ELSE cols[i]]

Updated(memory, how, m) ==
  CASE how = "count" -> memory + 1
    [] how = "wrap" -> Wrapped(memory)
    [] how = "remember" -> m
    [] how = "add" -> [cols |-> Shifted(memory.cols, m.cols),
                       count |-> memory.count + Len(m.cols)]
    [] how = "chop" -> [memory EXCEPT !.cols = Chopped(@)]
    [] OTHER -> memory

\* "remember" drops the message that was there, "send" makes a
\* TensorBufferMessage of the buffer.
AfterUpdate(n, memory, how, m) ==
  CASE how = "test" /\ memory = 0 -> <<Signal(n, m)>>
    [] how = "remember" /\ memory # None -> <<Release(memory)>>
    [] how = "send" -> <<Signal(n, Message(FALSE, memory.cols, memory.count))>>
    [] OTHER -> <<>>

-----------------------------------------------------------------------------
(* The bindings: what a call from Python does, in a thread that holds the  *)
(* GIL and no mutex.  Some have a call_guard that releases the GIL.        *)
(* A message that is handed over gets a deleter for the GIL, in whichever  *)
(* language it was made (type_caster::load).                               *)

\* Faulty StopCall: stop_and_join with the GIL.
StopsWithGil(n) == <<RequestStop(n), Join(n)>>

StopCall(n) == WithoutGil(<<RequestStop(n), Join(n)>>)

Binding(call, n, m) ==
  CASE call = "signal" -> WithoutGil(<<Signal(n, FromPython(m))>>)
    [] call = "signal object" -> <<Signal(n, FromPython(m))>>
    [] call = "receive" -> WithoutGil(<<Receive(n, FromPython(m))>>)
    [] call = "connect" -> WithoutGil(<<Lock(ObserversMutex(n)), Unlock(ObserversMutex(n))>>)
    [] call \in {"has_observers", ">"} -> <<Lock(ObserversMutex(n)), Unlock(ObserversMutex(n))>>
    [] call = "last_message" -> <<Lock(OwnMutex(n)), Unlock(OwnMutex(n))>>
    [] call = "chop" -> <<Lock(OwnMutex(n)), Update(n, "chop", m), Unlock(OwnMutex(n))>>
    [] call = "start" -> WithoutGil(<<Start(n)>>)
    [] call = "stop" -> StopCall(n)

=============================================================================
