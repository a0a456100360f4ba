-------------------------------- MODULE Node --------------------------------
(***************************************************************************)
(* roboflex::core::Node: the observer list, the recursive mutex that       *)
(* protects it, and the synchronous propagation of messages.               *)
(*                                                                         *)
(* A call of signal(m) on a node is one frame of a thread's call stack.    *)
(* notify_observers keeps observer_collection_mutex locked while it calls  *)
(* receive_from on every observer, and a pass-through observer calls       *)
(* signal in turn: a thread deep in the graph holds the mutexes of every   *)
(* node above it.  Several threads (one per RunnableNode) walk the same    *)
(* graph at once, while any of them may connect and disconnect nodes.      *)
(*                                                                         *)
(* A std::list that is only extended with push_back is a set of list       *)
(* nodes ordered by the moment of their insertion: an observer list is a   *)
(* set of links [at, to], and a range-for iterator is the "at" of the list *)
(* node it stands on.                                                      *)
(***************************************************************************)
EXTENDS Integers, Sequences

CONSTANTS
  Nodes,       \* the nodes of the graph
  Threads,     \* the threads that run user code: child threads, main
  Messages,    \* the message objects that can be created
  NoNode,      \* the all-zero guid of a message nobody has signalled
  Unset,       \* the counter of a message nobody has signalled, UINT64_MAX
  NoThread,    \* nobody holds the mutex
  Kind,        \* what each node's receive does with a message
  Runs,        \* the nodes whose signal a thread's own code calls
  Height,      \* connections lead down: the graph is acyclic
  Graphs,      \* the observer lists the program may start from
  MaxLinks,    \* bound: insertion stamps in one observer list
  MaxSends     \* bound: a thread's own signals end when its node sent this many

Link == [at : 1..MaxLinks, to : Nodes]

ASSUME ConstantsAssumption ==
  /\ NoNode \notin Nodes
  /\ NoThread \notin Threads
  /\ Unset \notin Nat
  /\ Kind \in [Nodes -> {"sink", "forward", "filter", "map", "copy", "header"}]
  /\ Runs \in [Threads -> SUBSET Nodes]
  /\ Height \in [Nodes -> Nat]
  /\ MaxLinks \in Nat
  /\ MaxSends \in Nat

\* Every start graph is acyclic, and its list nodes have distinct stamps.
ASSUME GraphsAssumption ==
  /\ Graphs \subseteq [Nodes -> SUBSET Link]
  /\ \A g \in Graphs : \A n \in Nodes : \A l \in g[n] :
       /\ Height[n] > Height[l.to]
       /\ \A k \in g[n] : k.at = l.at => k = l

VARIABLES
  observers,   \* observers[n]: the list of n's observers
  owner,       \* owner[n]: the thread that holds n's mutex
  counter,     \* counter[n]: message_send_counter
  live,        \* the messages created so far
  source,      \* source[m]: source_node_guid in m's _meta
  stamp,       \* stamp[m]: message_counter in m's _meta
  stack,       \* stack[t]: the signal calls t is in, innermost last
  seen         \* history: the last notification of n that o received

vars == <<observers, owner, counter, live, source, stamp, stack, seen>>

-----------------------------------------------------------------------------
(* Call stacks.  pc: "stamp" before set_sender_info, "lock" waiting for    *)
(* the mutex, "deliver" in the loop over the observers (mutex held),       *)
(* "self" after notify_self has released the mutex.                        *)

Frame == [node : Nodes, msg : Messages, toSelf : BOOLEAN,
          pc : {"stamp", "lock", "deliver", "self"},
          cursor : 0..MaxLinks, ticket : Nat]

Call(n, m, self) == [node |-> n, msg |-> m, toSelf |-> self,
                     pc |-> "stamp", cursor |-> 0, ticket |-> 0]

Depth(t) == Len(stack[t])
Top(t) == stack[t][Depth(t)]
Below(t) == SubSeq(stack[t], 1, Depth(t) - 1)
At(t, pc) == stack[t] # << >> /\ Top(t).pc = pc
SetTop(t, f) == [stack[t] EXCEPT ![Depth(t)] = f]

\* the mutex is recursive: its owner may lock it again
CanLock(t, n) == owner[n] \in {NoThread, t}

\* message_send_counter += 1
Counted(n) == [counter EXCEPT ![n] = @ + 1]

\* Faulty Released: the mutex is never unlocked.
NeverReleased(t) == owner

\* the owners once t's innermost call has unlocked its node's mutex, which is
\* free unless t holds it from a call further out as well
Released(t) ==
  IF \E i \in 1..(Depth(t) - 1) : stack[t][i].node = Top(t).node
  THEN owner ELSE [owner EXCEPT ![Top(t).node] = NoThread]

\* Faulty Stamped: the last sender's counter replaces the first one's.
Restamped(m, n) == [stamp EXCEPT ![m] = counter[n]]

\* set_sender_info stamps a message that nobody has signalled yet.
Stamped(m, n) == IF stamp[m] = Unset THEN [stamp EXCEPT ![m] = counter[n]] ELSE stamp

-----------------------------------------------------------------------------
Init ==
  /\ observers \in Graphs
  /\ owner = [n \in Nodes |-> NoThread]
  /\ counter = [n \in Nodes |-> 0]
  /\ live = {}
  /\ source = [m \in Messages |-> NoNode]
  /\ stamp = [m \in Messages |-> Unset]
  /\ stack = [t \in Threads |-> << >>]
  /\ seen = [o \in Nodes |-> [n \in Nodes |-> 0]]

\* m has been created and not signalled yet
Unsent(m) == \E t \in Threads : At(t, "stamp") /\ Top(t).msg = m

\* Thread t's own code calls n.signal or n.signal_self, with a message it
\* creates or with one it was given.
Signal(t, self) ==
  /\ stack[t] = << >>
  /\ \E n \in Runs[t], m \in Messages :
       /\ counter[n] < MaxSends
       /\ ~Unsent(m)
       /\ live' = live \cup {m}
       /\ stack' = [stack EXCEPT ![t] = <<Call(n, m, self)>>]
  /\ UNCHANGED <<observers, owner, counter, source, stamp, seen>>

\* signal: set_sender_info fills in what the message does not have yet, with
\* message_send_counter as it is now; the mutex is not held.
SetSenderInfo(t) ==
  /\ At(t, "stamp")
  /\ LET f == Top(t) IN
       /\ stamp' = Stamped(f.msg, f.node)
       /\ source' = IF source[f.msg] = NoNode
                    THEN [source EXCEPT ![f.msg] = f.node] ELSE source
       /\ stack' = [stack EXCEPT ![t] = SetTop(t, [f EXCEPT !.pc = "lock"])]
  /\ UNCHANGED <<observers, owner, counter, live, seen>>

\* notify_observers: lock the mutex and count the notification.
LockObservers(t) ==
  /\ At(t, "lock") /\ ~Top(t).toSelf
  /\ LET n == Top(t).node IN
       /\ CanLock(t, n)
       /\ owner' = [owner EXCEPT ![n] = t]
       /\ counter' = Counted(n)
       /\ stack' = [stack EXCEPT ![t] = SetTop(t,
                     [Top(t) EXCEPT !.pc = "deliver", !.ticket = counter[n] + 1])]
  /\ UNCHANGED <<observers, live, source, stamp, seen>>

\* notify_self: lock, count and unlock, before it receives its own message.
CountSelf(t) ==
  /\ At(t, "lock") /\ Top(t).toSelf
  /\ LET n == Top(t).node IN
       /\ CanLock(t, n)
       /\ counter' = Counted(n)
       /\ stack' = [stack EXCEPT ![t] = SetTop(t, [Top(t) EXCEPT !.pc = "self"])]
  /\ UNCHANGED <<observers, owner, live, source, stamp, seen>>

-----------------------------------------------------------------------------
(* o receives m: its receive may return without a signal, signal m, or     *)
(* signal a new message.  A message made by MapFun's function is unsigned, *)
(* one made by the copy_from constructor keeps m's counter, one made by    *)
(* the take_header_from constructor keeps m's counter and source.          *)

Ignore(t, calls) ==
  /\ stack' = [stack EXCEPT ![t] = calls]
  /\ UNCHANGED <<live, source, stamp>>

PassOn(t, o, m, calls) ==
  /\ stack' = [stack EXCEPT ![t] = Append(calls, Call(o, m, FALSE))]
  /\ UNCHANGED <<live, source, stamp>>

MakeNew(t, o, m, calls) ==
  \E r \in Messages \ live :
    /\ live' = live \cup {r}
    /\ stamp' = IF Kind[o] = "map" THEN stamp ELSE [stamp EXCEPT ![r] = stamp[m]]
    /\ source' = IF Kind[o] = "header" THEN [source EXCEPT ![r] = source[m]]
                                       ELSE source
    /\ stack' = [stack EXCEPT ![t] = Append(calls, Call(o, r, FALSE))]

Receive(t, o, m, calls) ==
  \/ Kind[o] # "forward" /\ Ignore(t, calls)
  \/ Kind[o] \in {"forward", "filter"} /\ PassOn(t, o, m, calls)
  \/ Kind[o] \in {"map", "copy", "header"} /\ MakeNew(t, o, m, calls)

\* Faulty IsNext: the iterator may skip list nodes.
IsLater(l, n, cursor) == l \in observers[n] /\ cursor < l.at

\* the list node after the one the iterator stands on
IsNext(l, n, cursor) ==
  /\ l \in observers[n] /\ cursor < l.at
  /\ \A k \in observers[n] : cursor < k.at => l.at <= k.at

\* notify_observers' loop: the next observer's receive_from.
Deliver(t) ==
  /\ At(t, "deliver")
  /\ LET f == Top(t) IN
     \E l \in observers[f.node] :
       /\ IsNext(l, f.node, f.cursor)
       /\ seen' = [seen EXCEPT ![l.to][f.node] = f.ticket]
       /\ Receive(t, l.to, f.msg, SetTop(t, [f EXCEPT !.cursor = l.at]))
  /\ UNCHANGED <<observers, owner, counter>>

\* notify_self, after the unlock: receive_from(m, *this).
ReceiveSelf(t) ==
  /\ At(t, "self")
  /\ Receive(t, Top(t).node, Top(t).msg, Below(t))
  /\ UNCHANGED <<observers, owner, counter, seen>>

\* The loop is over: the lock_guard goes out of scope and signal returns.
Return(t) ==
  /\ At(t, "deliver")
  /\ ~\E l \in observers[Top(t).node] : IsNext(l, Top(t).node, Top(t).cursor)
  /\ owner' = Released(t)
  /\ stack' = [stack EXCEPT ![t] = Below(t)]
  /\ UNCHANGED <<observers, counter, live, source, stamp, seen>>

-----------------------------------------------------------------------------
(* Editing the graph.  User code runs outside every call or in a callback  *)
(* of the innermost delivery.  It edits a node whose mutex it holds        *)
(* already, or any free node when it holds nothing: code that waits for an *)
(* edit inside a callback is outside this model.                           *)

InUserCode(t) == stack[t] = << >> \/ (At(t, "deliver") /\ Top(t).cursor > 0)

\* Faulty MayEdit: the list is edited without the mutex.
EditAnyway(t, a) == InUserCode(t)

MayEdit(t, a) ==
  /\ InUserCode(t)
  /\ CanLock(t, a)
  /\ owner[a] = NoThread => stack[t] = << >>

\* k is the place of a new list node at the back of a's list
IsBack(a, k) ==
  /\ \A l \in observers[a] : l.at < k
  /\ \A j \in 1..(k - 1) : \E l \in observers[a] : j <= l.at

\* connect: push_back, under the mutex.
Connect(t, a, b) ==
  /\ MayEdit(t, a)
  /\ Height[a] > Height[b]
  /\ \E k \in 1..MaxLinks :
       /\ IsBack(a, k)
       /\ observers' = [observers EXCEPT ![a] = @ \cup {[at |-> k, to |-> b]}]
  /\ UNCHANGED <<owner, counter, live, source, stamp, stack, seen>>

\* t's own loop over a's observers stands on list node l
StandsOn(t, a, l) ==
  \E i \in 1..Depth(t) : /\ stack[t][i].node = a
                         /\ stack[t][i].pc = "deliver"
                         /\ stack[t][i].cursor = l.at

\* disconnect: list::remove erases every list node that holds b.  A callback
\* that erases the very list node its caller stands on is outside this model.
Disconnect(t, a, b) ==
  /\ MayEdit(t, a)
  /\ \E l \in observers[a] : l.to = b
  /\ \A l \in observers[a] : l.to = b => ~StandsOn(t, a, l)
  /\ observers' = [observers EXCEPT ![a] = {l \in @ : l.to # b}]
  /\ UNCHANGED <<owner, counter, live, source, stamp, stack, seen>>

-----------------------------------------------------------------------------
InCall(t) ==
  \/ SetSenderInfo(t) \/ LockObservers(t) \/ CountSelf(t)
  \/ Deliver(t) \/ ReceiveSelf(t) \/ Return(t)

Edit(t) == \E a, b \in Nodes : Connect(t, a, b) \/ Disconnect(t, a, b)

Next == \E t \in Threads : Signal(t, TRUE) \/ Signal(t, FALSE) \/ InCall(t) \/ Edit(t)

Spec == Init /\ [][Next]_vars

\* The scheduler runs every thread, and a thread inside signal goes on with it.
FairSpec == Spec /\ \A t \in Threads : WF_vars(InCall(t))

-----------------------------------------------------------------------------
(* Properties.                                                             *)

\* The types of the variables.
TypeOK ==
  /\ observers \in [Nodes -> SUBSET Link]
  /\ owner \in [Nodes -> Threads \cup {NoThread}]
  /\ counter \in [Nodes -> Nat]
  /\ live \in SUBSET Messages
  /\ source \in [Messages -> Nodes \cup {NoNode}]
  /\ stamp \in [Messages -> Nat \cup {Unset}]
  /\ stack \in [Threads -> Seq(Frame)]
  /\ seen \in [Nodes -> [Nodes -> Nat]]

Delivering(t, i) == i \in 1..Depth(t) /\ stack[t][i].pc = "deliver"

\* A thread is in the loop over a node's observers exactly when it holds the
\* node's mutex, so two threads are never in the loop of one node
\* (lock_guard of notify_observers, and the recursion of its receivers).
MutualExclusion ==
  \A t \in Threads, n \in Nodes :
    owner[n] = t <=> \E i \in 1..Depth(t) : Delivering(t, i) /\ stack[t][i].node = n

\* The iterator of every loop under way stands on a list node that is still in
\* the list: no other thread erases it (notify_observers against disconnect).
CursorValid ==
  \A t \in Threads : \A i \in 1..Depth(t) :
    (Delivering(t, i) /\ stack[t][i].cursor > 0)
      => \E l \in observers[stack[t][i].node] : l.at = stack[t][i].cursor

\* Nobody is skipped: while a loop is under way, every observer behind its
\* iterator has received this very notification, whatever connect and disconnect
\* do, and no later one (notify_observers' one pass over the list).
DeliveredPrefix ==
  \A t \in Threads : \A i \in 1..Depth(t) :
    LET f == stack[t][i] IN
      Delivering(t, i) => \A l \in observers[f.node] :
        l.at <= f.cursor => seen[l.to][f.node] = f.ticket

\* A loop over the observers goes its whole way, whatever the callbacks and the
\* other threads edit (notify_observers against connect and disconnect).
LoopIntact == CursorValid /\ DeliveredPrefix

\* t needs the mutex of n, and somebody else holds it
WaitsFor(t, n) == At(t, "lock") /\ Top(t).node = n /\ ~CanLock(t, n)

\* No set of threads wait for each other's mutexes, although each one holds the
\* mutexes of all the nodes above the one it waits for (notify_observers calls
\* receive_from with the mutex locked).
NoDeadlock ==
  \A S \in SUBSET Threads : S # {} =>
    \E t \in S : \A n \in Nodes : WaitsFor(t, n) => owner[n] \notin S

\* An observer never receives a node's notifications out of order, whichever
\* threads signal: the count and the loop are under one lock (notify_observers).
InOrder ==
  [][\A o, n \in Nodes : seen'[o][n] >= seen[o][n]]_vars

\* A message keeps the source and the counter of its first signal when
\* pass-through nodes and other threads signal it again (set_sender_info).
ProvenanceKept ==
  [][\A m \in Messages :
       /\ stamp[m] # Unset => stamp'[m] = stamp[m]
       /\ source[m] # NoNode => source'[m] = source[m]]_vars

\* the list nodes ahead of the iterator of the loop over n's observers
Ahead(n) ==
  {l \in observers[n] : \E t \in Threads : \E i \in 1..Depth(t) :
     Delivering(t, i) /\ stack[t][i].node = n /\ stack[t][i].cursor < l.at}

Abstract == INSTANCE Multicast WITH
  Links <- Link, links <- observers, sent <- counter, got <- seen,
  busy <- {n \in Nodes : owner[n] # NoThread},
  due <- [n \in Nodes |-> Ahead(n)]

\* The threads, the mutexes and the nested calls together implement numbered
\* notifications that follow one another, one at a time at each node, and reach
\* every observer once (notify_observers, notify_self, connect, disconnect).
SerialMulticast == Abstract!Spec

\* A call of signal returns: nobody waits for a mutex for ever, and the loop
\* over the observers ends (signal, notify_observers).
SignalReturns == \A t \in Threads : stack[t] # << >> ~> stack[t] = << >>

=============================================================================
