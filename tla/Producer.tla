------------------------------ MODULE Producer ------------------------------
(***************************************************************************)
(* roboflex::nodes::Producer and the util::Event it waits on.              *)
(*                                                                         *)
(* Upstream threads call receive, which stores the message and sets the    *)
(* event under last_message_mutex.  The producer's own thread waits for    *)
(* the event, fetches the last message under that mutex, clears the event  *)
(* and calls produce.  Each method of Event is one step, under the event's *)
(* own mutex; clear and wait_once are called without last_message_mutex.   *)
(*                                                                         *)
(* Messages are numbered in the order in which receive stores them.        *)
(***************************************************************************)
EXTENDS Naturals

CONSTANTS
  Upstream,        \* the threads that call receive
  NoThread,        \* last_message_mutex is free
  HasTimeout,      \* timeout_milliseconds > 0
  MaxMessages,     \* bound: messages received
  MaxStarts        \* bound: calls of start

ASSUME ProducerAssumption ==
  /\ NoThread \notin Upstream
  /\ HasTimeout \in BOOLEAN
  /\ MaxMessages \in Nat
  /\ MaxStarts \in Nat

VARIABLES
  last_message,    \* number of the last message stored, 0 for nullptr
  isSet,           \* Event::isSet_
  owner,           \* the upstream thread that holds last_message_mutex
  pc,              \* the next statement of child_thread_fn
  fetched,         \* the message get_latest_message returned last
  produced,        \* history: the message produce was called with last
  stop_signal,     \* RunnableNode::stop_signal
  control,         \* what the thread that starts and stops the node does
  starts           \* calls of start so far

vars == <<last_message, isSet, owner, pc, fetched, produced, stop_signal,
          control, starts>>

Init ==
  /\ last_message = 0
  /\ isSet = FALSE
  /\ owner = NoThread
  /\ pc = "none"
  /\ fetched = 0
  /\ produced = 0
  /\ stop_signal = TRUE
  /\ control = "idle"
  /\ starts = 0

-----------------------------------------------------------------------------
(* Upstream: receive.                                                      *)

Free(mutex) == mutex = NoThread

\* receive locks last_message_mutex and stores the message.
Store(u) ==
  /\ Free(owner)
  /\ last_message < MaxMessages
  /\ owner' = u
  /\ last_message' = last_message + 1
  /\ UNCHANGED <<isSet, pc, fetched, produced, stop_signal, control, starts>>

\* Faulty Unlocked: receive does not unlock.
StillLocked == owner

Unlocked == NoThread

\* It sets the event, and unlocks when it returns.
Set(u) ==
  /\ owner = u
  /\ isSet' = TRUE
  /\ owner' = Unlocked
  /\ UNCHANGED <<last_message, pc, fetched, produced, stop_signal, control, starts>>

-----------------------------------------------------------------------------
(* The producer's thread: child_thread_fn.                                 *)

\* while (!stop_requested()), and wait_once's test of the event.
Loop ==
  /\ pc = "loop"
  /\ pc' = IF stop_signal THEN "done" ELSE "wait_once"
  /\ UNCHANGED <<last_message, isSet, owner, fetched, produced, stop_signal,
                 control, starts>>

\* wait_once returns true at once, or sleeps on the condition variable.
WaitOnce ==
  /\ pc = "wait_once"
  /\ pc' = IF isSet THEN "get" ELSE "sleep"
  /\ UNCHANGED <<last_message, isSet, owner, fetched, produced, stop_signal,
                 control, starts>>

\* What wait_once returns after it slept.
HasNewMessage == isSet

\* The sleeper wakes when set notifies it, when its timeout expires, or without
\* a reason.
Wake ==
  /\ pc = "sleep"
  /\ pc' = IF HasNewMessage THEN "get" ELSE "loop"
  /\ UNCHANGED <<last_message, isSet, owner, fetched, produced, stop_signal,
                 control, starts>>

\* Faulty MustWake: wait_once sleeps until it is notified.
OnlyNotified == isSet

\* The reasons that are sure to wake it.
MustWake == isSet \/ HasTimeout

\* get_latest_message, under last_message_mutex.
GetLatestMessage ==
  /\ pc = "get"
  /\ Free(owner)
  /\ fetched' = last_message
  /\ pc' = "clear"
  /\ UNCHANGED <<last_message, isSet, owner, produced, stop_signal, control, starts>>

\* Faulty Cleared: the event stays set.
NotCleared == isSet

Cleared == FALSE

Clear ==
  /\ pc = "clear"
  /\ isSet' = Cleared
  /\ pc' = "produce"
  /\ UNCHANGED <<last_message, owner, fetched, produced, stop_signal, control, starts>>

\* Faulty Produce: the event is cleared once more when produce returns.
ProduceAndClear ==
  /\ pc = "produce"
  /\ produced' = fetched
  /\ isSet' = FALSE
  /\ pc' = "loop"
  /\ UNCHANGED <<last_message, owner, fetched, stop_signal, control, starts>>

Produce ==
  /\ pc = "produce"
  /\ produced' = fetched
  /\ pc' = "loop"
  /\ UNCHANGED <<last_message, isSet, owner, fetched, stop_signal, control, starts>>

-----------------------------------------------------------------------------
(* The controlling thread: start and stop_and_join.                        *)

Start ==
  /\ control = "idle"
  /\ pc = "none"
  /\ starts < MaxStarts
  /\ stop_signal' = FALSE
  /\ pc' = "loop"
  /\ starts' = starts + 1
  /\ UNCHANGED <<last_message, isSet, owner, fetched, produced, control>>

RequestStop ==
  /\ control = "idle"
  /\ pc # "none"
  /\ stop_signal' = TRUE
  /\ control' = "join"
  /\ UNCHANGED <<last_message, isSet, owner, pc, fetched, produced, starts>>

Join ==
  /\ control = "join"
  /\ pc = "done"
  /\ pc' = "none"
  /\ control' = "idle"
  /\ UNCHANGED <<last_message, isSet, owner, fetched, produced, stop_signal, starts>>

-----------------------------------------------------------------------------
ChildThread == \/ Loop \/ WaitOnce \/ Wake \/ GetLatestMessage
               \/ Clear \/ Produce

Next ==
  \/ \E u \in Upstream : Store(u) \/ Set(u)
  \/ ChildThread
  \/ Start \/ RequestStop \/ Join

Spec == Init /\ [][Next]_vars

\* The threads run; nothing wakes a sleeper for sure but set and its timeout.
FairSpec == /\ Spec
            /\ WF_vars(ChildThread /\ (pc = "sleep" => MustWake))
            /\ WF_vars(Join)
            /\ \A u \in Upstream : WF_vars(Set(u))

-----------------------------------------------------------------------------
(* Properties.                                                             *)

\* The types; and a message that is about to be produced is not nullptr
\* (child_thread_fn calls produce only after receive stored a message).
TypeOK ==
  /\ last_message \in 0..MaxMessages
  /\ isSet \in BOOLEAN
  /\ owner \in Upstream \cup {NoThread}
  /\ pc \in {"none", "loop", "wait_once", "sleep", "get", "clear", "produce", "done"}
  /\ fetched \in 0..MaxMessages
  /\ pc \in {"clear", "produce"} => fetched # 0
  /\ produced \in 0..MaxMessages
  /\ stop_signal \in BOOLEAN
  /\ control \in {"idle", "join"}
  /\ starts \in 0..MaxStarts

\* The event is set only while there is a message that was not fetched, save
\* between get_latest_message and clear: a wake-up is never for nothing
\* (receive and child_thread_fn, which clears without last_message_mutex).
SetMeansNew ==
  (isSet /\ pc # "clear") => fetched < last_message

\* Every call of produce gets a newer message than the calls before it: no
\* message comes twice and none after a newer one, across stops and restarts
\* too (child_thread_fn, start and stop).
NewerAndNewer == [][Produce => fetched > produced]_vars

\* A message that sets the event at any time but between get_latest_message and
\* clear is produced itself, or a newer one is, or the node is asked to stop: no
\* older message that was fetched before will do (receive and child_thread_fn).
WokenIsProduced ==
  \A k \in 1..MaxMessages :
    (isSet /\ last_message = k /\ pc # "clear" /\ ~stop_signal)
      ~> (produced >= k \/ stop_signal)

\* What the comment of the class says: "continuously checks for new messages, and
\* if there is one, it calls produce()".  The last message that is stored is
\* produced in the end, if the node is not asked to stop.  The code breaks it: a
\* message that is stored between get_latest_message and clear is not produced
\* before another one comes (child_thread_fn).
NewIsProduced ==
  \A k \in 1..MaxMessages :
    (last_message = k /\ ~stop_signal) ~> (produced >= k \/ stop_signal)

\* stop returns: the thread looks at stop_signal again even when no message
\* comes (child_thread_fn, whose wait has a timeout, and stop_and_join).
StopReturns == control = "join" ~> control = "idle"

=============================================================================
