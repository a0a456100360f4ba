-------------------------------- MODULE Take --------------------------------
(***************************************************************************)
(* nodes::take and the Event::wait it blocks in.                           *)
(*                                                                         *)
(* The caller of take puts a callback on its stack, connects it to a node, *)
(* waits for an event and disconnects it again, while other threads make   *)
(* the node signal: they run the callback under the node's mutex.          *)
(*                                                                         *)
(* No name here is a name of Producer, so that one module may extend both. *)
(***************************************************************************)
EXTENDS Naturals, Sequences

CONSTANTS
  Signallers,      \* the threads that make the node signal
  Nobody,          \* the node's mutex is free
  Wanted,          \* the parameter n of take
  MaxSent          \* bound: messages signalled

ASSUME TakeAssumption ==
  /\ Nobody \notin Signallers
  /\ Wanted \in Nat
  /\ MaxSent \in Nat

VARIABLES
  taker,           \* the caller: its next statement in take
  messages,        \* the vector on the caller's stack
  eventSet,        \* the event on the caller's stack
  expired,         \* history: the timeout has expired
  connected,       \* is the callback in the node's list of observers?
  holder,          \* the signaller that holds the node's mutex
  step,            \* what that signaller does next
  sent             \* messages signalled so far

caller == <<taker, expired>>
locals == <<messages, eventSet>>
node == <<connected, holder, step, sent>>
takeVars == <<caller, locals, node>>

TakeInit ==
  /\ taker = "call"
  /\ messages = <<>>
  /\ eventSet = FALSE
  /\ expired = FALSE
  /\ connected = FALSE
  /\ holder = Nobody
  /\ step = "none"
  /\ sent = 0

-----------------------------------------------------------------------------
(* The caller.                                                             *)

\* take returns at once when nothing is wanted.
Call ==
  /\ taker = "call"
  /\ taker' = IF Wanted = 0 THEN "returned" ELSE "connect"
  /\ UNCHANGED <<expired, locals, node>>

\* Faulty CanLock: the list is edited without the mutex.
Unguarded == TRUE

\* connect and disconnect wait for the node's mutex.
CanLock == holder = Nobody

Connect ==
  /\ taker = "connect"
  /\ CanLock
  /\ connected' = TRUE
  /\ taker' = "wait"
  /\ UNCHANGED <<expired, locals, holder, step, sent>>

\* wait_for gives up, and the loop of Event::wait starts it again.
TimeOut ==
  /\ taker = "wait"
  /\ ~eventSet
  /\ expired' = TRUE
  /\ UNCHANGED <<taker, locals, node>>

\* Event::wait loops until the event is set.
WaitIsOver == eventSet

Wait ==
  /\ taker = "wait"
  /\ WaitIsOver
  /\ taker' = "disconnect"
  /\ UNCHANGED <<expired, locals, node>>

\* take disconnects the callback and returns; its locals are gone.
Disconnect ==
  /\ taker = "disconnect"
  /\ CanLock
  /\ connected' = FALSE
  /\ taker' = "returned"
  /\ UNCHANGED <<expired, locals, holder, step, sent>>

-----------------------------------------------------------------------------
(* A signaller, in notify_observers and in the callback.                   *)

Notify(s) ==
  /\ holder = Nobody
  /\ sent < MaxSent
  /\ holder' = s
  /\ sent' = sent + 1
  /\ step' = IF connected THEN "callback" ELSE "unlock"
  /\ UNCHANGED <<caller, locals, connected>>

\* messages.size() < n
Room == Len(messages) < Wanted

\* Faulty Full: the event is set one message too early.
AlmostFull(n) == n + 1 = Wanted

\* Faulty Full: it is set one message too late.
Overfull(n) == n > Wanted

\* messages.size() == n
Full(n) == n = Wanted

\* The callback takes the message.
Push(s) ==
  /\ holder = s
  /\ step = "callback"
  /\ messages' = IF Room THEN Append(messages, sent) ELSE messages
  /\ step' = IF Room /\ Full(Len(messages')) THEN "set" ELSE "unlock"
  /\ UNCHANGED <<caller, eventSet, connected, holder, sent>>

\* It sets the event when it has all of them.
SetEvent(s) ==
  /\ holder = s
  /\ step = "set"
  /\ eventSet' = TRUE
  /\ step' = "unlock"
  /\ UNCHANGED <<caller, messages, connected, holder, sent>>

Unlock(s) ==
  /\ holder = s
  /\ step = "unlock"
  /\ holder' = Nobody
  /\ step' = "none"
  /\ UNCHANGED <<caller, locals, connected, sent>>

-----------------------------------------------------------------------------
Caller == Call \/ Connect \/ Wait \/ Disconnect

TakeNext ==
  \/ Caller
  \/ TimeOut
  \/ \E s \in Signallers : Notify(s) \/ Push(s) \/ SetEvent(s) \/ Unlock(s)

TakeSpec == TakeInit /\ [][TakeNext]_takeVars

\* The caller gets the mutex in the end, as the signallers release it again and
\* again; a signal that has begun goes on.  Nothing obliges anybody to signal.
FairTakeSpec ==
  /\ TakeSpec
  /\ SF_takeVars(Caller)
  /\ \A s \in Signallers : WF_takeVars(Push(s) \/ SetEvent(s) \/ Unlock(s))

-----------------------------------------------------------------------------
(* Properties.                                                             *)

TakeTypeOK ==
  /\ taker \in {"call", "connect", "wait", "disconnect", "returned"}
  /\ messages \in Seq(1..MaxSent)
  /\ Len(messages) <= Wanted
  /\ eventSet \in BOOLEAN
  /\ expired \in BOOLEAN
  /\ connected \in BOOLEAN
  /\ holder \in Signallers \cup {Nobody}
  /\ step \in {"none", "callback", "set", "unlock"}
  /\ sent \in 0..MaxSent

\* No signaller runs the callback once take has returned: it would write into a
\* vector and an event that are gone (take, disconnect and notify_observers).
NoLateCallback == step \in {"callback", "set"} => taker \in {"wait", "disconnect"}

\* take returns as many messages as it was asked for, in the order in which the
\* node signalled them and without a gap (take).
ExactlyWanted ==
  taker = "returned" =>
    /\ Len(messages) = Wanted
    /\ \A i \in 1..Wanted : messages[i] = messages[1] + i - 1

\* When all messages have come take returns (take, Event::set and Event::wait).
TakeReturns == (Len(messages) = Wanted) ~> (taker = "returned")

=============================================================================
