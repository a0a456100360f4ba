---------------------------- MODULE EventProofs ----------------------------
(***************************************************************************)
(* Proofs about the two users of util::Event.  Producer, for any number of *)
(* upstream threads, messages and restarts, with or without a timeout: no  *)
(* wake-up is for nothing and no message is produced twice.  Take, for any *)
(* number of signallers and any n: it gets n messages in a row, and nobody *)
(* touches its stack once it has returned.                                 *)
(***************************************************************************)
EXTENDS Producer, Take, TLAPS

-----------------------------------------------------------------------------
(* Producer.                                                               *)

\* What is fetched was stored, and what is produced was fetched.
InStep == produced <= fetched /\ fetched <= last_message

\* A receive under way has stored a message that nobody has fetched.
StoredIsNew == owner # NoThread => fetched < last_message

\* So has whoever made the thread go and fetch.
FetchIsDue == pc = "get" => fetched < last_message

\* The message in the thread's hands is newer than the last one it produced.
HeldIsNew == pc \in {"clear", "produce"} => produced < fetched

Inv == TypeOK /\ InStep /\ StoredIsNew /\ FetchIsDue /\ HeldIsNew /\ SetMeansNew

-----------------------------------------------------------------------------
\* The invariant holds initially.
LEMMA InitInv == Init => Inv
<1>. SUFFICES ASSUME Init PROVE Inv
  OBVIOUS
<1>. USE ProducerAssumption DEF Init
<1>1. isSet \in BOOLEAN /\ stop_signal \in BOOLEAN
  BY Zenon
<1>2. TypeOK
  BY <1>1 DEF TypeOK
<1>3. InStep /\ StoredIsNew /\ FetchIsDue /\ HeldIsNew /\ SetMeansNew
  BY DEF InStep, StoredIsNew, FetchIsDue, HeldIsNew, SetMeansNew
<1>. QED
  BY <1>2, <1>3 DEF Inv

\* receive preserves it: it stores a message newer than all before.
LEMMA ReceiveInv ==
  ASSUME Inv, NEW u \in Upstream, Store(u) \/ Set(u)
  PROVE  Inv'
<1>. USE ProducerAssumption DEF Inv, TypeOK, InStep, StoredIsNew, FetchIsDue,
                                HeldIsNew, SetMeansNew
<1>1. CASE Store(u)
  BY <1>1 DEF Store, Free
<1>2. CASE Set(u)
  BY <1>2 DEF Set, Unlocked
<1>. QED
  BY <1>1, <1>2

\* Waiting preserves it: the thread goes to fetch only when the event is set.
LEMMA WaitInv ==
  ASSUME Inv, Loop \/ WaitOnce \/ Wake
  PROVE  Inv'
<1>. USE DEF Inv, TypeOK, InStep, StoredIsNew, FetchIsDue, HeldIsNew, SetMeansNew
<1>1. CASE Loop
  BY <1>1 DEF Loop
<1>2. CASE WaitOnce
  BY <1>2 DEF WaitOnce
<1>3. CASE Wake
  BY <1>3 DEF Wake, HasNewMessage
<1>. QED
  BY <1>1, <1>2, <1>3

\* Fetching, clearing and producing preserve it: nobody holds the mutex while
\* the thread fetches, so the event that is set then is set for what it fetches.
LEMMA FetchInv ==
  ASSUME Inv, GetLatestMessage \/ Clear \/ Produce
  PROVE  Inv'
<1>. USE DEF Inv, TypeOK, InStep, StoredIsNew, FetchIsDue, HeldIsNew, SetMeansNew
<1>1. CASE GetLatestMessage
  BY <1>1 DEF GetLatestMessage, Free
<1>2. CASE Clear
  BY <1>2 DEF Clear, Cleared
<1>3. CASE Produce
  BY <1>3 DEF Produce
<1>. QED
  BY <1>1, <1>2, <1>3

\* Starting and stopping preserve it.
LEMMA ControlInv ==
  ASSUME Inv, Start \/ RequestStop \/ Join
  PROVE  Inv'
<1>. USE ProducerAssumption DEF Inv, TypeOK, InStep, StoredIsNew, FetchIsDue,
                                HeldIsNew, SetMeansNew
<1>1. CASE Start
  <2>1. stop_signal' \in BOOLEAN
    BY <1>1, Zenon DEF Start
  <2>2. starts' \in 0..MaxStarts /\ pc = "none" /\ pc' = "loop"
    BY <1>1 DEF Start
  <2>3. UNCHANGED <<last_message, isSet, owner, fetched, produced, control>>
    BY <1>1 DEF Start
  <2>. QED
    BY <2>1, <2>2, <2>3
<1>2. CASE RequestStop
  BY <1>2 DEF RequestStop
<1>3. CASE Join
  BY <1>3 DEF Join
<1>. QED
  BY <1>1, <1>2, <1>3

\* So does every step.
LEMMA StepInv == Inv /\ [Next]_vars => Inv'
<1>. SUFFICES ASSUME Inv, [Next]_vars PROVE Inv'
  OBVIOUS
<1>1. CASE \E u \in Upstream : Store(u) \/ Set(u)
  BY <1>1, ReceiveInv
<1>2. CASE ChildThread
  BY <1>2, WaitInv, FetchInv DEF ChildThread
<1>3. CASE Start \/ RequestStop \/ Join
  BY <1>3, ControlInv
<1>4. CASE UNCHANGED vars
  BY <1>4 DEF vars, Inv, TypeOK, InStep, StoredIsNew, FetchIsDue, HeldIsNew, SetMeansNew
<1>. QED
  BY <1>1, <1>2, <1>3, <1>4 DEF Next

-----------------------------------------------------------------------------
\* Types hold always, and produce is never called with nullptr (child_thread_fn).
THEOREM TypeCorrect == Spec => []TypeOK
<1>1. Inv => TypeOK
  BY DEF Inv
<1>. QED
  BY InitInv, StepInv, <1>1, PTL DEF Spec

\* The event is set only while there is something to fetch (receive, clear).
THEOREM NoIdleWakeUp == Spec => []SetMeansNew
<1>1. Inv => SetMeansNew
  BY DEF Inv
<1>. QED
  BY InitInv, StepInv, <1>1, PTL DEF Spec

\* Each call of produce gets a newer message than the one before
\* (child_thread_fn, across stops and restarts).
THEOREM NothingTwice == Spec => NewerAndNewer
<1>1. Inv => [Produce => fetched > produced]_vars
  BY DEF Inv, HeldIsNew, TypeOK, Produce
<1>. QED
  BY InitInv, StepInv, <1>1, PTL DEF Spec, NewerAndNewer

-----------------------------------------------------------------------------
(* take.                                                                   *)

\* The callback is connected from connect to disconnect.
ConnectedInside == connected <=> taker \in {"wait", "disconnect"}

\* A signal is under way while the mutex is held, and in the callback only if
\* that is connected.
MutexHeld ==
  /\ holder = Nobody <=> step = "none"
  /\ holder # Nobody => sent > 0
  /\ step \in {"callback", "set"} => connected

\* The vector is filled while the callback is connected; the event is set, and
\* the wait over, when it is full.
FilledInside ==
  /\ taker \in {"call", "connect"} => messages = <<>>
  /\ eventSet \/ step = "set" \/ taker \in {"disconnect", "returned"} => Len(messages) = Wanted

\* The messages are consecutive, and the last one is the last that was signalled
\* while more are wanted.
Consecutive == \A i \in 1..Len(messages) : messages[i] = messages[1] + i - 1

UpToDate ==
  Len(messages) \in 1..(Wanted - 1) =>
    messages[Len(messages)] = IF step = "callback" THEN sent - 1 ELSE sent

TakeInv ==
  TakeTypeOK /\ ConnectedInside /\ MutexHeld /\ FilledInside /\ Consecutive /\ UpToDate

-----------------------------------------------------------------------------
\* The invariant of take holds initially.
LEMMA InitTakeInv == TakeInit => TakeInv
<1>. SUFFICES ASSUME TakeInit PROVE TakeInv
  OBVIOUS
<1>. USE TakeAssumption DEF TakeInit
<1>1. eventSet \in BOOLEAN /\ expired \in BOOLEAN /\ connected \in BOOLEAN
  BY Zenon
<1>2. TakeTypeOK
  BY <1>1 DEF TakeTypeOK
<1>3. ConnectedInside /\ MutexHeld /\ FilledInside /\ Consecutive /\ UpToDate
  BY DEF ConnectedInside, MutexHeld, FilledInside, Consecutive, UpToDate
<1>. QED
  BY <1>2, <1>3 DEF TakeInv

\* The caller preserves it.
LEMMA CallerInv ==
  ASSUME TakeInv, Caller \/ TimeOut
  PROVE  TakeInv'
<1>. USE TakeAssumption DEF TakeInv, TakeTypeOK, ConnectedInside, MutexHeld, FilledInside,
            Consecutive, UpToDate, locals, node, caller
<1>1. CASE Call
  BY <1>1 DEF Call
<1>2. CASE Connect
  BY <1>2 DEF Connect, CanLock
<1>3. CASE TimeOut
  BY <1>3 DEF TimeOut
<1>4. CASE Wait
  BY <1>4 DEF Wait, WaitIsOver
<1>5. CASE Disconnect
  BY <1>5 DEF Disconnect, CanLock
<1>. QED
  BY <1>1, <1>2, <1>3, <1>4, <1>5 DEF Caller

\* The callback appends the message after the last one it took.
LEMMA PushInv ==
  ASSUME TakeInv, NEW s \in Signallers, Push(s)
  PROVE  TakeInv'
<1>. USE TakeAssumption DEF TakeInv, TakeTypeOK, Push, locals, node, caller
<1>1. CASE Room
  <2>1. /\ messages' = Append(messages, sent)
        /\ Len(messages') = Len(messages) + 1
        /\ \A i \in 1..Len(messages) : messages'[i] = messages[i]
        /\ messages'[Len(messages) + 1] = sent
    BY <1>1
  <2>2. sent \in 1..MaxSent
    <3>1. CASE Len(messages) = 0
      BY <3>1 DEF MutexHeld
    <3>2. CASE Len(messages) > 0
      BY <1>1, <3>2 DEF UpToDate, Room
    <3>. QED
      BY <3>1, <3>2
  <2>3. TakeTypeOK'
    BY <1>1, <2>1, <2>2 DEF Room
  <2>4. Consecutive'
    <3>1. CASE Len(messages) = 0
      BY <2>1, <2>2, <3>1 DEF Consecutive
    <3>2. CASE Len(messages) > 0
      <4>1. messages[Len(messages)] = sent - 1
        BY <1>1, <3>2 DEF Room, UpToDate
      <4>2. messages[Len(messages)] = messages[1] + Len(messages) - 1
        BY <3>2 DEF Consecutive
      <4>3. messages[1] \in Nat /\ messages'[1] = messages[1]
        BY <2>1, <3>2
      <4>4. \A i \in 1..Len(messages) : messages'[i] = messages'[1] + i - 1
        BY <2>1, <4>3 DEF Consecutive
      <4>5. messages'[Len(messages) + 1] = messages'[1] + (Len(messages) + 1) - 1
        <5>1. sent \in Nat /\ Len(messages) \in Nat
          OBVIOUS
        <5>2. sent = messages[1] + Len(messages)
          BY <4>1, <4>2, <4>3, <5>1
        <5>. QED
          BY <2>1, <4>3, <5>1, <5>2
      <4>6. \A i \in 1..Len(messages') : i \in 1..Len(messages) \/ i = Len(messages) + 1
        BY <2>1
      <4>. QED
        BY <4>4, <4>5, <4>6 DEF Consecutive
    <3>. QED
      BY <3>1, <3>2
  <2>5. UpToDate'
    BY <1>1, <2>1, <2>2 DEF Room, Full, UpToDate
  <2>6. ConnectedInside' /\ MutexHeld' /\ FilledInside'
    BY <1>1, <2>1 DEF Room, Full, ConnectedInside, MutexHeld, FilledInside
  <2>. QED
    BY <2>3, <2>4, <2>5, <2>6
<1>2. CASE ~Room
  BY <1>2 DEF Room, ConnectedInside, MutexHeld, FilledInside, Consecutive, UpToDate
<1>. QED
  BY <1>1, <1>2

\* The other steps of a signaller preserve it.
LEMMA SignallerInv ==
  ASSUME TakeInv, NEW s \in Signallers, Notify(s) \/ SetEvent(s) \/ Unlock(s)
  PROVE  TakeInv'
<1>. USE TakeAssumption DEF TakeInv, TakeTypeOK, ConnectedInside, MutexHeld, FilledInside,
            Consecutive, UpToDate, locals, node, caller
<1>1. CASE Notify(s)
  BY <1>1 DEF Notify
<1>2. CASE SetEvent(s)
  BY <1>2 DEF SetEvent
<1>3. CASE Unlock(s)
  BY <1>3 DEF Unlock
<1>. QED
  BY <1>1, <1>2, <1>3

\* So does every step.
LEMMA StepTakeInv == TakeInv /\ [TakeNext]_takeVars => TakeInv'
<1>. SUFFICES ASSUME TakeInv, [TakeNext]_takeVars PROVE TakeInv'
  OBVIOUS
<1>1. CASE TakeNext
  BY <1>1, CallerInv, PushInv, SignallerInv DEF TakeNext
<1>2. CASE UNCHANGED takeVars
  BY <1>2 DEF takeVars, caller, locals, node, TakeInv, TakeTypeOK, ConnectedInside,
              MutexHeld, FilledInside, Consecutive, UpToDate
<1>. QED
  BY <1>1, <1>2

-----------------------------------------------------------------------------
\* Types hold always (take and its callback).
THEOREM TakeTyped == TakeSpec => []TakeTypeOK
<1>1. TakeInv => TakeTypeOK
  BY DEF TakeInv
<1>. QED
  BY InitTakeInv, StepTakeInv, <1>1, PTL DEF TakeSpec

\* The callback never runs on a dead stack (take, whose disconnect waits for the
\* mutex that notify_observers holds).
THEOREM StackIsSafe == TakeSpec => []NoLateCallback
<1>1. TakeInv => NoLateCallback
  BY DEF TakeInv, MutexHeld, ConnectedInside, NoLateCallback
<1>. QED
  BY InitTakeInv, StepTakeInv, <1>1, PTL DEF TakeSpec

\* take returns n consecutive messages (take).
THEOREM TakesInARow == TakeSpec => []ExactlyWanted
<1>1. TakeInv => ExactlyWanted
  BY DEF TakeInv, FilledInside, Consecutive, ExactlyWanted
<1>. QED
  BY InitTakeInv, StepTakeInv, <1>1, PTL DEF TakeSpec
=============================================================================
