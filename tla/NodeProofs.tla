----------------------------- MODULE NodeProofs -----------------------------
(* Theorems about Node, for every graph, set of threads and set of messages,  *)
(* and that it implements Multicast.                                          *)
EXTENDS Node, SequenceTheorems, WellFoundedInduction, TLAPS

-----------------------------------------------------------------------------
(* The four ways a step changes a call stack.                              *)

\* The frames of a stack, and the top of a stack that is not empty.
LEMMA StackFrames ==
  ASSUME NEW s \in Seq(Frame)
  PROVE  /\ Len(s) \in Nat
         /\ \A i \in 1..Len(s) : s[i] \in Frame
         /\ s # << >> => Len(s) \in 1..Len(s)
  <1>1. Len(s) \in Nat /\ \A i \in 1..Len(s) : s[i] \in Frame
    BY ElementOfSeq, LenProperties
  <1>2. s # << >> => Len(s) \in Nat \ {0}
    BY EmptySeq
  <1>3. s # << >> => Len(s) \in 1..Len(s)
    BY <1>2
  <1> QED
    BY <1>1, <1>3

\* Replacing the top frame.
LEMMA ReplaceTop ==
  ASSUME NEW s \in Seq(Frame), s # << >>, NEW f \in Frame,
         NEW r, r = [s EXCEPT ![Len(s)] = f]
  PROVE  /\ r \in Seq(Frame) /\ Len(r) = Len(s)
         /\ r[Len(s)] = f
         /\ \A i \in 1..(Len(s) - 1) : r[i] = s[i]
  <1>1. Len(s) \in 1..Len(s) /\ Len(s) \in Nat
    BY StackFrames
  <1>2. /\ r \in Seq(Frame) /\ Len(r) = Len(s)
        /\ \A j \in 1..Len(s) : r[j] = IF j = Len(s) THEN f ELSE s[j]
    BY <1>1, ExceptSeq
  <1>3. \A i \in 1..(Len(s) - 1) : i \in 1..Len(s) /\ i # Len(s)
    BY <1>1
  <1>4. r[Len(s)] = f
    BY <1>1, <1>2
  <1>5. \A i \in 1..(Len(s) - 1) : r[i] = s[i]
    BY <1>2, <1>3
  <1> QED
    BY <1>2, <1>4, <1>5

\* Popping the top frame.
LEMMA PopTop ==
  ASSUME NEW s \in Seq(Frame), s # << >>,
         NEW r, r = SubSeq(s, 1, Len(s) - 1)
  PROVE  /\ r \in Seq(Frame) /\ Len(r) = Len(s) - 1
         /\ \A i \in 1..Len(r) : r[i] = s[i]
  <1>1. Len(s) \in 1..Len(s) /\ Len(s) \in Nat /\ \A i \in 1..Len(s) : s[i] \in Frame
    BY StackFrames
  <1>2. /\ r \in Seq(Frame)
        /\ Len(r) = IF 1 <= Len(s) - 1 THEN Len(s) - 1 - 1 + 1 ELSE 0
        /\ \A i \in 1..(Len(s) - 1 - 1 + 1) : r[i] = s[1 + i - 1]
    BY <1>1, SubSeqProperties
  <1>3. Len(r) = Len(s) - 1
    <2>1. Len(s) \in Nat /\ Len(s) >= 1
      BY <1>1
    <2>2. Len(r) = IF 1 <= Len(s) - 1 THEN Len(s) - 1 - 1 + 1 ELSE 0
      BY <1>2
    <2>3. \A k \in Nat : k >= 1 => (IF 1 <= k - 1 THEN k - 1 - 1 + 1 ELSE 0) = k - 1
      OBVIOUS
    <2> QED
      BY <2>1, <2>2, <2>3
  <1>4. \A i \in 1..Len(r) : i \in 1..(Len(s) - 1 - 1 + 1) /\ 1 + i - 1 = i
    BY <1>1, <1>3
  <1>5. \A i \in 1..Len(r) : r[i] = s[i]
    BY <1>2, <1>4
  <1> QED
    BY <1>2, <1>3, <1>5

\* Pushing a frame.
LEMMA PushTop ==
  ASSUME NEW s \in Seq(Frame), NEW f \in Frame, NEW r, r = Append(s, f)
  PROVE  /\ r \in Seq(Frame) /\ Len(r) = Len(s) + 1
         /\ r[Len(s) + 1] = f
         /\ \A i \in 1..Len(s) : r[i] = s[i]
  BY AppendProperties

-----------------------------------------------------------------------------
(* Type correctness.                                                       *)

LEMMA CallIsFrame ==
  ASSUME NEW n \in Nodes, NEW m \in Messages, NEW self \in BOOLEAN
  PROVE  /\ Call(n, m, self) \in Frame
         /\ Call(n, m, self).node = n
         /\ Call(n, m, self).pc = "stamp"
         /\ Call(n, m, self).cursor = 0
  BY ConstantsAssumption DEF Call, Frame

\* The top frame of a thread that is at pc, and the frames below it.
LEMMA TopIsFrame ==
  ASSUME TypeOK, NEW t \in Threads, NEW pc, At(t, pc)
  PROVE  /\ stack[t] \in Seq(Frame) /\ stack[t] # << >>
         /\ Top(t) \in Frame /\ Top(t).pc = pc
         /\ Depth(t) \in Nat /\ Depth(t) \in 1..Depth(t)
         /\ Below(t) \in Seq(Frame)
         /\ \A f \in Frame : SetTop(t, f) \in Seq(Frame)
  <1>1. stack[t] \in Seq(Frame) /\ stack[t] # << >> /\ Top(t).pc = pc
    BY DEF TypeOK, At
  <1>2. Depth(t) \in Nat /\ Depth(t) \in 1..Depth(t) /\ Top(t) \in Frame
    BY <1>1, StackFrames DEF Depth, Top
  <1>3. Below(t) \in Seq(Frame)
    BY <1>1, PopTop DEF Below, Depth
  <1>4. \A f \in Frame : SetTop(t, f) \in Seq(Frame)
    BY <1>1, ReplaceTop DEF SetTop, Depth
  <1> QED
    BY <1>1, <1>2, <1>3, <1>4

\* What a receive leaves behind has the right types.
LEMMA ReceiveType ==
  ASSUME TypeOK, NEW t \in Threads, NEW o \in Nodes, NEW m \in Messages,
         NEW calls \in Seq(Frame), Receive(t, o, m, calls)
  PROVE  /\ live' \in SUBSET Messages
         /\ source' \in [Messages -> Nodes \cup {NoNode}]
         /\ stamp' \in [Messages -> Nat \cup {Unset}]
         /\ stack' \in [Threads -> Seq(Frame)]
  <1>1. CASE Ignore(t, calls)
    BY <1>1 DEF Ignore, TypeOK
  <1>2. CASE PassOn(t, o, m, calls)
    <2>1. Append(calls, Call(o, m, FALSE)) \in Seq(Frame)
      BY CallIsFrame, PushTop
    <2> QED
      BY <1>2, <2>1 DEF PassOn, TypeOK
  <1>3. CASE MakeNew(t, o, m, calls)
    <2>1. PICK r \in Messages \ live :
            /\ live' = live \cup {r}
            /\ stamp' = IF Kind[o] = "map" THEN stamp
                                           ELSE [stamp EXCEPT ![r] = stamp[m]]
            /\ source' = IF Kind[o] = "header"
                         THEN [source EXCEPT ![r] = source[m]] ELSE source
            /\ stack' = [stack EXCEPT ![t] = Append(calls, Call(o, r, FALSE))]
      BY <1>3 DEF MakeNew
    <2>2. Append(calls, Call(o, r, FALSE)) \in Seq(Frame)
      BY CallIsFrame, PushTop
    <2>3. stack' \in [Threads -> Seq(Frame)] /\ live' \in SUBSET Messages
      BY <2>1, <2>2 DEF TypeOK
    <2>4. stamp' \in [Messages -> Nat \cup {Unset}]
      BY <2>1 DEF TypeOK
    <2>5. source' \in [Messages -> Nodes \cup {NoNode}]
      BY <2>1 DEF TypeOK
    <2> QED
      BY <2>3, <2>4, <2>5
  <1> QED
    BY <1>1, <1>2, <1>3 DEF Receive

LEMMA TypeInit == Init => TypeOK
  <1> SUFFICES ASSUME Init PROVE TypeOK
    OBVIOUS
  <1>1. observers \in [Nodes -> SUBSET Link]
    BY GraphsAssumption DEF Init
  <1>2. stack \in [Threads -> Seq(Frame)]
    BY EmptySeq DEF Init
  <1> QED
    BY <1>1, <1>2 DEF Init, TypeOK

LEMMA TypeStep == TypeOK /\ [Next]_vars => TypeOK'
  <1> SUFFICES ASSUME TypeOK, [Next]_vars PROVE TypeOK'
    OBVIOUS
  <1>1. ASSUME NEW t \in Threads, NEW self \in BOOLEAN, Signal(t, self)
        PROVE  TypeOK'
    <2>1. PICK n \in Runs[t], m \in Messages :
            /\ live' = live \cup {m}
            /\ stack' = [stack EXCEPT ![t] = <<Call(n, m, self)>>]
      BY <1>1 DEF Signal
    <2>2. n \in Nodes
      BY <2>1, ConstantsAssumption
    <2>3. <<Call(n, m, self)>> \in Seq(Frame)
      BY <2>2, CallIsFrame
    <2>4. stack' \in [Threads -> Seq(Frame)] /\ live' \in SUBSET Messages
      BY <2>1, <2>3 DEF TypeOK
    <2> QED
      BY <1>1, <2>4 DEF Signal, TypeOK
  <1>2. ASSUME NEW t \in Threads, SetSenderInfo(t)
        PROVE  TypeOK'
    <2>1. At(t, "stamp") /\ Top(t) \in Frame
      BY <1>2, TopIsFrame DEF SetSenderInfo
    <2>2. [Top(t) EXCEPT !.pc = "lock"] \in Frame
      BY <2>1 DEF Frame
    <2>3. SetTop(t, [Top(t) EXCEPT !.pc = "lock"]) \in Seq(Frame)
      BY <2>1, <2>2, TopIsFrame
    <2>4. Top(t).msg \in Messages /\ Top(t).node \in Nodes
      BY <2>1 DEF Frame
    <2>5. stack' \in [Threads -> Seq(Frame)]
      BY <1>2, <2>3 DEF SetSenderInfo, TypeOK
    <2>6. stamp' \in [Messages -> Nat \cup {Unset}]
      BY <1>2, <2>4 DEF SetSenderInfo, Stamped, TypeOK
    <2>7. source' \in [Messages -> Nodes \cup {NoNode}]
      BY <1>2, <2>4 DEF SetSenderInfo, TypeOK
    <2> QED
      BY <1>2, <2>5, <2>6, <2>7 DEF SetSenderInfo, TypeOK
  <1>3. ASSUME NEW t \in Threads, LockObservers(t)
        PROVE  TypeOK'
    <2> DEFINE n == Top(t).node
               f == [Top(t) EXCEPT !.pc = "deliver", !.ticket = counter[n] + 1]
    <2>1. At(t, "lock") /\ Top(t) \in Frame /\ n \in Nodes
      BY <1>3, TopIsFrame DEF LockObservers, Frame
    <2>2. f \in Frame
      <3>1. counter[n] + 1 \in Nat
        BY <2>1 DEF TypeOK
      <3> QED
        BY <2>1, <3>1 DEF Frame
    <2>3. SetTop(t, f) \in Seq(Frame)
      BY <2>1, <2>2, TopIsFrame
    <2>4. stack' \in [Threads -> Seq(Frame)]
      BY <1>3, <2>3 DEF LockObservers, Counted, TypeOK
    <2>5. owner' \in [Nodes -> Threads \cup {NoThread}] /\ counter' \in [Nodes -> Nat]
      BY <1>3, <2>1 DEF LockObservers, Counted, TypeOK
    <2> QED
      BY <1>3, <2>4, <2>5 DEF LockObservers, Counted, TypeOK
  <1>4. ASSUME NEW t \in Threads, CountSelf(t)
        PROVE  TypeOK'
    <2> DEFINE n == Top(t).node
               f == [Top(t) EXCEPT !.pc = "self"]
    <2>1. At(t, "lock") /\ Top(t) \in Frame /\ n \in Nodes
      BY <1>4, TopIsFrame DEF CountSelf, Frame
    <2>2. f \in Frame
      BY <2>1 DEF Frame
    <2>3. SetTop(t, f) \in Seq(Frame)
      BY <2>1, <2>2, TopIsFrame
    <2>4. stack' \in [Threads -> Seq(Frame)] /\ counter' \in [Nodes -> Nat]
      BY <1>4, <2>1, <2>3 DEF CountSelf, Counted, TypeOK
    <2> QED
      BY <1>4, <2>4 DEF CountSelf, Counted, TypeOK
  <1>5. ASSUME NEW t \in Threads, Deliver(t)
        PROVE  TypeOK'
    <2> DEFINE f == Top(t)
    <2>1. At(t, "deliver") /\ f \in Frame /\ f.node \in Nodes /\ f.msg \in Messages
      BY <1>5, TopIsFrame DEF Deliver, Frame
    <2>2. PICK l \in observers[f.node] :
            /\ seen' = [seen EXCEPT ![l.to][f.node] = f.ticket]
            /\ Receive(t, l.to, f.msg, SetTop(t, [f EXCEPT !.cursor = l.at]))
      BY <1>5 DEF Deliver
    <2>3. l \in Link
      BY <2>1, <2>2 DEF TypeOK
    <2>4. l.to \in Nodes /\ [f EXCEPT !.cursor = l.at] \in Frame
      BY <2>1, <2>3, ConstantsAssumption DEF Link, Frame
    <2>5. SetTop(t, [f EXCEPT !.cursor = l.at]) \in Seq(Frame)
      BY <2>1, <2>4, TopIsFrame
    <2>6. /\ live' \in SUBSET Messages
          /\ source' \in [Messages -> Nodes \cup {NoNode}]
          /\ stamp' \in [Messages -> Nat \cup {Unset}]
          /\ stack' \in [Threads -> Seq(Frame)]
      BY <2>1, <2>2, <2>4, <2>5, ReceiveType
    <2>7. seen' \in [Nodes -> [Nodes -> Nat]]
      <3>1. f.ticket \in Nat
        BY <2>1 DEF Frame
      <3> QED
        BY <2>1, <2>2, <2>4, <3>1 DEF TypeOK
    <2> QED
      BY <1>5, <2>6, <2>7 DEF Deliver, TypeOK
  <1>6. ASSUME NEW t \in Threads, ReceiveSelf(t)
        PROVE  TypeOK'
    <2>1. At(t, "self") /\ Top(t).node \in Nodes /\ Top(t).msg \in Messages
      BY <1>6, TopIsFrame DEF ReceiveSelf, Frame
    <2>2. Below(t) \in Seq(Frame)
      BY <2>1, TopIsFrame
    <2>3. Receive(t, Top(t).node, Top(t).msg, Below(t))
      BY <1>6 DEF ReceiveSelf
    <2>4. /\ live' \in SUBSET Messages
          /\ source' \in [Messages -> Nodes \cup {NoNode}]
          /\ stamp' \in [Messages -> Nat \cup {Unset}]
          /\ stack' \in [Threads -> Seq(Frame)]
      BY <2>1, <2>2, <2>3, ReceiveType
    <2> QED
      BY <1>6, <2>4 DEF ReceiveSelf, TypeOK
  <1>7. ASSUME NEW t \in Threads, Return(t)
        PROVE  TypeOK'
    <2>1. At(t, "deliver") /\ Below(t) \in Seq(Frame)
      BY <1>7, TopIsFrame DEF Return
    <2>2. stack' \in [Threads -> Seq(Frame)]
      BY <1>7, <2>1 DEF Return, TypeOK
    <2>3. owner' \in [Nodes -> Threads \cup {NoThread}]
      BY <1>7 DEF Return, Released, TypeOK
    <2> QED
      BY <1>7, <2>2, <2>3 DEF Return, TypeOK
  <1>8. ASSUME NEW t \in Threads, NEW a \in Nodes, NEW b \in Nodes, Connect(t, a, b)
        PROVE  TypeOK'
    <2>1. observers' \in [Nodes -> SUBSET Link]
      BY <1>8 DEF Connect, TypeOK, Link
    <2> QED
      BY <1>8, <2>1 DEF Connect, TypeOK
  <1>9. ASSUME NEW t \in Threads, NEW a \in Nodes, NEW b \in Nodes, Disconnect(t, a, b)
        PROVE  TypeOK'
    <2>1. observers' \in [Nodes -> SUBSET Link]
      BY <1>9 DEF Disconnect, TypeOK
    <2> QED
      BY <1>9, <2>1 DEF Disconnect, TypeOK
  <1>10. CASE UNCHANGED vars
    BY <1>10 DEF vars, TypeOK
  <1> QED
    BY <1>1, <1>2, <1>3, <1>4, <1>5, <1>6, <1>7, <1>8, <1>9, <1>10
    DEF Next, InCall, Edit

\* Every variable keeps its type, whatever the graph and the threads.
THEOREM TypeCorrect == Spec => []TypeOK
  BY TypeInit, TypeStep, PTL DEF Spec

-----------------------------------------------------------------------------
(* The inductive invariant.                                                *)

\* Connections lead down, and the list nodes of one list have distinct stamps.
ListsOK ==
  \A n \in Nodes : \A l \in observers[n] :
    /\ Height[n] > Height[l.to]
    /\ \A k \in observers[n] : k.at = l.at => k = l

\* The calls below the top one are in their loops, and lead down the graph.
Nested ==
  \A t \in Threads : \A i \in 1..Depth(t) :
    /\ i < Depth(t) => stack[t][i].pc = "deliver"
    /\ stack[t][i].pc # "deliver" => stack[t][i].cursor = 0
    /\ \A j \in 1..Depth(t) :
         i < j => Height[stack[t][i].node] > Height[stack[t][j].node]

\* A loop under way is the last notification its node has counted.
Tickets ==
  /\ \A o, n \in Nodes : seen[o][n] <= counter[n]
  /\ \A t \in Threads : \A i \in 1..Depth(t) :
       Delivering(t, i) => stack[t][i].ticket = counter[stack[t][i].node]

IInv == /\ TypeOK /\ ListsOK /\ Nested /\ MutualExclusion /\ Tickets
        /\ CursorValid /\ DeliveredPrefix

-----------------------------------------------------------------------------
(* What each step does to the stack of the thread that takes it.           *)

\* t's stack becomes s, and the other threads keep theirs.
LEMMA StackOf ==
  ASSUME TypeOK, NEW t \in Threads, NEW s, stack' = [stack EXCEPT ![t] = s]
  PROVE  stack'[t] = s /\ \A u \in Threads \ {t} : stack'[u] = stack[u]
  BY DEF TypeOK

\* A step that replaces the top frame by f.
LEMMA ReplaceShape ==
  ASSUME TypeOK, NEW t \in Threads, stack[t] # << >>, NEW f \in Frame,
         stack' = [stack EXCEPT ![t] = SetTop(t, f)]
  PROVE  /\ Len(stack'[t]) = Depth(t) /\ stack'[t][Depth(t)] = f
         /\ \A i \in 1..(Depth(t) - 1) : stack'[t][i] = stack[t][i]
         /\ \A u \in Threads \ {t} : stack'[u] = stack[u]
  <1>1. stack[t] \in Seq(Frame) /\ stack'[t] = [stack[t] EXCEPT ![Len(stack[t])] = f]
    BY StackOf DEF TypeOK, SetTop, Depth
  <1>2. \A u \in Threads \ {t} : stack'[u] = stack[u]
    BY StackOf
  <1> QED
    BY <1>1, <1>2, ReplaceTop DEF Depth

\* What a receive does to the stack "calls": it stays, or gets one fresh call.
LEMMA ReceiveShape ==
  ASSUME TypeOK, NEW t \in Threads, NEW o \in Nodes, NEW m \in Messages,
         NEW calls \in Seq(Frame), Receive(t, o, m, calls)
  PROVE  /\ \A u \in Threads \ {t} : stack'[u] = stack[u]
         /\ \/ stack'[t] = calls
            \/ \E f \in Frame : /\ stack'[t] = Append(calls, f)
                                /\ f.node = o /\ f.pc = "stamp" /\ f.cursor = 0
  <1>1. CASE Ignore(t, calls)
    BY <1>1, StackOf DEF Ignore
  <1>2. CASE PassOn(t, o, m, calls)
    <2> DEFINE c == Call(o, m, FALSE)
    <2>1. c \in Frame /\ c.node = o /\ c.pc = "stamp" /\ c.cursor = 0
      BY CallIsFrame
    <2> HIDE DEF c
    <2>2. stack' = [stack EXCEPT ![t] = Append(calls, c)]
      BY <1>2 DEF PassOn, c
    <2>3. stack'[t] = Append(calls, c) /\ \A u \in Threads \ {t} : stack'[u] = stack[u]
      BY <2>2, StackOf
    <2> QED
      BY <2>1, <2>3
  <1>3. CASE MakeNew(t, o, m, calls)
    <2>1. PICK r \in Messages :
            stack' = [stack EXCEPT ![t] = Append(calls, Call(o, r, FALSE))]
      BY <1>3 DEF MakeNew
    <2> DEFINE c == Call(o, r, FALSE)
    <2>2. c \in Frame /\ c.node = o /\ c.pc = "stamp" /\ c.cursor = 0
      BY CallIsFrame
    <2> HIDE DEF c
    <2>3. stack' = [stack EXCEPT ![t] = Append(calls, c)]
      BY <2>1 DEF c
    <2>4. stack'[t] = Append(calls, c) /\ \A u \in Threads \ {t} : stack'[u] = stack[u]
      BY <2>3, StackOf
    <2> QED
      BY <2>2, <2>4
  <1> QED
    BY <1>1, <1>2, <1>3 DEF Receive

\* Signal: t's stack is one call at a node.
LEMMA SignalShape ==
  ASSUME TypeOK, NEW t \in Threads, NEW self \in BOOLEAN, Signal(t, self)
  PROVE  /\ \A u \in Threads \ {t} : stack'[u] = stack[u]
         /\ Len(stack'[t]) = 1 /\ stack'[t][1].pc = "stamp"
         /\ stack'[t][1].cursor = 0
         /\ Depth(t) = 0
  <1>1. PICK n \in Runs[t], m \in Messages :
          stack' = [stack EXCEPT ![t] = <<Call(n, m, self)>>]
    BY DEF Signal
  <1>2. stack'[t] = <<Call(n, m, self)>> /\ \A u \in Threads \ {t} : stack'[u] = stack[u]
    BY <1>1, StackOf
  <1> QED
    BY <1>2 DEF Call, Signal, Depth

\* SetSenderInfo: the call waits for the mutex.
LEMMA SetSenderInfoShape ==
  ASSUME TypeOK, NEW t \in Threads, SetSenderInfo(t)
  PROVE  /\ \A u \in Threads \ {t} : stack'[u] = stack[u]
         /\ Depth(t) \in Nat \ {0} /\ Len(stack'[t]) = Depth(t)
         /\ stack'[t][Depth(t)] = [Top(t) EXCEPT !.pc = "lock"]
         /\ Top(t) \in Frame /\ Top(t).pc = "stamp"
         /\ \A i \in 1..(Depth(t) - 1) : stack'[t][i] = stack[t][i]
  <1>1. /\ stack[t] # << >> /\ Top(t) \in Frame /\ Top(t).pc = "stamp"
        /\ Depth(t) \in Nat /\ Depth(t) \in 1..Depth(t)
    BY TopIsFrame DEF SetSenderInfo
  <1>2. [Top(t) EXCEPT !.pc = "lock"] \in Frame
    BY <1>1 DEF Frame
  <1>3. stack' = [stack EXCEPT ![t] = SetTop(t, [Top(t) EXCEPT !.pc = "lock"])]
    BY DEF SetSenderInfo
  <1>4. Depth(t) \in Nat \ {0}
    BY <1>1
  <1> QED
    BY <1>1, <1>2, <1>3, <1>4, ReplaceShape

\* CountSelf: the call is about to receive its own message.
LEMMA CountSelfShape ==
  ASSUME TypeOK, NEW t \in Threads, CountSelf(t)
  PROVE  /\ \A u \in Threads \ {t} : stack'[u] = stack[u]
         /\ Depth(t) \in Nat \ {0} /\ Len(stack'[t]) = Depth(t)
         /\ stack'[t][Depth(t)] = [Top(t) EXCEPT !.pc = "self"]
         /\ Top(t) \in Frame /\ Top(t).pc = "lock"
         /\ \A i \in 1..(Depth(t) - 1) : stack'[t][i] = stack[t][i]
  <1>1. /\ stack[t] # << >> /\ Top(t) \in Frame /\ Top(t).pc = "lock"
        /\ Depth(t) \in Nat /\ Depth(t) \in 1..Depth(t)
    BY TopIsFrame DEF CountSelf
  <1>2. [Top(t) EXCEPT !.pc = "self"] \in Frame
    BY <1>1 DEF Frame
  <1>3. stack' = [stack EXCEPT ![t] = SetTop(t, [Top(t) EXCEPT !.pc = "self"])]
    BY DEF CountSelf
  <1>4. Depth(t) \in Nat \ {0}
    BY <1>1
  <1> QED
    BY <1>1, <1>2, <1>3, <1>4, ReplaceShape

\* LockObservers: the call enters its loop, before the first observer.
LEMMA LockObserversShape ==
  ASSUME TypeOK, NEW t \in Threads, LockObservers(t)
  PROVE  /\ \A u \in Threads \ {t} : stack'[u] = stack[u]
         /\ Depth(t) \in Nat \ {0} /\ Len(stack'[t]) = Depth(t)
         /\ stack'[t][Depth(t)] = [Top(t) EXCEPT !.pc = "deliver",
                                      !.ticket = counter[Top(t).node] + 1]
         /\ Top(t) \in Frame /\ Top(t).pc = "lock"
         /\ \A i \in 1..(Depth(t) - 1) : stack'[t][i] = stack[t][i]
  <1> DEFINE f == [Top(t) EXCEPT !.pc = "deliver", !.ticket = counter[Top(t).node] + 1]
  <1>1. /\ stack[t] # << >> /\ Top(t) \in Frame /\ Top(t).pc = "lock"
        /\ Depth(t) \in Nat /\ Depth(t) \in 1..Depth(t)
    BY TopIsFrame DEF LockObservers
  <1>2. counter[Top(t).node] + 1 \in Nat
    BY <1>1 DEF Frame, TypeOK
  <1>3. f \in Frame
    BY <1>1, <1>2 DEF Frame
  <1>4. stack' = [stack EXCEPT ![t] = SetTop(t, f)]
    BY DEF LockObservers
  <1>5. Depth(t) \in Nat \ {0}
    BY <1>1
  <1> HIDE DEF f
  <1>6. /\ \A u \in Threads \ {t} : stack'[u] = stack[u]
        /\ Len(stack'[t]) = Depth(t) /\ stack'[t][Depth(t)] = f
        /\ \A i \in 1..(Depth(t) - 1) : stack'[t][i] = stack[t][i]
    BY <1>1, <1>3, <1>4, ReplaceShape
  <1> QED
    BY <1>1, <1>5, <1>6 DEF f

\* Deliver: the iterator moves on, and the receive may be a further call.
LEMMA DeliverShape ==
  ASSUME TypeOK, NEW t \in Threads, Deliver(t)
  PROVE  /\ \A u \in Threads \ {t} : stack'[u] = stack[u]
         /\ Depth(t) \in Nat \ {0}
         /\ Top(t) \in Frame /\ Top(t).pc = "deliver"
         /\ \A i \in 1..(Depth(t) - 1) : stack'[t][i] = stack[t][i]
         /\ \E l \in observers[Top(t).node] :
              /\ l \in Link
              /\ IsNext(l, Top(t).node, Top(t).cursor)
              /\ seen' = [seen EXCEPT ![l.to][Top(t).node] = Top(t).ticket]
              /\ stack'[t][Depth(t)] = [Top(t) EXCEPT !.cursor = l.at]
              /\ \/ Len(stack'[t]) = Depth(t)
                 \/ /\ Len(stack'[t]) = Depth(t) + 1
                    /\ stack'[t][Depth(t) + 1].node = l.to
                    /\ stack'[t][Depth(t) + 1].pc = "stamp"
                    /\ stack'[t][Depth(t) + 1].cursor = 0
  <1> DEFINE f == Top(t)
             d == Depth(t)
  <1>1. /\ stack[t] \in Seq(Frame) /\ stack[t] # << >>
        /\ f \in Frame /\ f.pc = "deliver" /\ d \in Nat /\ d \in 1..d
        /\ f.node \in Nodes /\ f.msg \in Messages
    BY TopIsFrame DEF Deliver, Frame
  <1>2. PICK l \in observers[f.node] :
          /\ IsNext(l, f.node, f.cursor)
          /\ seen' = [seen EXCEPT ![l.to][f.node] = f.ticket]
          /\ Receive(t, l.to, f.msg, SetTop(t, [f EXCEPT !.cursor = l.at]))
    BY DEF Deliver
  <1>3. l \in Link /\ l.to \in Nodes /\ [f EXCEPT !.cursor = l.at] \in Frame
    <2>1. l \in Link
      BY <1>1 DEF TypeOK
    <2>2. l.to \in Nodes /\ l.at \in 0..MaxLinks
      BY <2>1, ConstantsAssumption DEF Link
    <2> QED
      BY <1>1, <2>1, <2>2 DEF Frame
  <1> DEFINE g == [f EXCEPT !.cursor = l.at]
             s == SetTop(t, g)
  <1>4. /\ s \in Seq(Frame) /\ Len(s) = d /\ s[d] = g
        /\ \A i \in 1..(d - 1) : s[i] = stack[t][i]
    BY <1>1, <1>3, ReplaceTop DEF SetTop, Depth
  <1>5. /\ \A u \in Threads \ {t} : stack'[u] = stack[u]
        /\ \/ stack'[t] = s
           \/ \E c \in Frame : /\ stack'[t] = Append(s, c)
                               /\ c.node = l.to /\ c.pc = "stamp" /\ c.cursor = 0
    <2> HIDE DEF f, s
    <2>1. Receive(t, l.to, f.msg, s)
      BY <1>2 DEF s
    <2> QED
      BY <1>1, <1>3, <1>4, <2>1, ReceiveShape
  <1>6. d \in Nat \ {0}
    BY <1>1
  <1> HIDE DEF f, d, g, s
  <1>7. CASE stack'[t] = s
    BY <1>1, <1>2, <1>3, <1>4, <1>5, <1>6, <1>7 DEF f, d, g
  <1>8. ASSUME NEW c \in Frame, stack'[t] = Append(s, c),
               c.node = l.to, c.pc = "stamp", c.cursor = 0
        PROVE  /\ Len(stack'[t]) = d + 1 /\ stack'[t][d + 1] = c
               /\ stack'[t][d] = g
               /\ \A i \in 1..(d - 1) : stack'[t][i] = stack[t][i]
    <2>1. /\ Len(stack'[t]) = Len(s) + 1 /\ stack'[t][Len(s) + 1] = c
          /\ \A i \in 1..Len(s) : stack'[t][i] = s[i]
      BY <1>4, <1>8, PushTop
    <2>2. \A i \in 1..(d - 1) : i \in 1..d
      BY <1>6
    <2> QED
      BY <1>1, <1>4, <2>1, <2>2
  <1> QED
    BY <1>1, <1>2, <1>3, <1>5, <1>6, <1>7, <1>8 DEF f, d, g

\* ReceiveSelf: the call is over, or a fresh call of the same node replaces it.
LEMMA ReceiveSelfShape ==
  ASSUME TypeOK, NEW t \in Threads, ReceiveSelf(t)
  PROVE  /\ \A u \in Threads \ {t} : stack'[u] = stack[u]
         /\ Depth(t) \in Nat \ {0}
         /\ Top(t) \in Frame /\ Top(t).pc = "self"
         /\ \A i \in 1..(Depth(t) - 1) : stack'[t][i] = stack[t][i]
         /\ \/ Len(stack'[t]) = Depth(t) - 1
            \/ /\ Len(stack'[t]) = Depth(t)
               /\ stack'[t][Depth(t)].node = Top(t).node
               /\ stack'[t][Depth(t)].pc = "stamp"
               /\ stack'[t][Depth(t)].cursor = 0
  <1> DEFINE d == Depth(t)
             s == Below(t)
  <1>1. /\ stack[t] \in Seq(Frame) /\ stack[t] # << >> /\ s \in Seq(Frame)
        /\ Top(t) \in Frame /\ Top(t).pc = "self" /\ d \in Nat /\ d \in 1..d
        /\ Top(t).node \in Nodes /\ Top(t).msg \in Messages
    BY TopIsFrame DEF ReceiveSelf, Frame
  <1>2. Len(s) = d - 1 /\ \A i \in 1..Len(s) : s[i] = stack[t][i]
    BY <1>1, PopTop DEF Below, Depth
  <1>3. /\ \A u \in Threads \ {t} : stack'[u] = stack[u]
        /\ \/ stack'[t] = s
           \/ \E c \in Frame : /\ stack'[t] = Append(s, c)
                               /\ c.node = Top(t).node /\ c.pc = "stamp" /\ c.cursor = 0
    BY <1>1, ReceiveShape DEF ReceiveSelf
  <1>4. d \in Nat \ {0}
    BY <1>1
  <1> HIDE DEF d, s
  <1>5. CASE stack'[t] = s
    BY <1>1, <1>2, <1>3, <1>4, <1>5 DEF d
  <1>6. ASSUME NEW c \in Frame, stack'[t] = Append(s, c)
        PROVE  /\ Len(stack'[t]) = d /\ stack'[t][d] = c
               /\ \A i \in 1..(d - 1) : stack'[t][i] = stack[t][i]
    <2>1. /\ Len(stack'[t]) = Len(s) + 1 /\ stack'[t][Len(s) + 1] = c
          /\ \A i \in 1..Len(s) : stack'[t][i] = s[i]
      BY <1>1, <1>6, PushTop
    <2>2. Len(s) + 1 = d
      BY <1>2, <1>4
    <2> QED
      BY <1>2, <2>1, <2>2
  <1> QED
    BY <1>1, <1>3, <1>4, <1>5, <1>6 DEF d

\* Return: the call is over.
LEMMA ReturnShape ==
  ASSUME TypeOK, NEW t \in Threads, Return(t)
  PROVE  /\ \A u \in Threads \ {t} : stack'[u] = stack[u]
         /\ Depth(t) \in Nat \ {0} /\ Len(stack'[t]) = Depth(t) - 1
         /\ Top(t) \in Frame /\ Top(t).pc = "deliver"
         /\ \A i \in 1..(Depth(t) - 1) : stack'[t][i] = stack[t][i]
  <1>1. /\ stack[t] \in Seq(Frame) /\ stack[t] # << >>
        /\ Top(t) \in Frame /\ Top(t).pc = "deliver"
        /\ Depth(t) \in Nat /\ Depth(t) \in 1..Depth(t)
    BY TopIsFrame DEF Return
  <1>2. stack'[t] = Below(t) /\ \A u \in Threads \ {t} : stack'[u] = stack[u]
    BY StackOf DEF Return
  <1>3. /\ Len(stack'[t]) = Depth(t) - 1
        /\ \A i \in 1..Len(stack'[t]) : stack'[t][i] = stack[t][i]
    BY <1>1, <1>2, PopTop DEF Below, Depth
  <1>4. Depth(t) \in Nat \ {0}
    BY <1>1
  <1> QED
    BY <1>1, <1>2, <1>3, <1>4

-----------------------------------------------------------------------------
(* The graph stays acyclic and the stacks stay nested.                     *)

LEMMA ListsStep == TypeOK /\ ListsOK /\ [Next]_vars => ListsOK'
  <1> SUFFICES ASSUME TypeOK, ListsOK, [Next]_vars PROVE ListsOK'
    OBVIOUS
  <1>1. ASSUME NEW t \in Threads, NEW a \in Nodes, NEW b \in Nodes, Connect(t, a, b)
        PROVE  ListsOK'
    <2>1. PICK k \in 1..MaxLinks :
            /\ \A l \in observers[a] : l.at < k
            /\ observers' = [observers EXCEPT ![a] = @ \cup {[at |-> k, to |-> b]}]
      BY <1>1 DEF Connect, IsBack
    <2>2. Height[a] > Height[b]
      BY <1>1 DEF Connect, IsBack
    <2>3. /\ \A n \in Nodes \ {a} : observers'[n] = observers[n]
          /\ observers'[a] = observers[a] \cup {[at |-> k, to |-> b]}
      BY <2>1 DEF TypeOK
    <2>4. \A l \in observers[a] : l.at # k
      <3>1. \A l \in observers[a] : l.at \in Nat
        BY ConstantsAssumption DEF TypeOK, Link
      <3> QED
        BY <2>1, <3>1, ConstantsAssumption
    <2> QED
      BY <2>2, <2>3, <2>4 DEF ListsOK
  <1>2. ASSUME NEW t \in Threads, NEW a \in Nodes, NEW b \in Nodes, Disconnect(t, a, b)
        PROVE  ListsOK'
    <2>1. \A n \in Nodes : observers'[n] \subseteq observers[n]
      BY <1>2 DEF Disconnect, TypeOK
    <2> QED
      BY <2>1 DEF ListsOK
  <1>3. CASE UNCHANGED observers
    BY <1>3 DEF ListsOK
  <1> QED
    BY <1>1, <1>2, <1>3
    DEF Next, InCall, Edit, Signal, SetSenderInfo, LockObservers, CountSelf,
        Deliver, ReceiveSelf, Return, vars

\* The conditions Nested puts on one stack.
NestedStack(s) ==
  \A i \in 1..Len(s) :
    /\ i < Len(s) => s[i].pc = "deliver"
    /\ s[i].pc # "deliver" => s[i].cursor = 0
    /\ \A j \in 1..Len(s) : i < j => Height[s[i].node] > Height[s[j].node]

\* The nodes of a stack are nodes, so their heights are numbers.
LEMMA HeightsOfStack ==
  ASSUME TypeOK, NEW t \in Threads, NEW i \in 1..Depth(t)
  PROVE  stack[t][i] \in Frame /\ stack[t][i].node \in Nodes
         /\ Height[stack[t][i].node] \in Nat
  <1>1. stack[t][i] \in Frame
    BY StackFrames DEF TypeOK, Depth
  <1>2. stack[t][i].node \in Nodes
    BY <1>1 DEF Frame
  <1> QED
    BY <1>1, <1>2, ConstantsAssumption

\* A stack whose top frame changes within its loop, or leaves it, stays nested.
LEMMA NestedReplace ==
  ASSUME NEW s, NEW r, NEW d \in Nat \ {0}, Len(s) = d, Len(r) = d,
         \A i \in 1..(d - 1) : r[i] = s[i],
         r[d].node = s[d].node,
         r[d].pc # "deliver" => r[d].cursor = 0,
         NestedStack(s)
  PROVE  NestedStack(r)
  <1>1. \A i \in 1..d : i = d \/ i \in 1..(d - 1)
    OBVIOUS
  <1>2. \A i \in 1..d : r[i].node = s[i].node
    BY <1>1
  <1>3. ASSUME NEW i \in 1..d, i < d PROVE r[i].pc = "deliver"
    <2>1. i \in 1..(d - 1)
      BY <1>3
    <2> QED
      BY <1>3, <2>1 DEF NestedStack
  <1>4. ASSUME NEW i \in 1..d, r[i].pc # "deliver" PROVE r[i].cursor = 0
    BY <1>1, <1>3, <1>4
  <1>5. ASSUME NEW i \in 1..d, NEW j \in 1..d, i < j
        PROVE  Height[r[i].node] > Height[r[j].node]
    BY <1>2, <1>5 DEF NestedStack
  <1> QED
    BY <1>3, <1>4, <1>5 DEF NestedStack

\* A nested stack stays nested without its top.
LEMMA NestedPop ==
  ASSUME NEW s, NEW r, NEW d \in Nat \ {0}, Len(s) = d, Len(r) = d - 1,
         \A i \in 1..(d - 1) : r[i] = s[i],
         NestedStack(s)
  PROVE  NestedStack(r)
  <1>1. \A i \in 1..(d - 1) : i \in 1..d /\ i < d
    OBVIOUS
  <1> QED
    BY <1>1 DEF NestedStack

\* A nested stack stays nested with a call of a lower node on its loop.
LEMMA NestedPush ==
  ASSUME TypeOK, NEW t \in Threads, NEW r, NEW d \in Nat \ {0}, Depth(t) = d,
         Len(r) = d + 1,
         \A i \in 1..(d - 1) : r[i] = stack[t][i],
         r[d].node = stack[t][d].node, r[d].pc = "deliver",
         r[d + 1].node \in Nodes, r[d + 1].cursor = 0,
         Height[stack[t][d].node] > Height[r[d + 1].node],
         NestedStack(stack[t])
  PROVE  NestedStack(r)
  <1>1. \A i \in 1..(d + 1) : i = d + 1 \/ i = d \/ i \in 1..(d - 1)
    OBVIOUS
  <1>2. \A i \in 1..d : r[i].node = stack[t][i].node
    BY <1>1
  <1>3. \A i \in 1..(d - 1) : i \in 1..d /\ i < d
    OBVIOUS
  <1>4. ASSUME NEW i \in 1..(d + 1), i < d + 1 PROVE r[i].pc = "deliver"
    <2>1. CASE i = d
      BY <2>1
    <2>2. CASE i \in 1..(d - 1)
      BY <2>2, <1>3 DEF NestedStack, Depth
    <2> QED
      BY <1>1, <1>4, <2>1, <2>2
  <1>5. ASSUME NEW i \in 1..(d + 1), r[i].pc # "deliver" PROVE r[i].cursor = 0
    BY <1>1, <1>4, <1>5
  <1>6. \A i \in 1..d : Height[stack[t][i].node] >= Height[stack[t][d].node]
    <2>1. \A i \in 1..d : Height[stack[t][i].node] \in Nat
      BY HeightsOfStack
    <2>2. \A i \in 1..d : i < d => Height[stack[t][i].node] > Height[stack[t][d].node]
      BY DEF NestedStack, Depth
    <2>3. \A i \in 1..d : i < d \/ i = d
      OBVIOUS
    <2> QED
      BY <2>1, <2>2, <2>3
  <1>7. ASSUME NEW i \in 1..(d + 1), NEW j \in 1..(d + 1), i < j
        PROVE  Height[r[i].node] > Height[r[j].node]
    <2>1. i \in 1..d
      BY <1>7
    <2>2. CASE j = d + 1
      <3>1. /\ Height[stack[t][i].node] \in Nat /\ Height[stack[t][d].node] \in Nat
            /\ Height[r[d + 1].node] \in Nat
        BY <2>1, HeightsOfStack, ConstantsAssumption
      <3> QED
        BY <1>2, <1>6, <2>1, <2>2, <3>1
    <2>3. CASE j \in 1..d
      BY <1>2, <1>7, <2>1, <2>3 DEF NestedStack, Depth
    <2> QED
      BY <2>2, <2>3
  <1> QED
    BY <1>4, <1>5, <1>7 DEF NestedStack

LEMMA NestedIsPerStack ==
  Nested <=> \A t \in Threads : NestedStack(stack[t])
  BY DEF Nested, NestedStack, Depth

LEMMA NestedStep == TypeOK /\ ListsOK /\ Nested /\ [Next]_vars => Nested'
  <1> SUFFICES ASSUME TypeOK, ListsOK, Nested, [Next]_vars PROVE Nested'
    OBVIOUS
  <1>a. \A t \in Threads : NestedStack(stack[t])
    BY NestedIsPerStack
  <1>b. (\A t \in Threads : NestedStack(stack'[t])) => Nested'
    BY DEF Nested, NestedStack, Depth
  <1>1. ASSUME NEW t \in Threads, \A u \in Threads \ {t} : stack'[u] = stack[u],
               NestedStack(stack'[t])
        PROVE  Nested'
    BY <1>1, <1>a, <1>b
  <1>2. ASSUME NEW t \in Threads, NEW self \in BOOLEAN, Signal(t, self)
        PROVE  Nested'
    <2>1. /\ \A u \in Threads \ {t} : stack'[u] = stack[u]
          /\ Len(stack'[t]) = 1 /\ stack'[t][1].cursor = 0
      BY <1>2, SignalShape
    <2>2. NestedStack(stack'[t])
      BY <2>1 DEF NestedStack
    <2> QED
      BY <1>1, <2>1, <2>2
  <1>3. ASSUME NEW t \in Threads, SetSenderInfo(t)
        PROVE  Nested'
    <2> DEFINE d == Depth(t)
    <2>1. /\ \A u \in Threads \ {t} : stack'[u] = stack[u]
          /\ d \in Nat \ {0} /\ Len(stack'[t]) = d
          /\ stack'[t][d] = [Top(t) EXCEPT !.pc = "lock"]
          /\ Top(t) \in Frame /\ Top(t).pc = "stamp"
          /\ \A i \in 1..(d - 1) : stack'[t][i] = stack[t][i]
      BY <1>3, SetSenderInfoShape
    <2>2. stack[t][d].cursor = 0
      BY <2>1 DEF Nested, Top
    <2>3. stack'[t][d].node = stack[t][d].node /\ stack'[t][d].cursor = 0
      BY <2>1, <2>2 DEF Top, Frame
    <2>4. NestedStack(stack'[t])
      BY <1>a, <2>1, <2>3, NestedReplace DEF Depth
    <2> QED
      BY <1>1, <2>1, <2>4
  <1>4. ASSUME NEW t \in Threads, LockObservers(t)
        PROVE  Nested'
    <2> DEFINE d == Depth(t)
    <2>1. /\ \A u \in Threads \ {t} : stack'[u] = stack[u]
          /\ d \in Nat \ {0} /\ Len(stack'[t]) = d
          /\ stack'[t][d] = [Top(t) EXCEPT !.pc = "deliver",
                                           !.ticket = counter[Top(t).node] + 1]
          /\ Top(t) \in Frame
          /\ \A i \in 1..(d - 1) : stack'[t][i] = stack[t][i]
      BY <1>4, LockObserversShape
    <2>2. stack'[t][d].node = stack[t][d].node /\ stack'[t][d].pc = "deliver"
      BY <2>1 DEF Top, Frame
    <2>3. NestedStack(stack'[t])
      BY <1>a, <2>1, <2>2, NestedReplace DEF Depth
    <2> QED
      BY <1>1, <2>1, <2>3
  <1>5. ASSUME NEW t \in Threads, CountSelf(t)
        PROVE  Nested'
    <2> DEFINE d == Depth(t)
    <2>1. /\ \A u \in Threads \ {t} : stack'[u] = stack[u]
          /\ d \in Nat \ {0} /\ Len(stack'[t]) = d
          /\ stack'[t][d] = [Top(t) EXCEPT !.pc = "self"]
          /\ Top(t) \in Frame /\ Top(t).pc = "lock"
          /\ \A i \in 1..(d - 1) : stack'[t][i] = stack[t][i]
      BY <1>5, CountSelfShape
    <2>2. stack[t][d].cursor = 0
      BY <2>1 DEF Nested, Top
    <2>3. stack'[t][d].node = stack[t][d].node /\ stack'[t][d].cursor = 0
      BY <2>1, <2>2 DEF Top, Frame
    <2>4. NestedStack(stack'[t])
      BY <1>a, <2>1, <2>3, NestedReplace DEF Depth
    <2> QED
      BY <1>1, <2>1, <2>4
  <1>6. ASSUME NEW t \in Threads, Deliver(t)
        PROVE  Nested'
    <2> DEFINE d == Depth(t)
    <2>1. /\ \A u \in Threads \ {t} : stack'[u] = stack[u]
          /\ d \in Nat \ {0}
          /\ Top(t) \in Frame /\ Top(t).pc = "deliver"
          /\ \A i \in 1..(d - 1) : stack'[t][i] = stack[t][i]
      BY <1>6, DeliverShape
    <2>2. PICK l \in observers[Top(t).node] :
            /\ l \in Link
            /\ stack'[t][d] = [Top(t) EXCEPT !.cursor = l.at]
            /\ \/ Len(stack'[t]) = d
               \/ /\ Len(stack'[t]) = d + 1
                  /\ stack'[t][d + 1].node = l.to
                  /\ stack'[t][d + 1].cursor = 0
      BY <1>6, DeliverShape
    <2>3. stack'[t][d].node = stack[t][d].node /\ stack'[t][d].pc = "deliver"
      BY <2>1, <2>2 DEF Top, Frame
    <2>4. CASE Len(stack'[t]) = d
      <3>1. NestedStack(stack'[t])
        BY <1>a, <2>1, <2>3, <2>4, NestedReplace DEF Depth
      <3> QED
        BY <1>1, <2>1, <3>1
    <2>5. CASE Len(stack'[t]) = d + 1
      <3>1. /\ stack'[t][d + 1].node = l.to /\ stack'[t][d + 1].cursor = 0
        <4>1. d + 1 # d
          BY <2>1
        <4> QED
          BY <2>2, <2>5, <4>1
      <3>2. Top(t).node = stack[t][d].node /\ Top(t).node \in Nodes /\ l.to \in Nodes
        BY <2>1, <2>2 DEF Top, Frame, Link
      <3>3. Height[stack[t][d].node] > Height[l.to]
        BY <3>2 DEF ListsOK
      <3>4. NestedStack(stack'[t])
        <4> DEFINE r == stack'[t]
        <4> HIDE DEF r, d
        <4> QED
          BY <1>a, <2>1, <2>3, <2>5, <3>1, <3>2, <3>3, NestedPush DEF r, d
      <3> QED
        BY <1>1, <2>1, <3>4
    <2> QED
      BY <2>2, <2>4, <2>5
  <1>7. ASSUME NEW t \in Threads, ReceiveSelf(t)
        PROVE  Nested'
    <2> DEFINE d == Depth(t)
    <2>1. /\ \A u \in Threads \ {t} : stack'[u] = stack[u]
          /\ d \in Nat \ {0}
          /\ \A i \in 1..(d - 1) : stack'[t][i] = stack[t][i]
          /\ \/ Len(stack'[t]) = d - 1
             \/ /\ Len(stack'[t]) = d
                /\ stack'[t][d].node = Top(t).node
                /\ stack'[t][d].cursor = 0
      BY <1>7, ReceiveSelfShape
    <2>2. CASE Len(stack'[t]) = d - 1
      <3>1. NestedStack(stack'[t])
        BY <1>a, <2>1, <2>2, NestedPop DEF Depth
      <3> QED
        BY <1>1, <2>1, <3>1
    <2>3. CASE /\ Len(stack'[t]) = d
               /\ stack'[t][d].node = Top(t).node
               /\ stack'[t][d].cursor = 0
      <3>1. NestedStack(stack'[t])
        BY <1>a, <2>1, <2>3, NestedReplace DEF Depth, Top
      <3> QED
        BY <1>1, <2>1, <3>1
    <2> QED
      BY <2>1, <2>2, <2>3
  <1>8. ASSUME NEW t \in Threads, Return(t)
        PROVE  Nested'
    <2>1. /\ \A u \in Threads \ {t} : stack'[u] = stack[u]
          /\ Depth(t) \in Nat \ {0} /\ Len(stack'[t]) = Depth(t) - 1
          /\ \A i \in 1..(Depth(t) - 1) : stack'[t][i] = stack[t][i]
      BY <1>8, ReturnShape
    <2>2. NestedStack(stack'[t])
      BY <1>a, <2>1, NestedPop DEF Depth
    <2> QED
      BY <1>1, <2>1, <2>2
  <1>9. CASE UNCHANGED stack
    BY <1>9 DEF Nested, Depth
  <1> QED
    BY <1>2, <1>3, <1>4, <1>5, <1>6, <1>7, <1>8, <1>9
    DEF Next, InCall, Edit, Connect, Disconnect, vars

-----------------------------------------------------------------------------
(* The loops under way.                                                    *)

\* No loop starts, ends or moves.
SameLoops ==
  \A u \in Threads : \A i \in Nat :
    /\ (i \in 1..Len(stack'[u]) /\ stack'[u][i].pc = "deliver") <=> Delivering(u, i)
    /\ Delivering(u, i) => stack'[u][i] = stack[u][i]

\* Two loops of one node are the same loop.
LEMMA OneLoop ==
  ASSUME TypeOK, Nested, MutualExclusion,
         NEW u \in Threads, NEW i \in Nat, Delivering(u, i),
         NEW v \in Threads, NEW j \in Nat, Delivering(v, j),
         stack[u][i].node = stack[v][j].node
  PROVE  u = v /\ i = j
  <1>1. i \in 1..Depth(u) /\ j \in 1..Depth(v)
    BY DEF Delivering
  <1>2. stack[u][i].node \in Nodes
    BY <1>1, HeightsOfStack
  <1>3. owner[stack[u][i].node] = u /\ owner[stack[u][i].node] = v
    BY <1>1, <1>2 DEF MutualExclusion
  <1>4. u = v
    BY <1>3
  <1>5. Height[stack[u][i].node] \in Nat
    BY <1>1, HeightsOfStack
  <1>6. ~(i < j) /\ ~(j < i)
    BY <1>1, <1>4, <1>5 DEF Nested
  <1> QED
    BY <1>4, <1>6

\* A thread that may lock the mutex of the node it calls finds no loop there.
LEMMA NoLoopAtCall ==
  ASSUME TypeOK, Nested, MutualExclusion,
         NEW t \in Threads, At(t, "lock"), CanLock(t, Top(t).node),
         NEW u \in Threads, NEW i \in Nat, Delivering(u, i)
  PROVE  stack[u][i].node # Top(t).node
  <1>1. i \in 1..Depth(u)
    BY DEF Delivering
  <1>2. SUFFICES ASSUME stack[u][i].node = Top(t).node PROVE FALSE
    OBVIOUS
  <1>3. Top(t) \in Frame /\ Top(t).pc = "lock" /\ Depth(t) \in Nat /\ Depth(t) \in 1..Depth(t)
    BY TopIsFrame
  <1>4. owner[Top(t).node] = u
    BY <1>1, <1>2, <1>3 DEF MutualExclusion, Frame
  <1>5. u = t
    BY <1>4, ConstantsAssumption DEF CanLock
  <1>6. i # Depth(t)
    BY <1>3, <1>5 DEF Delivering, Top
  <1>7. i < Depth(t)
    BY <1>1, <1>3, <1>5, <1>6
  <1>8. Height[stack[t][i].node] > Height[Top(t).node]
    BY <1>1, <1>3, <1>5, <1>7 DEF Nested, Top
  <1>9. Height[Top(t).node] \in Nat
    BY <1>3, ConstantsAssumption DEF Frame
  <1> QED
    BY <1>2, <1>5, <1>8, <1>9

\* Steps that start, end or move no loop.
LEMMA QuietSteps ==
  ASSUME TypeOK, Nested, NEW t \in Threads,
         \/ \E self \in BOOLEAN : Signal(t, self)
         \/ SetSenderInfo(t) \/ CountSelf(t) \/ ReceiveSelf(t)
  PROVE  SameLoops
  <1>1. SUFFICES ASSUME NEW u \in Threads, NEW i \in Nat
        PROVE  /\ (i \in 1..Len(stack'[u]) /\ stack'[u][i].pc = "deliver") <=> Delivering(u, i)
               /\ Delivering(u, i) => stack'[u][i] = stack[u][i]
    BY DEF SameLoops
  <1> DEFINE Goal ==
        /\ (i \in 1..Len(stack'[u]) /\ stack'[u][i].pc = "deliver") <=> Delivering(u, i)
        /\ Delivering(u, i) => stack'[u][i] = stack[u][i]
  <1>2. ASSUME stack'[u] = stack[u]
        PROVE  Goal
    BY <1>2 DEF Delivering, Depth
  \* t's own stack: below the top nothing changes, and the top is in no loop
  <1>3. ASSUME NEW d \in Nat \ {0}, u = t, Depth(t) = d, Top(t).pc # "deliver",
               \/ Len(stack'[t]) = d - 1
               \/ Len(stack'[t]) = d /\ stack'[t][d].pc # "deliver",
               \A j \in 1..(d - 1) : stack'[t][j] = stack[t][j]
        PROVE  Goal
    <2>1. CASE i \in 1..(d - 1)
      <3>1. i \in 1..d /\ i \in 1..Len(stack'[t]) /\ stack'[t][i] = stack[t][i]
        BY <1>3, <2>1
      <3> QED
        BY <1>3, <3>1 DEF Delivering
    <2>2. CASE i \notin 1..(d - 1)
      <3>1. i \in 1..d => i = d
        BY <2>2
      <3>2. ~Delivering(u, i)
        BY <1>3, <3>1 DEF Delivering, Top
      <3>3. i \in 1..Len(stack'[t]) => i = d /\ stack'[t][d].pc # "deliver"
        BY <1>3, <2>2
      <3> QED
        BY <1>3, <3>2, <3>3
    <2> QED
      BY <2>1, <2>2
  <1>4. ASSUME NEW self \in BOOLEAN, Signal(t, self), u = t
        PROVE  Goal
    <2>1. Len(stack'[t]) = 1 /\ stack'[t][1].pc = "stamp" /\ Depth(t) = 0
      BY <1>4, SignalShape
    <2>2. i \in 1..1 => i = 1
      OBVIOUS
    <2>3. i \notin 1..0
      OBVIOUS
    <2> QED
      BY <1>4, <2>1, <2>2, <2>3 DEF Delivering
  <1>5. ASSUME SetSenderInfo(t), u = t
        PROVE  Goal
    <2>1. /\ Depth(t) \in Nat \ {0} /\ Len(stack'[t]) = Depth(t)
          /\ stack'[t][Depth(t)] = [Top(t) EXCEPT !.pc = "lock"]
          /\ Top(t) \in Frame /\ Top(t).pc = "stamp"
          /\ \A j \in 1..(Depth(t) - 1) : stack'[t][j] = stack[t][j]
      BY <1>5, SetSenderInfoShape
    <2>2. stack'[t][Depth(t)].pc # "deliver"
      BY <2>1 DEF Frame
    <2> QED
      BY <1>3, <1>5, <2>1, <2>2
  <1>6. ASSUME CountSelf(t), u = t
        PROVE  Goal
    <2>1. /\ Depth(t) \in Nat \ {0} /\ Len(stack'[t]) = Depth(t)
          /\ stack'[t][Depth(t)] = [Top(t) EXCEPT !.pc = "self"]
          /\ Top(t) \in Frame /\ Top(t).pc = "lock"
          /\ \A j \in 1..(Depth(t) - 1) : stack'[t][j] = stack[t][j]
      BY <1>6, CountSelfShape
    <2>2. stack'[t][Depth(t)].pc # "deliver"
      BY <2>1 DEF Frame
    <2> QED
      BY <1>3, <1>6, <2>1, <2>2
  <1>7. ASSUME ReceiveSelf(t), u = t
        PROVE  Goal
    <2>1. /\ Depth(t) \in Nat \ {0} /\ Top(t).pc = "self"
          /\ \A j \in 1..(Depth(t) - 1) : stack'[t][j] = stack[t][j]
          /\ \/ Len(stack'[t]) = Depth(t) - 1
             \/ Len(stack'[t]) = Depth(t) /\ stack'[t][Depth(t)].pc = "stamp"
      BY <1>7, ReceiveSelfShape
    <2> QED
      BY <1>3, <1>7, <2>1
  <1>8. u # t => stack'[u] = stack[u]
    BY SignalShape, SetSenderInfoShape, CountSelfShape, ReceiveSelfShape
  <1> QED
    BY <1>2, <1>4, <1>5, <1>6, <1>7, <1>8

\* LockObservers starts one loop, at the top of the stack.
LEMMA LoopStarts ==
  ASSUME TypeOK, NEW t \in Threads, LockObservers(t),
         NEW u \in Threads, NEW i \in Nat
  PROVE  /\ (i \in 1..Len(stack'[u]) /\ stack'[u][i].pc = "deliver")
              <=> (Delivering(u, i) \/ (u = t /\ i = Depth(t)))
         /\ Delivering(u, i) => stack'[u][i] = stack[u][i]
  <1> DEFINE d == Depth(t)
  <1>1. /\ \A v \in Threads \ {t} : stack'[v] = stack[v]
        /\ d \in Nat \ {0} /\ Len(stack'[t]) = d
        /\ stack'[t][d] = [Top(t) EXCEPT !.pc = "deliver",
                                         !.ticket = counter[Top(t).node] + 1]
        /\ Top(t) \in Frame /\ Top(t).pc = "lock"
        /\ \A j \in 1..(d - 1) : stack'[t][j] = stack[t][j]
    BY LockObserversShape
  <1>2. stack'[t][d].pc = "deliver" /\ stack[t][d].pc = "lock"
    BY <1>1 DEF Frame, Top
  <1>3. CASE u # t
    BY <1>1, <1>3 DEF Delivering, Depth
  <1>4. CASE u = t /\ i \in 1..(d - 1)
    <2>1. i \in 1..d /\ i # d
      BY <1>1, <1>4
    <2> QED
      BY <1>1, <1>4, <2>1 DEF Delivering
  <1>5. CASE u = t /\ i \notin 1..(d - 1)
    <2>1. i \in 1..d <=> i = d
      BY <1>1, <1>5
    <2> QED
      BY <1>1, <1>2, <1>5, <2>1 DEF Delivering
  <1> QED
    BY <1>3, <1>4, <1>5

\* Return ends the loop at the top of the stack.
LEMMA LoopEnds ==
  ASSUME TypeOK, NEW t \in Threads, Return(t),
         NEW u \in Threads, NEW i \in Nat
  PROVE  /\ (i \in 1..Len(stack'[u]) /\ stack'[u][i].pc = "deliver")
              <=> (Delivering(u, i) /\ ~(u = t /\ i = Depth(t)))
         /\ (Delivering(u, i) /\ ~(u = t /\ i = Depth(t))) => stack'[u][i] = stack[u][i]
  <1> DEFINE d == Depth(t)
  <1>1. /\ \A v \in Threads \ {t} : stack'[v] = stack[v]
        /\ d \in Nat \ {0} /\ Len(stack'[t]) = d - 1
        /\ \A j \in 1..(d - 1) : stack'[t][j] = stack[t][j]
    BY ReturnShape
  <1>2. CASE u # t
    BY <1>1, <1>2 DEF Delivering, Depth
  <1>3. CASE u = t /\ i \in 1..(d - 1)
    <2>1. i \in 1..d /\ i # d
      BY <1>1, <1>3
    <2> QED
      BY <1>1, <1>3, <2>1 DEF Delivering
  <1>4. CASE u = t /\ i \notin 1..(d - 1)
    <2>1. i \in 1..d => i = d
      BY <1>1, <1>4
    <2> QED
      BY <1>1, <1>4, <2>1 DEF Delivering
  <1> QED
    BY <1>2, <1>3, <1>4

\* Deliver moves the iterator of the loop at the top of the stack.
LEMMA LoopMoves ==
  ASSUME TypeOK, NEW t \in Threads, Deliver(t),
         NEW u \in Threads, NEW i \in Nat
  PROVE  /\ (i \in 1..Len(stack'[u]) /\ stack'[u][i].pc = "deliver") <=> Delivering(u, i)
         /\ (Delivering(u, i) /\ ~(u = t /\ i = Depth(t))) => stack'[u][i] = stack[u][i]
  <1> DEFINE d == Depth(t)
  <1>1. /\ \A v \in Threads \ {t} : stack'[v] = stack[v]
        /\ d \in Nat \ {0}
        /\ Top(t) \in Frame /\ Top(t).pc = "deliver"
        /\ \A j \in 1..(d - 1) : stack'[t][j] = stack[t][j]
    BY DeliverShape
  <1>2. /\ stack'[t][d].pc = "deliver" /\ stack[t][d].pc = "deliver"
        /\ \/ Len(stack'[t]) = d
           \/ Len(stack'[t]) = d + 1 /\ stack'[t][d + 1].pc = "stamp"
    <2>1. \E l \in observers[Top(t).node] :
            /\ stack'[t][d] = [Top(t) EXCEPT !.cursor = l.at]
            /\ \/ Len(stack'[t]) = d
               \/ Len(stack'[t]) = d + 1 /\ stack'[t][d + 1].pc = "stamp"
      BY DeliverShape
    <2> QED
      BY <1>1, <2>1 DEF Frame, Top
  <1>3. CASE u # t
    BY <1>1, <1>3 DEF Delivering, Depth
  <1>4. CASE u = t /\ i \in 1..(d - 1)
    <2>1. i \in 1..d /\ i # d /\ i \in 1..Len(stack'[t])
      BY <1>1, <1>2, <1>4
    <2> QED
      BY <1>1, <1>4, <2>1 DEF Delivering
  <1>5. CASE u = t /\ i = d
    <2>1. d \in 1..d /\ d \in 1..Len(stack'[t])
      BY <1>1, <1>2
    <2> QED
      BY <1>2, <1>5, <2>1 DEF Delivering
  <1>6. CASE u = t /\ i \notin 1..d
    <2>1. i \in 1..Len(stack'[t]) => stack'[t][i].pc = "stamp"
      BY <1>1, <1>2, <1>6
    <2> QED
      BY <1>6, <2>1 DEF Delivering
  <1>7. i \in 1..(d - 1) \/ i = d \/ i \notin 1..d
    BY <1>1
  <1> QED
    BY <1>3, <1>4, <1>5, <1>6, <1>7

-----------------------------------------------------------------------------
(* Each part of the invariant is preserved.                                *)

\* Deliver changes neither the node nor the ticket of a loop.
LEMMA DeliverKeeps ==
  ASSUME TypeOK, NEW t \in Threads, Deliver(t),
         NEW u \in Threads, NEW i \in Nat, Delivering(u, i)
  PROVE  /\ stack'[u][i].node = stack[u][i].node
         /\ stack'[u][i].ticket = stack[u][i].ticket
  <1>1. CASE u = t /\ i = Depth(t)
    <2>1. \E l \in observers[Top(t).node] :
            stack'[t][Depth(t)] = [Top(t) EXCEPT !.cursor = l.at]
      BY DeliverShape
    <2>2. Top(t) \in Frame
      BY DeliverShape
    <2> QED
      BY <1>1, <2>1, <2>2 DEF Top, Frame
  <1>2. CASE ~(u = t /\ i = Depth(t))
    BY <1>2, LoopMoves
  <1> QED
    BY <1>1, <1>2

LEMMA MutexStep ==
  ASSUME IInv, [Next]_vars
  PROVE  MutualExclusion'
  <1> USE DEF IInv
  <1>a. \A u \in Threads : \A i \in 1..Depth(u) : i \in Nat
    BY StackFrames DEF TypeOK, Depth
  <1>b. \A u \in Threads : \A i \in 1..Len(stack'[u]) : i \in Nat
    <2>1. TypeOK'
      BY TypeStep
    <2> QED
      BY <2>1, StackFrames DEF TypeOK
  \* the invariant for one owner and one node, in the new state
  <1>c. SUFFICES ASSUME NEW u \in Threads, NEW m \in Nodes
        PROVE  owner'[m] = u <=> \E i \in 1..Len(stack'[u]) :
                 /\ i \in 1..Len(stack'[u]) /\ stack'[u][i].pc = "deliver"
                 /\ stack'[u][i].node = m
    BY DEF MutualExclusion, Delivering, Depth
  <1> DEFINE Goal == owner'[m] = u <=> \E i \in 1..Len(stack'[u]) :
                       /\ i \in 1..Len(stack'[u]) /\ stack'[u][i].pc = "deliver"
                       /\ stack'[u][i].node = m
  <1>d. owner[m] = u <=> \E i \in 1..Depth(u) : Delivering(u, i) /\ stack[u][i].node = m
    BY DEF MutualExclusion
  <1>1. ASSUME owner' = owner, SameLoops
        PROVE  Goal
    BY <1>1, <1>a, <1>b, <1>d DEF SameLoops, Delivering
  <1>2. ASSUME NEW t \in Threads, \/ \E self \in BOOLEAN : Signal(t, self)
                                  \/ SetSenderInfo(t) \/ CountSelf(t) \/ ReceiveSelf(t)
        PROVE  Goal
    BY <1>1, <1>2, QuietSteps DEF Signal, SetSenderInfo, CountSelf, ReceiveSelf
  <1>3. ASSUME stack' = stack, owner' = owner
        PROVE  Goal
    BY <1>3, <1>d DEF Delivering, Depth
  <1>4. ASSUME NEW t \in Threads, LockObservers(t)
        PROVE  Goal
    <2> DEFINE n == Top(t).node
               d == Depth(t)
    <2>1. /\ d \in Nat \ {0} /\ Len(stack'[t]) = d /\ Top(t) \in Frame
          /\ stack'[t][d] = [Top(t) EXCEPT !.pc = "deliver",
                                           !.ticket = counter[Top(t).node] + 1]
      BY <1>4, LockObserversShape
    <2>2. d \in 1..d /\ stack'[t][d].node = n /\ stack'[t][d].pc = "deliver" /\ n \in Nodes
      BY <2>1 DEF Frame
    <2>3. At(t, "lock") /\ CanLock(t, n)
      BY <1>4 DEF LockObservers
    <2>4. owner' = [owner EXCEPT ![n] = t]
      BY <1>4 DEF LockObservers
    <2>5. CASE m = n /\ u = t
      <3>1. owner'[m] = u
        BY <2>2, <2>4, <2>5 DEF TypeOK
      <3> QED
        BY <2>1, <2>2, <2>5, <3>1
    <2>6. CASE m = n /\ u # t
      <3>1. owner'[m] # u
        BY <2>2, <2>4, <2>6 DEF TypeOK
      <3>2. ASSUME NEW i \in 1..Len(stack'[u]), stack'[u][i].pc = "deliver",
                   stack'[u][i].node = m
            PROVE  FALSE
        <4>1. i \in Nat
          BY <1>b
        <4>2. Delivering(u, i) /\ stack'[u][i] = stack[u][i]
          BY <1>4, <2>6, <3>2, <4>1, LoopStarts
        <4> QED
          BY <2>3, <2>6, <3>2, <4>1, <4>2, NoLoopAtCall
      <3> QED
        BY <3>1, <3>2
    <2>7. CASE m # n
      <3>1. owner'[m] = owner[m]
        BY <2>2, <2>4, <2>7 DEF TypeOK
      <3>2. ASSUME NEW i \in 1..Len(stack'[u]), stack'[u][i].pc = "deliver",
                   stack'[u][i].node = m
            PROVE  Delivering(u, i) /\ stack[u][i].node = m
        <4>1. i \in Nat
          BY <1>b
        <4>2. ~(u = t /\ i = d)
          BY <2>2, <2>7, <3>2
        <4> QED
          BY <1>4, <3>2, <4>1, <4>2, LoopStarts
      <3>3. ASSUME NEW i \in 1..Depth(u), Delivering(u, i), stack[u][i].node = m
            PROVE  /\ i \in 1..Len(stack'[u]) /\ stack'[u][i].pc = "deliver"
                   /\ stack'[u][i].node = m
        BY <1>4, <1>a, <3>3, LoopStarts
      <3> QED
        BY <1>d, <3>1, <3>2, <3>3 DEF Delivering
    <2> QED
      BY <2>5, <2>6, <2>7
  <1>5. ASSUME NEW t \in Threads, Deliver(t)
        PROVE  Goal
    <2>1. owner' = owner
      BY <1>5 DEF Deliver
    <2>2. \A i \in Nat :
            (i \in 1..Len(stack'[u]) /\ stack'[u][i].pc = "deliver") <=> Delivering(u, i)
      BY <1>5, LoopMoves
    <2>3. \A i \in Nat : Delivering(u, i) => stack'[u][i].node = stack[u][i].node
      BY <1>5, DeliverKeeps
    <2> QED
      BY <1>a, <1>b, <1>d, <2>1, <2>2, <2>3 DEF Delivering
  <1>6. ASSUME NEW t \in Threads, Return(t)
        PROVE  Goal
    <2> DEFINE n == Top(t).node
               d == Depth(t)
               again == \E i \in 1..(d - 1) : stack[t][i].node = n
    <2>1. /\ d \in Nat \ {0} /\ Top(t) \in Frame /\ Top(t).pc = "deliver"
          /\ Len(stack'[t]) = d - 1
          /\ \A i \in 1..(d - 1) : stack'[t][i] = stack[t][i]
      BY <1>6, ReturnShape
    <2>2. n \in Nodes /\ Delivering(t, d) /\ stack[t][d].node = n
      BY <2>1 DEF Frame, Delivering, Top
    <2>3. owner[n] = t
      BY <2>2 DEF MutualExclusion, Delivering
    <2>4. owner' = IF again THEN owner ELSE [owner EXCEPT ![n] = NoThread]
      BY <1>6 DEF Return, Released
    <2>5. \A i \in 1..(d - 1) : stack[t][i].pc = "deliver"
      BY <2>1 DEF Nested
    <2>6. CASE m = n /\ u = t
      <3>1. owner'[m] = u <=> again
        BY <2>2, <2>3, <2>4, <2>6, ConstantsAssumption DEF TypeOK
      <3> HIDE DEF d
      <3>2. again <=> \E i \in 1..Len(stack'[u]) :
                 /\ i \in 1..Len(stack'[u]) /\ stack'[u][i].pc = "deliver"
                 /\ stack'[u][i].node = m
        BY <2>1, <2>5, <2>6
      <3> QED
        BY <3>1, <3>2
    <2>7. CASE m = n /\ u # t
      <3>1. owner'[m] # u
        BY <2>2, <2>3, <2>4, <2>7, ConstantsAssumption DEF TypeOK
      <3>2. ASSUME NEW i \in 1..Len(stack'[u]), stack'[u][i].pc = "deliver",
                   stack'[u][i].node = m
            PROVE  FALSE
        <4>1. i \in Nat
          BY <1>b
        <4>2. Delivering(u, i) /\ stack'[u][i] = stack[u][i]
          BY <1>6, <2>7, <3>2, <4>1, LoopEnds
        <4>3. owner[m] = u
          BY <1>d, <3>2, <4>2 DEF Delivering
        <4> QED
          BY <2>3, <2>7, <4>3
      <3> QED
        BY <3>1, <3>2
    <2>8. CASE m # n
      <3>1. owner'[m] = owner[m]
        BY <2>2, <2>4, <2>8 DEF TypeOK
      <3>2. ASSUME NEW i \in 1..Len(stack'[u]), stack'[u][i].pc = "deliver",
                   stack'[u][i].node = m
            PROVE  Delivering(u, i) /\ stack[u][i].node = m
        BY <1>b, <1>6, <3>2, LoopEnds
      <3>3. ASSUME NEW i \in 1..Depth(u), Delivering(u, i), stack[u][i].node = m
            PROVE  /\ i \in 1..Len(stack'[u]) /\ stack'[u][i].pc = "deliver"
                   /\ stack'[u][i].node = m
        <4>1. ~(u = t /\ i = d)
          BY <2>2, <2>8, <3>3
        <4> QED
          BY <1>6, <1>a, <3>3, <4>1, LoopEnds
      <3> QED
        BY <1>d, <3>1, <3>2, <3>3 DEF Delivering
    <2> QED
      BY <2>6, <2>7, <2>8
  <1> QED
    BY <1>2, <1>3, <1>4, <1>5, <1>6
    DEF Next, InCall, Edit, Connect, Disconnect, vars

\* No observer has seen a notification its node has not counted.
LEMMA SeenStep ==
  ASSUME IInv, [Next]_vars, NEW o \in Nodes, NEW m \in Nodes
  PROVE  seen'[o][m] <= counter'[m]
  <1> USE DEF IInv
  <1>1. seen[o][m] \in Nat /\ counter[m] \in Nat /\ seen[o][m] <= counter[m]
    BY DEF TypeOK, Tickets
  <1>2. CASE counter' = counter /\ seen' = seen
    BY <1>1, <1>2
  <1>3. ASSUME NEW t \in Threads, LockObservers(t) \/ CountSelf(t)
        PROVE  seen'[o][m] <= counter'[m]
    <2>1. seen' = seen /\ counter' = [counter EXCEPT ![Top(t).node] = @ + 1]
      BY <1>3 DEF LockObservers, CountSelf, Counted
    <2>2. counter'[m] = counter[m] \/ counter'[m] = counter[m] + 1
      BY <2>1 DEF TypeOK
    <2> QED
      BY <1>1, <2>1, <2>2
  <1>4. ASSUME NEW t \in Threads, Deliver(t)
        PROVE  seen'[o][m] <= counter'[m]
    <2> DEFINE n == Top(t).node
    <2>1. /\ Depth(t) \in Nat \ {0} /\ Top(t) \in Frame /\ Top(t).pc = "deliver"
          /\ \E l \in observers[n] :
               l \in Link /\ seen' = [seen EXCEPT ![l.to][n] = Top(t).ticket]
      BY <1>4, DeliverShape
    <2>2. Top(t).ticket = counter[n] /\ n \in Nodes
      BY <2>1 DEF Delivering, Top, Frame, Tickets
    <2>3. PICK l \in Link : seen' = [seen EXCEPT ![l.to][n] = counter[n]]
      BY <2>1, <2>2
    <2>4. l.to \in Nodes
      BY DEF Link
    <2>5. CASE o = l.to
      <3>1. seen'[o] = [seen[o] EXCEPT ![n] = counter[n]]
        BY <2>3, <2>4, <2>5 DEF TypeOK
      <3>2. seen'[o][m] = IF m = n THEN counter[n] ELSE seen[o][m]
        BY <3>1, <2>2 DEF TypeOK
      <3> QED
        BY <1>1, <1>4, <3>2 DEF Deliver
    <2>6. CASE o # l.to
      <3>1. seen'[o] = seen[o]
        BY <2>3, <2>6 DEF TypeOK
      <3> QED
        BY <1>1, <1>4, <3>1 DEF Deliver
    <2> QED
      BY <2>5, <2>6
  <1> QED
    BY <1>2, <1>3, <1>4
    DEF Next, InCall, Edit, Signal, SetSenderInfo, ReceiveSelf, Return,
        Connect, Disconnect, vars

LEMMA TicketsStep ==
  ASSUME IInv, [Next]_vars
  PROVE  Tickets'
  <1> USE DEF IInv
  <1>a. \A u \in Threads : \A i \in 1..Depth(u) : i \in Nat /\ stack[u][i].node \in Nodes
    BY HeightsOfStack, StackFrames DEF TypeOK, Depth
  <1>b. \A u \in Threads : \A i \in 1..Len(stack'[u]) : i \in Nat
    <2>1. TypeOK'
      BY TypeStep
    <2> QED
      BY <2>1, StackFrames DEF TypeOK
  <1>c. \A u \in Threads : \A i \in Nat :
          Delivering(u, i) => stack[u][i].ticket = counter[stack[u][i].node]
    BY DEF Tickets, Delivering
  <1>d. SUFFICES ASSUME NEW u \in Threads, NEW i \in Nat,
                        i \in 1..Len(stack'[u]), stack'[u][i].pc = "deliver"
        PROVE  stack'[u][i].ticket = counter'[stack'[u][i].node]
    BY <1>b, SeenStep DEF Tickets, Delivering, Depth
  <1> DEFINE Goal == stack'[u][i].ticket = counter'[stack'[u][i].node]
  <1>1. ASSUME Delivering(u, i), stack'[u][i] = stack[u][i], counter' = counter
        PROVE  Goal
    BY <1>1, <1>c
  <1>2. ASSUME NEW t \in Threads, Delivering(u, i), stack'[u][i] = stack[u][i],
               At(t, "lock"), CanLock(t, Top(t).node),
               counter' = [counter EXCEPT ![Top(t).node] = @ + 1]
        PROVE  Goal
    <2>1. stack[u][i].node # Top(t).node /\ stack[u][i].node \in Nodes
      BY <1>2, <1>a, NoLoopAtCall DEF Delivering
    <2>2. counter'[stack[u][i].node] = counter[stack[u][i].node]
      BY <1>2, <2>1 DEF TypeOK
    <2> QED
      BY <1>2, <1>c, <2>2
  <1>3. ASSUME NEW t \in Threads,
               (\E self \in BOOLEAN : Signal(t, self)) \/ SetSenderInfo(t) \/ ReceiveSelf(t)
        PROVE  Goal
    BY <1>1, <1>3, <1>d, QuietSteps DEF SameLoops, Signal, SetSenderInfo, ReceiveSelf
  <1>4. ASSUME NEW t \in Threads, CountSelf(t)
        PROVE  Goal
    <2>1. Delivering(u, i) /\ stack'[u][i] = stack[u][i]
      BY <1>4, <1>d, QuietSteps DEF SameLoops
    <2> QED
      BY <1>2, <1>4, <2>1 DEF CountSelf, Counted
  <1>5. ASSUME NEW t \in Threads, LockObservers(t)
        PROVE  Goal
    <2>1. CASE u = t /\ i = Depth(t)
      <3>1. /\ stack'[u][i] = [Top(t) EXCEPT !.pc = "deliver",
                                             !.ticket = counter[Top(t).node] + 1]
            /\ Top(t) \in Frame
        BY <1>5, <2>1, LockObserversShape
      <3>2. /\ stack'[u][i].node = Top(t).node /\ Top(t).node \in Nodes
            /\ stack'[u][i].ticket = counter[Top(t).node] + 1
        BY <3>1 DEF Frame
      <3>3. counter'[Top(t).node] = counter[Top(t).node] + 1
        BY <1>5, <3>2 DEF LockObservers, Counted, TypeOK
      <3> QED
        BY <3>2, <3>3
    <2>2. CASE ~(u = t /\ i = Depth(t))
      <3>1. Delivering(u, i) /\ stack'[u][i] = stack[u][i]
        BY <1>5, <1>d, <2>2, LoopStarts
      <3> QED
        BY <1>2, <1>5, <3>1 DEF LockObservers, Counted
    <2> QED
      BY <2>1, <2>2
  <1>6. ASSUME NEW t \in Threads, Deliver(t)
        PROVE  Goal
    <2>1. Delivering(u, i)
      BY <1>6, <1>d, LoopMoves
    <2> QED
      BY <1>6, <1>c, <2>1, DeliverKeeps DEF Deliver
  <1>7. ASSUME NEW t \in Threads, Return(t)
        PROVE  Goal
    BY <1>1, <1>7, <1>d, LoopEnds DEF Return
  <1>8. ASSUME stack' = stack, counter' = counter
        PROVE  Goal
    BY <1>1, <1>8, <1>d DEF Delivering, Depth
  <1> QED
    BY <1>3, <1>4, <1>5, <1>6, <1>7, <1>8
    DEF Next, InCall, Edit, Connect, Disconnect, vars

\* The two facts about one loop, as CursorValid and DeliveredPrefix state them.
LoopOK(f) ==
  /\ f.cursor > 0 => \E l \in observers[f.node] : l.at = f.cursor
  /\ \A l \in observers[f.node] : l.at <= f.cursor => seen[l.to][f.node] = f.ticket

LEMMA LoopsAreOK ==
  (CursorValid /\ DeliveredPrefix)
    <=> \A u \in Threads : \A i \in 1..Depth(u) : Delivering(u, i) => LoopOK(stack[u][i])
  BY DEF CursorValid, DeliveredPrefix, LoopOK

\* A loop under way keeps its node's list to the thread that runs it.
LEMMA EditorOwns ==
  ASSUME IInv, NEW t \in Threads, NEW a \in Nodes, MayEdit(t, a),
         NEW u \in Threads, NEW i \in Nat, Delivering(u, i), stack[u][i].node = a
  PROVE  u = t
  <1>1. owner[a] = u
    BY DEF IInv, MutualExclusion, Delivering
  <1> QED
    BY <1>1, ConstantsAssumption DEF MayEdit, CanLock

LEMMA LoopsStep ==
  ASSUME IInv, [Next]_vars
  PROVE  CursorValid' /\ DeliveredPrefix'
  <1> USE DEF IInv
  <1>a. \A u \in Threads : \A i \in 1..Depth(u) :
          /\ i \in Nat /\ stack[u][i] \in Frame /\ stack[u][i].node \in Nodes
          /\ stack[u][i].cursor \in Nat
    <2>1. \A u \in Threads : \A i \in 1..Depth(u) : i \in Nat /\ stack[u][i] \in Frame
      BY StackFrames DEF TypeOK, Depth
    <2> QED
      BY <2>1, ConstantsAssumption DEF Frame
  <1>b. \A u \in Threads : \A i \in 1..Len(stack'[u]) : i \in Nat
    <2>1. TypeOK'
      BY TypeStep
    <2> QED
      BY <2>1, StackFrames DEF TypeOK
  <1>c. \A u \in Threads : \A i \in Nat : Delivering(u, i) => LoopOK(stack[u][i])
    BY LoopsAreOK DEF Delivering
  <1>d. \A n \in Nodes : \A l \in observers[n] : l \in Link /\ l.at \in Nat \ {0} /\ l.to \in Nodes
    BY ConstantsAssumption DEF TypeOK, Link
  <1>e. SUFFICES ASSUME NEW u \in Threads, NEW i \in Nat,
                        i \in 1..Len(stack'[u]), stack'[u][i].pc = "deliver"
                 PROVE  LoopOK(stack[u][i])'
    BY <1>b DEF CursorValid, DeliveredPrefix, LoopOK, Delivering, Depth
  <1>1. ASSUME Delivering(u, i), stack'[u][i] = stack[u][i],
               observers' = observers, seen' = seen
        PROVE  LoopOK(stack[u][i])'
    BY <1>1, <1>c DEF LoopOK
  <1>2. ASSUME NEW t \in Threads, \/ \E self \in BOOLEAN : Signal(t, self)
                                  \/ SetSenderInfo(t) \/ CountSelf(t) \/ ReceiveSelf(t)
        PROVE  LoopOK(stack[u][i])'
    <2>1. observers' = observers /\ seen' = seen
      BY <1>2 DEF Signal, SetSenderInfo, CountSelf, ReceiveSelf
    <2>2. Delivering(u, i) /\ stack'[u][i] = stack[u][i]
      BY <1>2, <1>e, QuietSteps DEF SameLoops
    <2> QED
      BY <1>1, <2>1, <2>2
  <1>3. CASE UNCHANGED vars
    <2>1. Delivering(u, i)
      BY <1>3, <1>e DEF Delivering, Depth, vars
    <2> QED
      BY <1>1, <1>3, <2>1 DEF vars
  <1>4. ASSUME NEW t \in Threads, LockObservers(t)
        PROVE  LoopOK(stack[u][i])'
    <2> DEFINE n == Top(t).node
               d == Depth(t)
    <2>1. /\ d \in Nat \ {0} /\ Top(t) \in Frame /\ Top(t).pc = "lock"
          /\ stack'[t][d] = [Top(t) EXCEPT !.pc = "deliver",
                                           !.ticket = counter[Top(t).node] + 1]
      BY <1>4, LockObserversShape
    <2>2. observers' = observers /\ seen' = seen
      BY <1>4 DEF LockObservers
    <2>3. CASE u = t /\ i = d
      <3>1. stack'[u][i].cursor = 0 /\ stack'[u][i].node \in Nodes
        <4>1. Top(t).cursor = 0
          BY <2>1 DEF Nested, Top
        <4> QED
          BY <2>1, <2>3, <4>1 DEF Frame
      <3>2. \A l \in observers[stack'[u][i].node] : ~(l.at <= 0)
        BY <1>d, <3>1
      <3> QED
        BY <2>2, <3>1, <3>2 DEF LoopOK
    <2>4. CASE ~(u = t /\ i = d)
      <3>1. Delivering(u, i) /\ stack'[u][i] = stack[u][i]
        BY <1>4, <1>e, <2>4, LoopStarts
      <3> QED
        BY <1>1, <2>2, <3>1
    <2> QED
      BY <2>3, <2>4
  <1>5. ASSUME NEW t \in Threads, Return(t)
        PROVE  LoopOK(stack[u][i])'
    <2>1. observers' = observers /\ seen' = seen
      BY <1>5 DEF Return
    <2>2. Delivering(u, i) /\ stack'[u][i] = stack[u][i]
      BY <1>5, <1>e, LoopEnds
    <2> QED
      BY <1>1, <2>1, <2>2
  <1>6. ASSUME NEW t \in Threads, Deliver(t)
        PROVE  LoopOK(stack[u][i])'
    <2> DEFINE n == Top(t).node
               d == Depth(t)
               f == Top(t)
    <2>1. /\ d \in Nat \ {0} /\ f \in Frame /\ f.pc = "deliver"
      BY <1>6, DeliverShape
    <2>2. PICK l \in observers[n] :
            /\ l \in Link
            /\ IsNext(l, n, f.cursor)
            /\ seen' = [seen EXCEPT ![l.to][n] = f.ticket]
            /\ stack'[t][d] = [f EXCEPT !.cursor = l.at]
      BY <1>6, DeliverShape
    <2>3. n \in Nodes /\ l.to \in Nodes /\ f.cursor \in Nat
      BY <2>1, <2>2, ConstantsAssumption DEF Frame, Link
    <2>4. Delivering(t, d) /\ stack[t][d] = f
      BY <2>1 DEF Delivering, Top
    <2>5. observers' = observers
      BY <1>6 DEF Deliver
    <2>6. Delivering(u, i)
      BY <1>6, <1>e, LoopMoves
    <2>7. \A o, k \in Nodes : seen'[o][k] = IF o = l.to /\ k = n THEN f.ticket ELSE seen[o][k]
      <3>1. seen'[l.to] = [seen[l.to] EXCEPT ![n] = f.ticket]
        BY <2>2, <2>3 DEF TypeOK
      <3>2. \A o \in Nodes : o # l.to => seen'[o] = seen[o]
        BY <2>2, <2>3 DEF TypeOK
      <3>3. \A k \in Nodes : seen'[l.to][k] = IF k = n THEN f.ticket ELSE seen[l.to][k]
        BY <3>1, <2>3 DEF TypeOK
      <3> QED
        BY <3>2, <3>3
    <2>8. CASE u = t /\ i = d
      <3>1. /\ stack'[u][i].node = n /\ stack'[u][i].cursor = l.at
            /\ stack'[u][i].ticket = f.ticket
        <4>1. stack'[u][i] = [f EXCEPT !.cursor = l.at] /\ n = f.node
          BY <2>2, <2>8
        <4> HIDE DEF f, n
        <4> QED
          BY <2>1, <4>1 DEF Frame
      <3>2. LoopOK(f)
        <4>1. LoopOK(stack[t][d])
          BY <1>c, <2>1, <2>4
        <4> QED
          BY <4>1 DEF Top
      <3>3. ASSUME NEW k \in observers[n], k.at <= l.at
            PROVE  seen'[k.to][n] = f.ticket
        <4>1. k.to \in Nodes /\ k.at \in Nat /\ l.at \in Nat
          BY <1>d, <2>2, <2>3
        <4>2. CASE k.at <= f.cursor
          BY <2>3, <2>7, <3>2, <4>1, <4>2 DEF LoopOK
        <4>3. CASE ~(k.at <= f.cursor)
          <5>1. k.at = l.at
            BY <2>2, <2>3, <3>3, <4>1, <4>3 DEF IsNext
          <5>2. k = l
            BY <2>2, <2>3, <5>1 DEF ListsOK
          <5> QED
            BY <2>3, <2>7, <5>2
        <4> QED
          BY <4>2, <4>3
      <3> QED
        BY <2>2, <2>5, <3>1, <3>3 DEF LoopOK
    <2>9. CASE ~(u = t /\ i = d)
      <3>1. stack'[u][i] = stack[u][i]
        BY <1>6, <2>6, <2>9, LoopMoves
      <3>2. stack[u][i].node # n
        BY <2>1, <2>4, <2>6, <2>9, OneLoop
      <3>3. LoopOK(stack[u][i]) /\ stack[u][i].node \in Nodes
        BY <1>a, <1>c, <2>6 DEF Delivering
      <3>4. \A k \in observers[stack[u][i].node] : k.to \in Nodes
        BY <1>d, <3>3
      <3> QED
        BY <2>5, <2>7, <3>1, <3>2, <3>3, <3>4 DEF LoopOK
    <2> QED
      BY <2>8, <2>9
  <1>7. ASSUME NEW t \in Threads, NEW a \in Nodes, NEW b \in Nodes, Connect(t, a, b)
        PROVE  LoopOK(stack[u][i])'
    <2>1. PICK k \in 1..MaxLinks :
            /\ \A l \in observers[a] : l.at < k
            /\ observers' = [observers EXCEPT ![a] = @ \cup {[at |-> k, to |-> b]}]
      BY <1>7 DEF Connect, IsBack
    <2>2. stack' = stack /\ seen' = seen
      BY <1>7 DEF Connect, IsBack
    <2>3. Delivering(u, i)
      BY <1>e, <2>2 DEF Delivering, Depth
    <2> DEFINE f == stack[u][i]
    <2>4. LoopOK(f) /\ f.node \in Nodes /\ f.cursor \in Nat
      BY <1>a, <1>c, <2>3 DEF Delivering
    <2>5. /\ observers'[a] = observers[a] \cup {[at |-> k, to |-> b]}
          /\ \A n \in Nodes \ {a} : observers'[n] = observers[n]
      BY <2>1 DEF TypeOK
    <2>6. k \in Nat \ {0}
      BY ConstantsAssumption
    <2>7. CASE f.node = a
      <3>1. f.cursor < k
        <4>1. CASE f.cursor = 0
          BY <2>6, <4>1
        <4>2. CASE f.cursor > 0
          BY <2>1, <2>4, <2>7, <4>2 DEF LoopOK
        <4> QED
          BY <2>4, <4>1, <4>2
      <3>2. ~(k <= f.cursor)
        BY <2>4, <2>6, <3>1
      <3> QED
        BY <2>2, <2>4, <2>5, <2>7, <3>2 DEF LoopOK
    <2>8. CASE f.node # a
      BY <2>2, <2>4, <2>5, <2>8 DEF LoopOK
    <2> QED
      BY <2>7, <2>8
  <1>8. ASSUME NEW t \in Threads, NEW a \in Nodes, NEW b \in Nodes, Disconnect(t, a, b)
        PROVE  LoopOK(stack[u][i])'
    <2>1. /\ stack' = stack /\ seen' = seen /\ MayEdit(t, a)
          /\ \A l \in observers[a] : l.to = b => ~StandsOn(t, a, l)
          /\ observers' = [observers EXCEPT ![a] = {l \in @ : l.to # b}]
      BY <1>8 DEF Disconnect
    <2>2. Delivering(u, i)
      BY <1>e, <2>1 DEF Delivering, Depth
    <2> DEFINE f == stack[u][i]
    <2>3. LoopOK(f) /\ f.node \in Nodes
      BY <1>a, <1>c, <2>2 DEF Delivering
    <2>4. /\ observers'[a] = {l \in observers[a] : l.to # b}
          /\ \A n \in Nodes \ {a} : observers'[n] = observers[n]
      BY <2>1 DEF TypeOK
    <2>5. CASE f.node = a
      <3>1. u = t
        BY <2>1, <2>2, <2>5, EditorOwns
      <3>2. ASSUME f.cursor > 0 PROVE \E l \in observers'[a] : l.at = f.cursor
        <4>1. PICK l \in observers[a] : l.at = f.cursor
          BY <2>3, <2>5, <3>2 DEF LoopOK
        <4>2. StandsOn(t, a, l)
          BY <2>2, <2>5, <3>1, <4>1 DEF StandsOn, Delivering
        <4> QED
          BY <2>1, <2>4, <4>1, <4>2
      <3> QED
        BY <2>1, <2>3, <2>4, <2>5, <3>2 DEF LoopOK
    <2>6. CASE f.node # a
      BY <2>1, <2>3, <2>4, <2>6 DEF LoopOK
    <2> QED
      BY <2>5, <2>6
  <1> QED
    BY <1>2, <1>3, <1>4, <1>5, <1>6, <1>7, <1>8 DEF Next, InCall, Edit

-----------------------------------------------------------------------------
(* The theorems.                                                           *)

LEMMA InitInvariant == Init => IInv
  <1> SUFFICES ASSUME Init PROVE IInv
    OBVIOUS
  <1>1. TypeOK
    BY TypeInit
  <1>2. \A t \in Threads : Depth(t) = 0 /\ ~ \E i \in 1..Depth(t) : TRUE
    BY EmptySeq DEF Init, Depth
  <1>3. ListsOK
    BY GraphsAssumption DEF Init, ListsOK
  <1>4. Nested /\ CursorValid /\ DeliveredPrefix
    BY <1>2 DEF Nested, CursorValid, DeliveredPrefix
  <1>5. MutualExclusion
    BY <1>2, ConstantsAssumption DEF MutualExclusion, Init
  <1>6. Tickets
    BY <1>2 DEF Tickets, Init
  <1> QED
    BY <1>1, <1>3, <1>4, <1>5, <1>6 DEF IInv

LEMMA StepInvariant == IInv /\ [Next]_vars => IInv'
  <1> SUFFICES ASSUME IInv, [Next]_vars PROVE IInv'
    OBVIOUS
  <1>1. TypeOK' /\ ListsOK' /\ Nested'
    BY TypeStep, ListsStep, NestedStep DEF IInv
  <1>2. MutualExclusion'
    BY MutexStep
  <1>3. Tickets'
    BY TicketsStep
  <1>4. CursorValid' /\ DeliveredPrefix'
    BY LoopsStep
  <1> QED
    BY <1>1, <1>2, <1>3, <1>4 DEF IInv

THEOREM Invariant == Spec => []IInv
  BY InitInvariant, StepInvariant, PTL DEF Spec

\* At most one thread is in the loop over a node's observers, and it is the one
\* that holds the node's mutex.
THEOREM OneLoopPerNode == Spec => []MutualExclusion
  <1>1. IInv => MutualExclusion
    BY DEF IInv
  <1> QED
    BY <1>1, Invariant, PTL

\* No iterator of notify_observers is invalidated by an edit of another thread.
THEOREM IteratorsStayValid == Spec => []CursorValid
  <1>1. IInv => CursorValid
    BY DEF IInv
  <1> QED
    BY <1>1, Invariant, PTL

\* Edits during a loop make it skip no observer.
THEOREM NobodySkipped == Spec => []DeliveredPrefix
  <1>1. IInv => DeliveredPrefix
    BY DEF IInv
  <1> QED
    BY <1>1, Invariant, PTL

\* Edits leave every loop over the observers intact.
THEOREM LoopsIntact == Spec => []LoopIntact
  BY IteratorsStayValid, NobodySkipped, PTL DEF LoopIntact

\* Every observer receives the notifications of a node in the order of their
\* counts, whichever threads signal.
THEOREM DeliveryInOrder == Spec => InOrder
  <1>1. ASSUME IInv, [Next]_vars, NEW o \in Nodes, NEW n \in Nodes
        PROVE  seen'[o][n] >= seen[o][n]
    <2>1. seen[o][n] \in Nat
      BY <1>1 DEF IInv, TypeOK
    <2>2. CASE seen' = seen
      BY <2>1, <2>2
    <2>3. ASSUME NEW t \in Threads, Deliver(t)
          PROVE  seen'[o][n] >= seen[o][n]
      <3> DEFINE m == Top(t).node
      <3>1. /\ TypeOK /\ Tickets
        BY <1>1 DEF IInv
      <3>2. /\ Depth(t) \in Nat \ {0} /\ Top(t) \in Frame /\ Top(t).pc = "deliver"
            /\ \E l \in observers[m] :
                 l \in Link /\ seen' = [seen EXCEPT ![l.to][m] = Top(t).ticket]
        BY <2>3, <3>1, DeliverShape
      <3>3. Top(t).ticket = counter[m] /\ m \in Nodes
        BY <3>1, <3>2 DEF Delivering, Top, Frame, Tickets
      <3>4. seen[o][m] <= counter[m] /\ counter[m] \in Nat
        BY <3>1, <3>3 DEF Tickets, TypeOK
      <3>5. PICK l \in Link : seen' = [seen EXCEPT ![l.to][m] = counter[m]]
        BY <3>2, <3>3
      <3>6. l.to \in Nodes
        BY DEF Link
      <3>7. CASE o = l.to
        <4>1. seen'[o] = [seen[o] EXCEPT ![m] = counter[m]]
          BY <3>1, <3>5, <3>6, <3>7 DEF TypeOK
        <4>2. seen'[o][n] = IF n = m THEN counter[m] ELSE seen[o][n]
          BY <3>1, <3>3, <4>1 DEF TypeOK
        <4> QED
          BY <2>1, <3>4, <4>2
      <3>8. CASE o # l.to
        <4>1. seen'[o] = seen[o]
          BY <3>1, <3>5, <3>8 DEF TypeOK
        <4> QED
          BY <2>1, <4>1
      <3> QED
        BY <3>7, <3>8
    <2> QED
      BY <1>1, <2>2, <2>3
      DEF Next, InCall, Edit, Signal, SetSenderInfo, LockObservers, CountSelf,
          ReceiveSelf, Return, Connect, Disconnect, vars
  <1>2. IInv /\ [Next]_vars => [\A o, n \in Nodes : seen'[o][n] >= seen[o][n]]_vars
    BY <1>1
  <1> QED
    BY <1>2, Invariant, PTL DEF Spec, InOrder

\* A set of numbers that is not empty has a least element.
LEMMA LeastNumber ==
  ASSUME NEW T, T \subseteq Nat, T # {}
  PROVE  \E x \in T : \A y \in T : x <= y
  <1>1. IsWellFoundedOn(OpToRel(<, Nat), Nat)
    BY NatLessThanWellFounded
  <1>2. PICK x \in T : \A y \in T : ~ (<<y, x>> \in OpToRel(<, Nat))
    BY <1>1, WFMin
  <1>3. \A y \in T : ~ (y < x)
    BY <1>2 DEF OpToRel
  <1> QED
    BY <1>3

\* A thread that waits holds only mutexes of nodes above the one it waits for.
LEMMA WaitingClimbs ==
  ASSUME IInv, NEW t \in Threads, NEW u \in Threads, NEW n \in Nodes, NEW m \in Nodes,
         WaitsFor(t, n), owner[n] = u, WaitsFor(u, m)
  PROVE  Height[n] > Height[m]
  <1>1. PICK i \in 1..Depth(u) : Delivering(u, i) /\ stack[u][i].node = n
    BY DEF IInv, MutualExclusion
  <1>2. /\ Top(u).pc = "lock" /\ Top(u).node = m
        /\ Depth(u) \in Nat /\ Depth(u) \in 1..Depth(u)
    BY TopIsFrame DEF WaitsFor, IInv
  <1>3. i < Depth(u)
    <2>1. i # Depth(u)
      BY <1>1, <1>2 DEF Delivering, Top
    <2> QED
      BY <1>2, <2>1
  <1> QED
    BY <1>1, <1>2, <1>3 DEF IInv, Nested, Top

\* Threads that walk an acyclic graph never wait for each other in a circle,
\* however many there are, although each one holds a mutex per node it is in.
THEOREM DeadlockFree == Spec => []NoDeadlock
  <1>1. IInv => NoDeadlock
    <2> SUFFICES ASSUME IInv, NEW S \in SUBSET Threads, S # {},
                        \A t \in S : \E n \in Nodes : WaitsFor(t, n) /\ owner[n] \in S
                 PROVE  FALSE
      BY DEF NoDeadlock
    <2> DEFINE T == {Height[n] : n \in {n \in Nodes : \E t \in S : WaitsFor(t, n)}}
    <2>1. T \subseteq Nat /\ T # {}
      BY ConstantsAssumption
    <2>2. PICK x \in T : \A y \in T : x <= y
      BY <2>1, LeastNumber
    <2>3. PICK n \in Nodes, t \in S : WaitsFor(t, n) /\ x = Height[n]
      BY <2>2
    <2>4. WaitsFor(t, n) => owner[n] \in S
      <3>1. PICK k \in Nodes : WaitsFor(t, k) /\ owner[k] \in S
        OBVIOUS
      <3>2. WaitsFor(t, n) => k = n
        BY <3>1 DEF WaitsFor
      <3> QED
        BY <3>1, <3>2
    <2>5. PICK u \in S, m \in Nodes : owner[n] = u /\ WaitsFor(u, m)
      BY <2>3, <2>4
    <2>6. Height[n] > Height[m]
      BY <2>3, <2>5, WaitingClimbs
    <2>7. Height[m] \in T
      BY <2>5
    <2>8. Height[n] \in Nat /\ Height[m] \in Nat
      BY ConstantsAssumption
    <2> QED
      BY <2>2, <2>3, <2>6, <2>7, <2>8
  <1> QED
    BY <1>1, Invariant, PTL

-----------------------------------------------------------------------------
(* Provenance: messages nobody has created are unsigned, and no call        *)
(* carries one.                                                             *)

CallsLive == \A t \in Threads : \A i \in 1..Depth(t) : stack[t][i].msg \in live
FreshUnsigned == \A m \in Messages \ live : stamp[m] = Unset /\ source[m] = NoNode

\* The calls of the stack s carry messages of L.
Carries(s, L) == \A i \in 1..Len(s) : s[i].msg \in L

LEMMA CarriesReplace ==
  ASSUME NEW s \in Seq(Frame), s # << >>, NEW f \in Frame, NEW L,
         Carries(s, L), f.msg \in L
  PROVE  Carries([s EXCEPT ![Len(s)] = f], L)
  <1> DEFINE r == [s EXCEPT ![Len(s)] = f]
  <1>1. Len(s) \in Nat
    BY StackFrames
  <1>2. Len(r) = Len(s) /\ r[Len(s)] = f /\ \A i \in 1..(Len(s) - 1) : r[i] = s[i]
    BY ReplaceTop
  <1>3. \A i \in 1..Len(s) : i = Len(s) \/ i \in 1..(Len(s) - 1)
    BY <1>1
  <1> HIDE DEF r
  <1>4. Carries(r, L)
    BY <1>2, <1>3 DEF Carries
  <1> QED
    BY <1>4 DEF r

LEMMA CarriesPop ==
  ASSUME NEW s \in Seq(Frame), s # << >>, NEW L, Carries(s, L)
  PROVE  Carries(SubSeq(s, 1, Len(s) - 1), L)
  <1> DEFINE r == SubSeq(s, 1, Len(s) - 1)
  <1>1. Len(s) \in Nat
    BY StackFrames
  <1>2. Len(r) = Len(s) - 1 /\ \A i \in 1..Len(r) : r[i] = s[i]
    BY PopTop
  <1>3. \A i \in 1..(Len(s) - 1) : i \in 1..Len(s)
    BY <1>1
  <1> HIDE DEF r
  <1>4. Carries(r, L)
    BY <1>2, <1>3 DEF Carries
  <1> QED
    BY <1>4 DEF r

LEMMA CarriesPush ==
  ASSUME NEW s \in Seq(Frame), NEW f \in Frame, NEW L, Carries(s, L), f.msg \in L
  PROVE  Carries(Append(s, f), L)
  <1> DEFINE r == Append(s, f)
  <1>1. Len(s) \in Nat
    BY StackFrames
  <1>2. Len(r) = Len(s) + 1 /\ r[Len(s) + 1] = f /\ \A i \in 1..Len(s) : r[i] = s[i]
    BY PushTop
  <1>3. \A i \in 1..(Len(s) + 1) : i = Len(s) + 1 \/ i \in 1..Len(s)
    BY <1>1
  <1> HIDE DEF r
  <1>4. Carries(r, L)
    BY <1>2, <1>3 DEF Carries
  <1> QED
    BY <1>4 DEF r

\* A receive of a live message keeps provenance, whatever it passes on or makes.
LEMMA ReceiveProvenance ==
  ASSUME TypeOK, FreshUnsigned, CallsLive,
         NEW t \in Threads, NEW o \in Nodes, NEW m \in Messages, m \in live,
         NEW calls \in Seq(Frame), Carries(calls, live), Receive(t, o, m, calls)
  PROVE  /\ live \subseteq live' /\ FreshUnsigned'
         /\ \A u \in Threads \ {t} : stack'[u] = stack[u]
         /\ Carries(stack'[t], live')
         /\ \A k \in live : stamp'[k] = stamp[k] /\ source'[k] = source[k]
  <1>1. CASE Ignore(t, calls)
    BY <1>1, StackOf DEF Ignore, FreshUnsigned
  <1>2. CASE PassOn(t, o, m, calls)
    <2> DEFINE c == Call(o, m, FALSE)
    <2>1. c \in Frame /\ c.msg = m
      BY CallIsFrame DEF Call
    <2> HIDE DEF c
    <2>2. stack' = [stack EXCEPT ![t] = Append(calls, c)]
      BY <1>2 DEF PassOn, c
    <2>3. stack'[t] = Append(calls, c) /\ \A u \in Threads \ {t} : stack'[u] = stack[u]
      BY <2>2, StackOf
    <2>4. live' = live /\ stamp' = stamp /\ source' = source
      BY <1>2 DEF PassOn
    <2>5. Carries(Append(calls, c), live)
      BY <2>1, CarriesPush
    <2> QED
      BY <2>3, <2>4, <2>5 DEF FreshUnsigned
  <1>3. CASE MakeNew(t, o, m, calls)
    <2>1. PICK r \in Messages \ live :
            /\ live' = live \cup {r}
            /\ stamp' = IF Kind[o] = "map" THEN stamp ELSE [stamp EXCEPT ![r] = stamp[m]]
            /\ source' = IF Kind[o] = "header" THEN [source EXCEPT ![r] = source[m]]
                                               ELSE source
            /\ stack' = [stack EXCEPT ![t] = Append(calls, Call(o, r, FALSE))]
      BY <1>3 DEF MakeNew
    <2> DEFINE c == Call(o, r, FALSE)
    <2>2. c \in Frame /\ c.msg = r
      BY CallIsFrame DEF Call
    <2> HIDE DEF c
    <2>3. stack' = [stack EXCEPT ![t] = Append(calls, c)]
      BY <2>1 DEF c
    <2>4. stack'[t] = Append(calls, c) /\ \A u \in Threads \ {t} : stack'[u] = stack[u]
      BY <2>3, StackOf
    <2>5. Carries(calls, live')
      BY <2>1 DEF Carries
    <2>6. Carries(Append(calls, c), live')
      BY <2>1, <2>2, <2>5, CarriesPush
    <2>7. \A k \in Messages \ {r} : stamp'[k] = stamp[k] /\ source'[k] = source[k]
      BY <2>1 DEF TypeOK
    <2> QED
      BY <2>1, <2>4, <2>6, <2>7 DEF FreshUnsigned, TypeOK
  <1> QED
    BY <1>1, <1>2, <1>3 DEF Receive

\* What has been signed, or created, stays as it is.
Kept == \A m \in Messages : /\ stamp[m] # Unset => stamp'[m] = stamp[m]
                            /\ source[m] # NoNode => source'[m] = source[m]

LEMMA ProvenanceStep ==
  ASSUME TypeOK, CallsLive, FreshUnsigned, [Next]_vars
  PROVE  CallsLive' /\ FreshUnsigned' /\ Kept
  <1>1. ASSUME live \subseteq live', FreshUnsigned',
               \A k \in live : stamp'[k] = stamp[k] /\ source'[k] = source[k],
               NEW t \in Threads, Carries(stack'[t], live'),
               \A u \in Threads \ {t} : stack'[u] = stack[u]
        PROVE  CallsLive' /\ FreshUnsigned' /\ Kept
    <2>1. \A u \in Threads : Carries(stack'[u], live')
      BY <1>1 DEF CallsLive, Carries, Depth
    <2>2. CallsLive'
      BY <2>1 DEF CallsLive, Carries, Depth
    <2> QED
      BY <1>1, <2>2 DEF Kept, FreshUnsigned
  <1>2. ASSUME stamp' = stamp, source' = source, live' = live,
               NEW t \in Threads, Carries(stack'[t], live),
               \A u \in Threads \ {t} : stack'[u] = stack[u]
        PROVE  CallsLive' /\ FreshUnsigned' /\ Kept
    BY <1>1, <1>2 DEF FreshUnsigned
  <1>3. \A t \in Threads : stack[t] \in Seq(Frame) /\ Carries(stack[t], live)
    BY DEF TypeOK, CallsLive, Carries, Depth
  <1>4. ASSUME NEW t \in Threads, stack[t] # << >>
        PROVE  Top(t) \in Frame /\ Top(t).msg \in live /\ Top(t).msg \in Messages
    BY <1>3, <1>4, StackFrames DEF Top, Depth, CallsLive, Frame
  <1>5. ASSUME NEW t \in Threads, stack[t] # << >>, NEW f \in Frame, f.msg \in live
        PROVE  SetTop(t, f) \in Seq(Frame) /\ Carries(SetTop(t, f), live)
    <2>1. SetTop(t, f) = [stack[t] EXCEPT ![Len(stack[t])] = f]
      BY DEF SetTop, Depth
    <2> QED
      BY <1>3, <1>5, <2>1, ReplaceTop, CarriesReplace
  <1>6. ASSUME NEW t \in Threads, stack[t] # << >>
        PROVE  Below(t) \in Seq(Frame) /\ Carries(Below(t), live)
    BY <1>3, <1>6, PopTop, CarriesPop DEF Below, Depth
  <1>7. ASSUME NEW t \in Threads, NEW self \in BOOLEAN, Signal(t, self)
        PROVE  CallsLive' /\ FreshUnsigned' /\ Kept
    <2>1. PICK n \in Runs[t], m \in Messages :
            /\ live' = live \cup {m}
            /\ stack' = [stack EXCEPT ![t] = <<Call(n, m, self)>>]
      BY <1>7 DEF Signal
    <2>2. stack'[t] = <<Call(n, m, self)>> /\ \A u \in Threads \ {t} : stack'[u] = stack[u]
      BY <2>1, StackOf
    <2>3. Carries(stack'[t], live')
      BY <2>1, <2>2 DEF Carries, Call
    <2>4. stamp' = stamp /\ source' = source
      BY <1>7 DEF Signal
    <2>5. FreshUnsigned'
      BY <2>1, <2>4 DEF FreshUnsigned
    <2> QED
      BY <1>1, <2>1, <2>2, <2>3, <2>4, <2>5
  <1>8. ASSUME NEW t \in Threads, SetSenderInfo(t)
        PROVE  CallsLive' /\ FreshUnsigned' /\ Kept
    <2>1. /\ stack[t] # << >> /\ live' = live
          /\ stamp' = Stamped(Top(t).msg, Top(t).node)
          /\ source' = IF source[Top(t).msg] = NoNode
                       THEN [source EXCEPT ![Top(t).msg] = Top(t).node] ELSE source
          /\ stack' = [stack EXCEPT ![t] = SetTop(t, [Top(t) EXCEPT !.pc = "lock"])]
      BY <1>8 DEF SetSenderInfo, At
    <2>2. Top(t) \in Frame /\ Top(t).msg \in live /\ Top(t).msg \in Messages
      BY <1>4, <2>1
    <2>3. \A m \in Messages \ {Top(t).msg} : stamp'[m] = stamp[m] /\ source'[m] = source[m]
      BY <2>1 DEF Stamped, TypeOK
    <2>4. FreshUnsigned'
      BY <2>1, <2>2, <2>3 DEF FreshUnsigned
    <2>5. Kept
      BY <2>1, <2>3 DEF Kept, Stamped
    <2>6. [Top(t) EXCEPT !.pc = "lock"] \in Frame /\ [Top(t) EXCEPT !.pc = "lock"].msg \in live
      BY <2>2 DEF Frame
    <2>7. Carries(SetTop(t, [Top(t) EXCEPT !.pc = "lock"]), live)
      BY <1>5, <2>1, <2>6
    <2>8. /\ stack'[t] = SetTop(t, [Top(t) EXCEPT !.pc = "lock"])
          /\ \A u \in Threads \ {t} : stack'[u] = stack[u]
      BY <2>1, StackOf
    <2>9. CallsLive'
      BY <2>1, <2>7, <2>8 DEF CallsLive, Carries, Depth
    <2> QED
      BY <2>4, <2>5, <2>9
  <1>9. ASSUME NEW t \in Threads, LockObservers(t)
        PROVE  CallsLive' /\ FreshUnsigned' /\ Kept
    <2> DEFINE f == [Top(t) EXCEPT !.pc = "deliver", !.ticket = counter[Top(t).node] + 1]
    <2>1. /\ stack[t] # << >> /\ live' = live /\ stamp' = stamp /\ source' = source
          /\ stack' = [stack EXCEPT ![t] = SetTop(t, f)]
      BY <1>9 DEF LockObservers, At
    <2>2. Top(t) \in Frame /\ Top(t).msg \in live
      BY <1>4, <2>1
    <2>3. f \in Frame /\ f.msg \in live
      <3>1. counter[Top(t).node] + 1 \in Nat
        BY <2>2 DEF Frame, TypeOK
      <3> QED
        BY <2>2, <3>1 DEF Frame
    <2> HIDE DEF f
    <2>4. stack'[t] = SetTop(t, f) /\ \A u \in Threads \ {t} : stack'[u] = stack[u]
      BY <2>1, StackOf
    <2> QED
      BY <1>2, <1>5, <2>1, <2>3, <2>4
  <1>10. ASSUME NEW t \in Threads, CountSelf(t)
        PROVE  CallsLive' /\ FreshUnsigned' /\ Kept
    <2> DEFINE f == [Top(t) EXCEPT !.pc = "self"]
    <2>1. /\ stack[t] # << >> /\ live' = live /\ stamp' = stamp /\ source' = source
          /\ stack' = [stack EXCEPT ![t] = SetTop(t, f)]
      BY <1>10 DEF CountSelf, At
    <2>2. f \in Frame /\ f.msg \in live
      BY <1>4, <2>1 DEF Frame
    <2> HIDE DEF f
    <2>3. stack'[t] = SetTop(t, f) /\ \A u \in Threads \ {t} : stack'[u] = stack[u]
      BY <2>1, StackOf
    <2> QED
      BY <1>2, <1>5, <2>1, <2>2, <2>3
  <1>11. ASSUME NEW t \in Threads, Deliver(t)
        PROVE  CallsLive' /\ FreshUnsigned' /\ Kept
    <2>1. stack[t] # << >>
      BY <1>11 DEF Deliver, At
    <2>2. PICK l \in observers[Top(t).node] :
            Receive(t, l.to, Top(t).msg, SetTop(t, [Top(t) EXCEPT !.cursor = l.at]))
      BY <1>11 DEF Deliver
    <2>3. Top(t) \in Frame /\ Top(t).msg \in live /\ Top(t).msg \in Messages
      BY <1>4, <2>1
    <2>4. l \in Link /\ l.to \in Nodes /\ l.at \in 0..MaxLinks
      <3>1. l \in Link
        BY <2>3 DEF TypeOK, Frame
      <3> QED
        BY <3>1, ConstantsAssumption DEF Link
    <2> DEFINE f == [Top(t) EXCEPT !.cursor = l.at]
               s == SetTop(t, f)
    <2>5. f \in Frame /\ f.msg \in live
      BY <2>3, <2>4 DEF Frame
    <2> HIDE DEF f
    <2>6. s \in Seq(Frame) /\ Carries(s, live)
      BY <1>5, <2>1, <2>5
    <2>7. Receive(t, l.to, Top(t).msg, s)
      BY <2>2 DEF f
    <2> HIDE DEF s
    <2>8. /\ live \subseteq live' /\ FreshUnsigned'
          /\ \A u \in Threads \ {t} : stack'[u] = stack[u]
          /\ Carries(stack'[t], live')
          /\ \A k \in live : stamp'[k] = stamp[k] /\ source'[k] = source[k]
      BY <2>3, <2>4, <2>6, <2>7, ReceiveProvenance
    <2> QED
      BY <1>1, <2>8
  <1>12. ASSUME NEW t \in Threads, ReceiveSelf(t)
        PROVE  CallsLive' /\ FreshUnsigned' /\ Kept
    <2>1. stack[t] # << >> /\ Receive(t, Top(t).node, Top(t).msg, Below(t))
      BY <1>12 DEF ReceiveSelf, At
    <2>2. Top(t).node \in Nodes /\ Top(t).msg \in live /\ Top(t).msg \in Messages
      BY <1>4, <2>1 DEF Frame
    <2>3. Below(t) \in Seq(Frame) /\ Carries(Below(t), live)
      BY <1>6, <2>1
    <2>4. /\ live \subseteq live' /\ FreshUnsigned'
          /\ \A u \in Threads \ {t} : stack'[u] = stack[u]
          /\ Carries(stack'[t], live')
          /\ \A k \in live : stamp'[k] = stamp[k] /\ source'[k] = source[k]
      BY <2>1, <2>2, <2>3, ReceiveProvenance
    <2> QED
      BY <1>1, <2>4
  <1>13. ASSUME NEW t \in Threads, Return(t)
        PROVE  CallsLive' /\ FreshUnsigned' /\ Kept
    <2>1. /\ stack[t] # << >> /\ live' = live /\ stamp' = stamp /\ source' = source
          /\ stack' = [stack EXCEPT ![t] = Below(t)]
      BY <1>13 DEF Return, At
    <2>2. stack'[t] = Below(t) /\ \A u \in Threads \ {t} : stack'[u] = stack[u]
      BY <2>1, StackOf
    <2> QED
      BY <1>2, <1>6, <2>1, <2>2
  <1>14. ASSUME stack' = stack, live' = live, stamp' = stamp, source' = source
        PROVE  CallsLive' /\ FreshUnsigned' /\ Kept
    BY <1>14 DEF CallsLive, FreshUnsigned, Kept, Depth
  <1>15. ASSUME NEW t \in Threads, NEW a \in Nodes, NEW b \in Nodes,
                Connect(t, a, b) \/ Disconnect(t, a, b)
        PROVE  CallsLive' /\ FreshUnsigned' /\ Kept
    BY <1>14, <1>15 DEF Connect, Disconnect
  <1>16. CASE UNCHANGED vars
    BY <1>14, <1>16 DEF vars
  <1> QED
    BY <1>7, <1>8, <1>9, <1>10, <1>11, <1>12, <1>13, <1>15, <1>16 DEF Next, InCall, Edit

\* A message keeps the source and the counter of its first signal, however many
\* nodes and threads signal it again, and a message nobody has created has none.
THEOREM ProvenanceIsKept == Spec => ProvenanceKept
  <1>1. Init => CallsLive /\ FreshUnsigned
    BY EmptySeq DEF Init, CallsLive, FreshUnsigned, Depth
  <1>2. TypeOK /\ CallsLive /\ FreshUnsigned /\ [Next]_vars => (CallsLive /\ FreshUnsigned)'
    BY ProvenanceStep
  <1>3. TypeOK /\ CallsLive /\ FreshUnsigned /\ [Next]_vars
          => [\A m \in Messages : /\ stamp[m] # Unset => stamp'[m] = stamp[m]
                                  /\ source[m] # NoNode => source'[m] = source[m]]_vars
    BY ProvenanceStep DEF Kept
  <1> QED
    BY <1>1, <1>2, <1>3, TypeCorrect, PTL DEF Spec, ProvenanceKept

-----------------------------------------------------------------------------
(* Node implements Multicast: its initial states are initial states of     *)
(* Multicast, and each of its steps is a step of Multicast or leaves the   *)
(* abstract variables as they are.                                         *)

Busy == {n \in Nodes : owner[n] # NoThread}
Due == [n \in Nodes |-> Ahead(n)]

\* the loop i of thread u is one over n's observers
LoopOver(u, i, n) == Delivering(u, i) /\ stack[u][i].node = n

-----------------------------------------------------------------------------
(* What is ahead of a node's loop, before and after a step.                *)

\* Threads are in calls that their stacks number from 1.
LEMMA LoopIndexes ==
  ASSUME TypeOK, NEW u \in Threads, NEW i, Delivering(u, i)
  PROVE  i \in Nat
BY StackFrames DEF Delivering, TypeOK, Depth

\* What is ahead of a loop is ahead of its iterator: there is no other loop.
LEMMA AheadOfLoop ==
  ASSUME IInv, NEW n \in Nodes, NEW t \in Threads, NEW i \in Nat, LoopOver(t, i, n)
  PROVE  Ahead(n) = {l \in observers[n] : stack[t][i].cursor < l.at}
<1>1. \A u \in Threads : \A j \in 1..Depth(u) : LoopOver(u, j, n) => u = t /\ j = i
  BY OneLoop, LoopIndexes DEF IInv, LoopOver
<1>2. i \in 1..Depth(t)
  BY DEF LoopOver, Delivering
<1> QED
  BY <1>1, <1>2 DEF Ahead, LoopOver

\* Nothing is ahead where there is no loop, and there is none where the mutex is free.
LEMMA AheadOfFree ==
  ASSUME IInv, NEW n \in Nodes, owner[n] = NoThread
  PROVE  /\ Ahead(n) = {}
         /\ \A u \in Threads, i \in Nat : ~LoopOver(u, i, n)
<1>1. \A u \in Threads : owner[n] # u
  BY ConstantsAssumption
<1> QED
  BY <1>1 DEF IInv, MutualExclusion, Ahead, LoopOver, Delivering

\* The thread that holds a mutex is in a loop of the node.
LEMMA LoopOfOwner ==
  ASSUME IInv, NEW n \in Nodes, owner[n] # NoThread
  PROVE  \E i \in Nat : owner[n] \in Threads /\ LoopOver(owner[n], i, n)
<1>1. owner[n] \in Threads
  BY DEF IInv, TypeOK
<1> QED
  BY <1>1, LoopIndexes DEF IInv, MutualExclusion, LoopOver

\* Ahead in the new state, in terms of its stacks.
LEMMA AheadNext ==
  ASSUME NEW n \in Nodes
  PROVE  Ahead(n)' = {l \in observers'[n] : \E u \in Threads : \E i \in 1..Len(stack'[u]) :
                        /\ i \in 1..Len(stack'[u]) /\ stack'[u][i].pc = "deliver"
                        /\ stack'[u][i].node = n /\ stack'[u][i].cursor < l.at}
BY DEF Ahead, Delivering, Depth

\* A step that keeps the loops of n and its list changes nothing ahead.
LEMMA SameAhead ==
  ASSUME TypeOK, TypeOK', NEW n \in Nodes, observers'[n] = observers[n],
         \A u \in Threads, i \in Nat :
           /\ (/\ i \in 1..Len(stack'[u]) /\ stack'[u][i].pc = "deliver"
               /\ stack'[u][i].node = n) <=> LoopOver(u, i, n)
           /\ LoopOver(u, i, n) => stack'[u][i].cursor = stack[u][i].cursor
  PROVE  Ahead(n)' = Ahead(n)
<1>1. \A u \in Threads : \A i \in 1..Len(stack'[u]) : i \in Nat
  BY StackFrames DEF TypeOK
<1>2. \A u \in Threads : \A i \in 1..Depth(u) : i \in Nat
  BY StackFrames DEF TypeOK, Depth
<1>3. Ahead(n) = {l \in observers[n] : \E u \in Threads : \E i \in 1..Depth(u) :
                    LoopOver(u, i, n) /\ stack[u][i].cursor < l.at}
  BY DEF Ahead, LoopOver
<1>4. \A l : (\E u \in Threads : \E i \in 1..Len(stack'[u]) :
                /\ i \in 1..Len(stack'[u]) /\ stack'[u][i].pc = "deliver"
                /\ stack'[u][i].node = n /\ stack'[u][i].cursor < l.at)
           <=> (\E u \in Threads : \E i \in 1..Depth(u) :
                  LoopOver(u, i, n) /\ stack[u][i].cursor < l.at)
  BY <1>1, <1>2 DEF LoopOver, Delivering
<1> QED
  BY <1>3, <1>4, AheadNext

\* Steps that keep all loops, lists and mutexes.
LEMMA QuietAhead ==
  ASSUME TypeOK, TypeOK', SameLoops, observers' = observers
  PROVE  Due' = Due
<1>1. ASSUME NEW n \in Nodes PROVE Ahead(n)' = Ahead(n)
  BY SameAhead DEF SameLoops, LoopOver
<1> QED
  BY <1>1 DEF Due

-----------------------------------------------------------------------------
(* The abstract actions in terms of Busy and Due.                          *)

\* What the abstract actions say, with the mapping spelled out.
LEMMA AbstractActions ==
  ASSUME NEW n \in Nodes
  PROVE  /\ Abstract!Begin(n) <=>
              /\ n \notin Busy /\ Busy' = Busy \cup {n}
              /\ counter' = [counter EXCEPT ![n] = @ + 1]
              /\ Due' = [Due EXCEPT ![n] = observers[n]]
              /\ observers' = observers /\ seen' = seen
         /\ Abstract!Skip(n) <=>
              /\ n \notin Busy
              /\ counter' = [counter EXCEPT ![n] = @ + 1]
              /\ observers' = observers /\ Busy' = Busy /\ Due' = Due /\ seen' = seen
         /\ Abstract!Hand(n) <=>
              /\ n \in Busy
              /\ \E l \in Due[n] : /\ seen' = [seen EXCEPT ![l.to][n] = counter[n]]
                                   /\ Due' = [Due EXCEPT ![n] = @ \ {l}]
              /\ observers' = observers /\ counter' = counter /\ Busy' = Busy
         /\ Abstract!End(n) <=>
              /\ n \in Busy /\ Due[n] = {} /\ Busy' = Busy \ {n}
              /\ observers' = observers /\ counter' = counter /\ Due' = Due /\ seen' = seen
         /\ Abstract!Connect(n) <=>
              \E l \in Link \ observers[n] :
                /\ observers' = [observers EXCEPT ![n] = @ \cup {l}]
                /\ Due' = IF n \in Busy THEN [Due EXCEPT ![n] = @ \cup {l}] ELSE Due
                /\ counter' = counter /\ Busy' = Busy /\ seen' = seen
         /\ Abstract!Disconnect(n) <=>
              \E o \in Nodes :
                /\ observers' = [observers EXCEPT ![n] = {l \in @ : l.to # o}]
                /\ Due' = [Due EXCEPT ![n] = {l \in @ : l.to # o}]
                /\ counter' = counter /\ Busy' = Busy /\ seen' = seen
<1>1. Abstract!Begin(n) <=>
              /\ n \notin Busy /\ Busy' = Busy \cup {n}
              /\ counter' = [counter EXCEPT ![n] = @ + 1]
              /\ Due' = [Due EXCEPT ![n] = observers[n]]
              /\ observers' = observers /\ seen' = seen
  BY DEF Abstract!Begin, Busy, Due
<1>2. Abstract!Skip(n) <=>
              /\ n \notin Busy
              /\ counter' = [counter EXCEPT ![n] = @ + 1]
              /\ observers' = observers /\ Busy' = Busy /\ Due' = Due /\ seen' = seen
  BY DEF Abstract!Skip, Busy, Due
<1>3. Abstract!Hand(n) <=>
              /\ n \in Busy
              /\ \E l \in Due[n] : /\ seen' = [seen EXCEPT ![l.to][n] = counter[n]]
                                   /\ Due' = [Due EXCEPT ![n] = @ \ {l}]
              /\ observers' = observers /\ counter' = counter /\ Busy' = Busy
  BY DEF Abstract!Hand, Busy, Due
<1>4. Abstract!End(n) <=>
              /\ n \in Busy /\ Due[n] = {} /\ Busy' = Busy \ {n}
              /\ observers' = observers /\ counter' = counter /\ Due' = Due /\ seen' = seen
  BY DEF Abstract!End, Busy, Due
<1>5. Abstract!Connect(n) <=>
              \E l \in Link \ observers[n] :
                /\ observers' = [observers EXCEPT ![n] = @ \cup {l}]
                /\ Due' = IF n \in Busy THEN [Due EXCEPT ![n] = @ \cup {l}] ELSE Due
                /\ counter' = counter /\ Busy' = Busy /\ seen' = seen
  BY DEF Abstract!Connect, Busy, Due
<1>6. Abstract!Disconnect(n) <=>
              \E o \in Nodes :
                /\ observers' = [observers EXCEPT ![n] = {l \in @ : l.to # o}]
                /\ Due' = [Due EXCEPT ![n] = {l \in @ : l.to # o}]
                /\ counter' = counter /\ Busy' = Busy /\ seen' = seen
  BY DEF Abstract!Disconnect, Busy, Due
<1> QED
  BY <1>1, <1>2, <1>3, <1>4, <1>5, <1>6

AbstractStep == [Abstract!Next]_(Abstract!mvars)

\* Due changes where Ahead does.
LEMMA DueAt ==
  ASSUME NEW n \in Nodes, NEW S, Ahead(n)' = S,
         \A k \in Nodes \ {n} : Ahead(k)' = Ahead(k)
  PROVE  Due' = [Due EXCEPT ![n] = S]
BY DEF Due

\* A step that keeps what the mapping looks at.
LEMMA Stutter ==
  ASSUME observers' = observers, counter' = counter, owner' = owner, Due' = Due, seen' = seen
  PROVE  AbstractStep
BY DEF AbstractStep, Abstract!mvars, Due

-----------------------------------------------------------------------------
(* One lemma per action.                                                   *)

\* Signal, SetSenderInfo and ReceiveSelf are no steps of Multicast.
LEMMA QuietRefines ==
  ASSUME IInv, TypeOK', NEW t \in Threads,
         \/ \E self \in BOOLEAN : Signal(t, self)
         \/ SetSenderInfo(t) \/ ReceiveSelf(t)
  PROVE  AbstractStep
<1>1. observers' = observers /\ counter' = counter /\ owner' = owner /\ seen' = seen
  BY DEF Signal, SetSenderInfo, ReceiveSelf
<1>2. SameLoops
  BY QuietSteps DEF IInv
<1>3. Due' = Due
  BY <1>1, <1>2, QuietAhead DEF IInv
<1> QED
  BY <1>1, <1>3, Stutter

\* A call that may lock the mutex finds it free: no thread calls a node from
\* within that node's own loop.
LEMMA CallFindsFree ==
  ASSUME IInv, NEW t \in Threads, At(t, "lock"), CanLock(t, Top(t).node)
  PROVE  Top(t).node \in Nodes /\ owner[Top(t).node] = NoThread
<1>1. Top(t).node \in Nodes
  BY TopIsFrame DEF IInv, Frame
<1>2. SUFFICES ASSUME owner[Top(t).node] # NoThread PROVE FALSE
  BY <1>1
<1>3. PICK i \in Nat : owner[Top(t).node] \in Threads /\ LoopOver(owner[Top(t).node], i, Top(t).node)
  BY <1>1, <1>2, LoopOfOwner
<1> QED
  BY <1>3, NoLoopAtCall DEF IInv, LoopOver

LEMMA CountSelfRefines ==
  ASSUME IInv, TypeOK', NEW t \in Threads, CountSelf(t)
  PROVE  \E n \in Nodes : Abstract!Skip(n)
<1> DEFINE n == Top(t).node
<1>1. n \in Nodes /\ owner[n] = NoThread
  BY CallFindsFree DEF CountSelf
<1>2. /\ observers' = observers /\ owner' = owner /\ seen' = seen
      /\ counter' = [counter EXCEPT ![n] = @ + 1]
  BY DEF CountSelf, Counted
<1>3. SameLoops
  BY QuietSteps DEF IInv
<1>4. Due' = Due
  BY <1>2, <1>3, QuietAhead DEF IInv
<1>5. n \notin Busy /\ Busy' = Busy
  BY <1>1, <1>2 DEF Busy
<1> HIDE DEF n
<1> QED
  BY <1>1, <1>2, <1>4, <1>5, AbstractActions

LEMMA LockObserversRefines ==
  ASSUME IInv, TypeOK', NEW t \in Threads, LockObservers(t)
  PROVE  \E n \in Nodes : Abstract!Begin(n)
<1> DEFINE d == Depth(t)
<1>1. PICK n \in Nodes : n = Top(t).node /\ owner[n] = NoThread
  BY CallFindsFree DEF LockObservers
<1>2. /\ observers' = observers /\ owner' = [owner EXCEPT ![n] = t] /\ seen' = seen
      /\ counter' = [counter EXCEPT ![n] = @ + 1]
  BY <1>1 DEF LockObservers, Counted
<1>3. \A u \in Threads, i \in Nat :
        /\ (i \in 1..Len(stack'[u]) /\ stack'[u][i].pc = "deliver")
             <=> (Delivering(u, i) \/ (u = t /\ i = d))
        /\ Delivering(u, i) => stack'[u][i] = stack[u][i]
  BY LoopStarts DEF IInv
<1>4. /\ d \in Nat \ {0} /\ Top(t) \in Frame /\ Top(t).pc = "lock" /\ Len(stack'[t]) = d
      /\ stack'[t][d] = [Top(t) EXCEPT !.pc = "deliver", !.ticket = counter[Top(t).node] + 1]
  BY LockObserversShape DEF IInv
<1>5. stack'[t][d].node = n /\ stack'[t][d].cursor = 0 /\ stack'[t][d].pc = "deliver"
  <2>1. Top(t).cursor = 0
    BY <1>4 DEF IInv, Nested, Top
  <2> QED
    BY <1>1, <1>4, <2>1 DEF Frame
<1>6. Ahead(n)' = observers[n]
  <2>1. \A l \in observers[n] : 0 < l.at
    BY <1>1, ConstantsAssumption DEF IInv, TypeOK, Link
  <2>2. d \in 1..Len(stack'[t])
    BY <1>4
  <2> QED
    BY <1>1, <1>2, <1>5, <2>1, <2>2, AheadNext
<1>7. ASSUME NEW k \in Nodes \ {n} PROVE Ahead(k)' = Ahead(k)
  <2>1. ~Delivering(t, d)
    BY <1>4 DEF Delivering, Top
  <2>2. ASSUME NEW u \in Threads, NEW i \in Nat
        PROVE
           /\ (/\ i \in 1..Len(stack'[u]) /\ stack'[u][i].pc = "deliver"
               /\ stack'[u][i].node = k) <=> LoopOver(u, i, k)
           /\ LoopOver(u, i, k) => stack'[u][i].cursor = stack[u][i].cursor
    <3>1. CASE u = t /\ i = d
      <4>1. stack'[u][i].node # k
        BY <1>5, <3>1
      <4> QED
        BY <2>1, <3>1, <4>1 DEF LoopOver
    <3>2. CASE ~(u = t /\ i = d)
      BY <1>3, <3>2 DEF LoopOver
    <3> QED
      BY <3>1, <3>2
  <2> QED
    BY <1>2, <2>2, SameAhead DEF IInv
<1>8. Due' = [Due EXCEPT ![n] = observers[n]]
  BY <1>6, <1>7, DueAt
<1>9. n \notin Busy /\ Busy' = Busy \cup {n}
  BY <1>1, <1>2, ConstantsAssumption DEF Busy, IInv, TypeOK
<1> QED
  BY <1>2, <1>8, <1>9, AbstractActions

LEMMA DeliverRefines ==
  ASSUME IInv, TypeOK', NEW t \in Threads, Deliver(t)
  PROVE  \E n \in Nodes : Abstract!Hand(n)
<1> DEFINE d == Depth(t)
           c == Top(t).cursor
<1>0. /\ d \in Nat \ {0} /\ Top(t) \in Frame /\ Top(t).pc = "deliver"
      /\ Top(t).node \in Nodes /\ c \in Nat
  BY DeliverShape, ConstantsAssumption DEF IInv, Frame
<1>1. PICK n \in Nodes : n = Top(t).node
  BY <1>0
<1>2. PICK l \in observers[n] :
        /\ l \in Link
        /\ IsNext(l, n, c)
        /\ seen' = [seen EXCEPT ![l.to][n] = Top(t).ticket]
        /\ stack'[t][d] = [Top(t) EXCEPT !.cursor = l.at]
  BY <1>0, <1>1, DeliverShape DEF IInv
<1>3. observers' = observers /\ owner' = owner /\ counter' = counter
  BY DEF Deliver
<1>4. Delivering(t, d) /\ stack[t][d] = Top(t)
  BY <1>0, <1>1 DEF Delivering, Top
<1>5. /\ LoopOver(t, d, n) /\ stack'[t][d].node = n /\ stack'[t][d].cursor = l.at
      /\ l.at \in Nat
  BY <1>0, <1>1, <1>2, <1>4, ConstantsAssumption DEF LoopOver, Frame, Link
<1>6. Top(t).ticket = counter[n]
  BY <1>4, <1>1 DEF IInv, Tickets, Delivering
<1>7. \A u \in Threads, i \in Nat :
        /\ (i \in 1..Len(stack'[u]) /\ stack'[u][i].pc = "deliver") <=> Delivering(u, i)
        /\ (Delivering(u, i) /\ ~(u = t /\ i = d)) => stack'[u][i] = stack[u][i]
  BY LoopMoves DEF IInv
<1>8. Ahead(n) = {k \in observers[n] : c < k.at}
  BY <1>0, <1>1, <1>4, <1>5, AheadOfLoop
<1>9. Ahead(n)' = {k \in observers[n] : l.at < k.at}
  <2>1. \A u \in Threads, i \in Nat : LoopOver(u, i, n) => u = t /\ i = d
    BY <1>0, <1>1, <1>4, <1>5, OneLoop DEF IInv, LoopOver
  <2>2. \A u \in Threads : \A i \in 1..Len(stack'[u]) :
          (stack'[u][i].pc = "deliver" /\ stack'[u][i].node = n) => u = t /\ i = d
    <3>1. \A u \in Threads : \A i \in 1..Len(stack'[u]) : i \in Nat
      BY StackFrames DEF TypeOK
    <3> QED
      BY <1>4, <1>7, <2>1, <3>1 DEF LoopOver
  <2>3. d \in 1..Len(stack'[t]) /\ stack'[t][d].pc = "deliver"
    BY <1>0, <1>1, <1>4, <1>7
  <2>4. ASSUME NEW k
        PROVE (\E u \in Threads : \E i \in 1..Len(stack'[u]) :
                  /\ i \in 1..Len(stack'[u]) /\ stack'[u][i].pc = "deliver"
                  /\ stack'[u][i].node = n /\ stack'[u][i].cursor < k.at) <=> l.at < k.at
    <3>1. ASSUME l.at < k.at
          PROVE  \E u \in Threads : \E i \in 1..Len(stack'[u]) :
                  /\ i \in 1..Len(stack'[u]) /\ stack'[u][i].pc = "deliver"
                  /\ stack'[u][i].node = n /\ stack'[u][i].cursor < k.at
      BY <1>5, <2>3, <3>1
    <3>2. ASSUME NEW u \in Threads, NEW i \in 1..Len(stack'[u]),
                 stack'[u][i].pc = "deliver", stack'[u][i].node = n,
                 stack'[u][i].cursor < k.at
          PROVE  l.at < k.at
      <4>1. u = t /\ i = d
        BY <2>2, <3>2
      <4> QED
        BY <1>5, <3>2, <4>1
    <3> QED
      BY <3>1, <3>2
  <2>5. Ahead(n)' = {k \in observers'[n] : \E u \in Threads : \E i \in 1..Len(stack'[u]) :
                  /\ i \in 1..Len(stack'[u]) /\ stack'[u][i].pc = "deliver"
                  /\ stack'[u][i].node = n /\ stack'[u][i].cursor < k.at}
    BY <1>0, <1>1, AheadNext
  <2> QED
    BY <1>3, <2>4, <2>5
<1>10. l \in Ahead(n) /\ Ahead(n)' = Ahead(n) \ {l}
  <2>1. \A k \in observers[n] : k.at \in Nat /\ (k.at = l.at => k = l)
    <3>1. \A k \in observers[n] : k \in Link
      BY DEF IInv, TypeOK
    <3>2. \A k \in observers[n] : k.at \in Nat
      BY <3>1, ConstantsAssumption DEF Link
    <3>3. \A k \in observers[n] : k.at = l.at => k = l
      BY <1>2 DEF IInv, ListsOK
    <3> QED
      BY <3>2, <3>3
  <2>2. c < l.at /\ \A k \in observers[n] : c < k.at => l.at <= k.at
    BY <1>2 DEF IsNext
  <2>3. ASSUME NEW k \in observers[n] PROVE l.at < k.at <=> (c < k.at /\ k # l)
    BY <1>0, <1>1, <1>5, <2>1, <2>2
  <2> QED
    BY <1>8, <1>9, <2>2, <2>3
<1>11. ASSUME NEW k \in Nodes \ {n} PROVE Ahead(k)' = Ahead(k)
  <2>1. ASSUME NEW u \in Threads, NEW i \in Nat
        PROVE
           /\ (/\ i \in 1..Len(stack'[u]) /\ stack'[u][i].pc = "deliver"
               /\ stack'[u][i].node = k) <=> LoopOver(u, i, k)
           /\ LoopOver(u, i, k) => stack'[u][i].cursor = stack[u][i].cursor
    <3>1. CASE u = t /\ i = d
      <4>1. stack'[u][i].node # k /\ stack[u][i].node # k
        BY <1>1, <1>4, <1>5, <3>1
      <4> QED
        BY <3>1, <4>1 DEF LoopOver
    <3>2. CASE ~(u = t /\ i = d)
      BY <1>7, <3>2 DEF LoopOver
    <3> QED
      BY <3>1, <3>2
  <2> QED
    BY <1>3, <2>1, SameAhead DEF IInv
<1>12. Due' = [Due EXCEPT ![n] = @ \ {l}] /\ l \in Due[n]
  <2>1. Due' = [Due EXCEPT ![n] = Ahead(n) \ {l}]
    <3> DEFINE S == Ahead(n) \ {l}
    <3>1. Ahead(n)' = S
      BY <1>10
    <3> HIDE DEF S
    <3>2. Due' = [Due EXCEPT ![n] = S]
      BY <1>0, <1>1, <1>11, <3>1, DueAt
    <3> QED
      BY <3>2 DEF S
  <2> QED
    BY <1>0, <1>1, <1>10, <2>1 DEF Due
<1>13. n \in Busy /\ Busy' = Busy
  <2>1. \A u \in Threads : u # NoThread
    BY ConstantsAssumption
  <2>2. owner[n] = t
    BY <1>0, <1>1, <1>4 DEF IInv, MutualExclusion, Delivering
  <2> QED
    BY <1>0, <1>1, <1>3, <2>1, <2>2 DEF Busy
<1>14. seen' = [seen EXCEPT ![l.to][n] = counter[n]]
  BY <1>2, <1>6
<1> QED
  BY <1>0, <1>1, <1>3, <1>12, <1>13, <1>14, AbstractActions

\* A loop that finds no next list node has nothing ahead of it.
LEMMA NothingAhead ==
  ASSUME IInv, NEW n \in Nodes, NEW c \in Nat,
         ~\E l \in observers[n] : IsNext(l, n, c)
  PROVE  {l \in observers[n] : c < l.at} = {}
<1> DEFINE R == {l \in observers[n] : c < l.at}
           T == {l.at : l \in R}
<1>1. \A l \in observers[n] : l.at \in Nat
  BY ConstantsAssumption DEF IInv, TypeOK, Link
<1>2. SUFFICES ASSUME R # {} PROVE FALSE
  OBVIOUS
<1>3. T \subseteq Nat /\ T # {}
  BY <1>1, <1>2
<1>4. PICK x \in T : \A y \in T : x <= y
  <2> HIDE DEF T
  <2> QED
    BY <1>3, LeastNumber
<1>5. PICK l \in R : x = l.at
  BY <1>4
<1>6. IsNext(l, n, c)
  BY <1>4, <1>5 DEF IsNext
<1> QED
  BY <1>5, <1>6

LEMMA ReturnRefines ==
  ASSUME IInv, TypeOK', NEW t \in Threads, Return(t)
  PROVE  \E n \in Nodes : Abstract!End(n)
<1> DEFINE d == Depth(t)
           c == Top(t).cursor
<1>1. /\ d \in Nat \ {0} /\ Top(t) \in Frame /\ Top(t).pc = "deliver"
      /\ Top(t).node \in Nodes /\ c \in Nat
  BY ReturnShape, ConstantsAssumption DEF IInv, Frame
<1>2. PICK n \in Nodes : n = Top(t).node
  BY <1>1
<1>3. /\ observers' = observers /\ counter' = counter /\ seen' = seen
      /\ owner' = Released(t)
      /\ ~\E l \in observers[n] : IsNext(l, n, c)
  BY <1>2 DEF Return
<1>4. Delivering(t, d) /\ stack[t][d] = Top(t) /\ LoopOver(t, d, n)
  BY <1>1, <1>2 DEF Delivering, LoopOver, Top
<1>5. \A u \in Threads, i \in Nat : LoopOver(u, i, n) => u = t /\ i = d
  BY <1>1, <1>4, OneLoop DEF IInv, LoopOver
<1>6. \A u \in Threads, i \in Nat :
        /\ (i \in 1..Len(stack'[u]) /\ stack'[u][i].pc = "deliver")
             <=> (Delivering(u, i) /\ ~(u = t /\ i = d))
        /\ (Delivering(u, i) /\ ~(u = t /\ i = d)) => stack'[u][i] = stack[u][i]
  BY LoopEnds DEF IInv
<1>7. owner' = [owner EXCEPT ![n] = NoThread]
  <2>1. ASSUME NEW i \in 1..(Depth(t) - 1) PROVE stack[t][i].node # n
    <3>1. i \in 1..Depth(t) /\ i < Depth(t) /\ Depth(t) \in 1..Depth(t)
      BY <1>1
    <3>2. Height[stack[t][i].node] > Height[n]
      BY <1>2, <1>4, <3>1 DEF IInv, Nested
    <3>3. Height[n] \in Nat
      BY ConstantsAssumption
    <3> QED
      BY <3>2, <3>3
  <2> QED
    BY <1>2, <1>3, <2>1 DEF Released
<1>8. Ahead(n) = {}
  <2>1. Ahead(n) = {l \in observers[n] : c < l.at}
    BY <1>1, <1>4, AheadOfLoop
  <2> QED
    BY <1>1, <1>3, <2>1, NothingAhead
<1>9. Ahead(n)' = {}
  <2>1. \A u \in Threads : \A i \in 1..Len(stack'[u]) : i \in Nat
    BY StackFrames DEF TypeOK
  <2>2. \A u \in Threads : \A i \in 1..Len(stack'[u]) :
          ~(stack'[u][i].pc = "deliver" /\ stack'[u][i].node = n)
    BY <1>5, <1>6, <2>1 DEF LoopOver
  <2> QED
    BY <2>2, AheadNext
<1>10. ASSUME NEW k \in Nodes \ {n} PROVE Ahead(k)' = Ahead(k)
  <2>1. ASSUME NEW u \in Threads, NEW i \in Nat
        PROVE
           /\ (/\ i \in 1..Len(stack'[u]) /\ stack'[u][i].pc = "deliver"
               /\ stack'[u][i].node = k) <=> LoopOver(u, i, k)
           /\ LoopOver(u, i, k) => stack'[u][i].cursor = stack[u][i].cursor
    <3>1. CASE u = t /\ i = d
      <4>1. ~LoopOver(u, i, k)
        BY <1>4, <3>1 DEF LoopOver
      <4> QED
        BY <1>6, <3>1, <4>1
    <3>2. CASE ~(u = t /\ i = d)
      BY <1>6, <3>2 DEF LoopOver
    <3> QED
      BY <3>1, <3>2
  <2> QED
    BY <1>3, <2>1, SameAhead DEF IInv
<1>11. Due' = Due /\ Due[n] = {}
  BY <1>8, <1>9, <1>10 DEF Due
<1>12. n \in Busy /\ Busy' = Busy \ {n}
  <2>1. \A u \in Threads : u # NoThread
    BY ConstantsAssumption
  <2>2. owner[n] = t
    BY <1>4 DEF IInv, MutualExclusion, LoopOver, Delivering
  <2> QED
    BY <1>7, <2>1, <2>2 DEF Busy, IInv, TypeOK
<1> QED
  BY <1>3, <1>11, <1>12, AbstractActions

\* A step that edits only the list of one node keeps what is ahead elsewhere.
LEMMA EditElsewhere ==
  ASSUME TypeOK, TypeOK', stack' = stack, NEW n \in Nodes, observers'[n] = observers[n]
  PROVE  Ahead(n)' = Ahead(n)
<1>1. \A u \in Threads, i \in Nat :
           /\ (/\ i \in 1..Len(stack'[u]) /\ stack'[u][i].pc = "deliver"
               /\ stack'[u][i].node = n) <=> LoopOver(u, i, n)
           /\ LoopOver(u, i, n) => stack'[u][i].cursor = stack[u][i].cursor
  BY DEF LoopOver, Delivering, Depth
<1> QED
  BY <1>1, SameAhead

\* What is ahead in the edited list, in terms of the loops, which stay.
LEMMA EditHere ==
  ASSUME stack' = stack, NEW n \in Nodes
  PROVE  Ahead(n)' = {l \in observers'[n] : \E u \in Threads : \E i \in 1..Depth(u) :
                        LoopOver(u, i, n) /\ stack[u][i].cursor < l.at}
BY AheadNext DEF LoopOver, Delivering, Depth

LEMMA DisconnectRefines ==
  ASSUME IInv, TypeOK', NEW t \in Threads, NEW a \in Nodes, NEW b \in Nodes, Disconnect(t, a, b)
  PROVE  Abstract!Disconnect(a)
<1>1. /\ owner' = owner /\ counter' = counter /\ seen' = seen /\ stack' = stack
      /\ observers' = [observers EXCEPT ![a] = {l \in @ : l.to # b}]
  BY DEF Disconnect
<1>2. /\ observers'[a] = {l \in observers[a] : l.to # b}
      /\ \A n \in Nodes \ {a} : observers'[n] = observers[n]
  BY <1>1 DEF IInv, TypeOK
<1>3. Ahead(a)' = {l \in Ahead(a) : l.to # b}
  BY <1>1, <1>2, EditHere DEF Ahead, LoopOver
<1>4. \A n \in Nodes \ {a} : Ahead(n)' = Ahead(n)
  BY <1>1, <1>2, EditElsewhere DEF IInv
<1>5. Due' = [Due EXCEPT ![a] = {l \in @ : l.to # b}]
  BY <1>3, <1>4 DEF Due
<1>6. Busy' = Busy
  BY <1>1 DEF Busy
<1> QED
  BY <1>1, <1>5, <1>6, AbstractActions

LEMMA ConnectRefines ==
  ASSUME IInv, TypeOK', NEW t \in Threads, NEW a \in Nodes, NEW b \in Nodes, Connect(t, a, b)
  PROVE  Abstract!Connect(a)
<1>1. PICK k \in 1..MaxLinks :
        /\ \A l \in observers[a] : l.at < k
        /\ observers' = [observers EXCEPT ![a] = @ \cup {[at |-> k, to |-> b]}]
  BY DEF Connect, IsBack
<1>2. PICK new \in Link : new = [at |-> k, to |-> b]
  BY DEF Link
<1>3. owner' = owner /\ counter' = counter /\ seen' = seen /\ stack' = stack
  BY DEF Connect
<1>4. k \in Nat \ {0} /\ new.at = k
  BY <1>2, ConstantsAssumption
<1>5. new \notin observers[a]
  BY <1>1, <1>4
<1>6. /\ observers'[a] = observers[a] \cup {new}
      /\ \A n \in Nodes \ {a} : observers'[n] = observers[n]
  BY <1>1, <1>2 DEF IInv, TypeOK
<1>7. \A n \in Nodes \ {a} : Ahead(n)' = Ahead(n)
  BY <1>3, <1>6, EditElsewhere DEF IInv
<1>8. Ahead(a)' = IF a \in Busy THEN Ahead(a) \cup {new} ELSE Ahead(a)
  <2>1. Ahead(a)' = {l \in observers'[a] : \E u \in Threads : \E i \in 1..Depth(u) :
                        LoopOver(u, i, a) /\ stack[u][i].cursor < l.at}
    BY <1>3, EditHere
  <2>2. CASE a \notin Busy
    <3>1. \A u \in Threads : \A i \in 1..Depth(u) : ~LoopOver(u, i, a)
      BY <2>2, AheadOfFree, LoopIndexes DEF Busy, LoopOver, IInv
    <3>2. Ahead(a) = {}
      BY <2>2, AheadOfFree DEF Busy
    <3> QED
      BY <2>1, <2>2, <3>1, <3>2
  <2>3. CASE a \in Busy
    <3>1. PICK u \in Threads, i \in Nat : LoopOver(u, i, a)
      BY <2>3, LoopOfOwner DEF Busy
    <3>2. i \in 1..Depth(u) /\ stack[u][i] \in Frame
      BY <3>1, StackFrames DEF LoopOver, Delivering, IInv, TypeOK, Depth
    <3>3. stack[u][i].cursor < k
      <4>1. stack[u][i].cursor \in Nat
        BY <3>2, ConstantsAssumption DEF Frame
      <4>2. CASE stack[u][i].cursor = 0
        BY <1>4, <4>2
      <4>3. CASE stack[u][i].cursor > 0
        BY <1>1, <3>1, <3>2, <4>3 DEF IInv, CursorValid, LoopOver
      <4> QED
        BY <4>1, <4>2, <4>3
    <3>4. \A l : l \in Ahead(a)' <=> l \in Ahead(a) \/ l = new
      BY <1>4, <1>6, <2>1, <3>1, <3>2, <3>3 DEF Ahead, LoopOver
    <3> QED
      BY <2>3, <3>4
  <2> QED
    BY <2>2, <2>3
<1>9. Due' = IF a \in Busy THEN [Due EXCEPT ![a] = @ \cup {new}] ELSE Due
  BY <1>7, <1>8 DEF Due
<1>10. Busy' = Busy
  BY <1>3 DEF Busy
<1>11. observers' = [observers EXCEPT ![a] = @ \cup {new}]
  BY <1>1, <1>2
<1> QED
  BY <1>3, <1>5, <1>9, <1>10, <1>11, AbstractActions

-----------------------------------------------------------------------------
(* The theorem.                                                            *)

LEMMA InitRefines == Init => Abstract!Init
<1> SUFFICES ASSUME Init PROVE Abstract!Init
  OBVIOUS
<1>1. \A u \in Threads : \A i \in 1..Depth(u) : FALSE
  BY EmptySeq DEF Init, Depth
<1>2. \A n \in Nodes : Ahead(n) = {}
  BY <1>1 DEF Ahead
<1>3. {n \in Nodes : owner[n] # NoThread} = {}
  BY DEF Init
<1> QED
  BY <1>2, <1>3 DEF Init, Abstract!Init

LEMMA StepRefines == IInv /\ [Next]_vars => AbstractStep
<1> SUFFICES ASSUME IInv, [Next]_vars PROVE AbstractStep
  OBVIOUS
<1>1. TypeOK'
  BY TypeStep DEF IInv
<1>2. ASSUME NEW n \in Nodes,
             \/ Abstract!Begin(n) \/ Abstract!Skip(n) \/ Abstract!Hand(n)
             \/ Abstract!End(n) \/ Abstract!Connect(n) \/ Abstract!Disconnect(n)
      PROVE  AbstractStep
  BY <1>2 DEF AbstractStep, Abstract!Next
<1>3. ASSUME NEW t \in Threads,
             \/ \E self \in BOOLEAN : Signal(t, self)
             \/ SetSenderInfo(t) \/ ReceiveSelf(t)
      PROVE  AbstractStep
  BY <1>1, <1>3, QuietRefines
<1>4. ASSUME NEW t \in Threads, CountSelf(t) PROVE AbstractStep
  BY <1>1, <1>2, <1>4, CountSelfRefines
<1>5. ASSUME NEW t \in Threads, LockObservers(t) PROVE AbstractStep
  BY <1>1, <1>2, <1>5, LockObserversRefines
<1>6. ASSUME NEW t \in Threads, Deliver(t) PROVE AbstractStep
  BY <1>1, <1>2, <1>6, DeliverRefines
<1>7. ASSUME NEW t \in Threads, Return(t) PROVE AbstractStep
  BY <1>1, <1>2, <1>7, ReturnRefines
<1>8. ASSUME NEW t \in Threads, NEW a \in Nodes, NEW b \in Nodes, Connect(t, a, b)
      PROVE  AbstractStep
  BY <1>1, <1>2, <1>8, ConnectRefines
<1>9. ASSUME NEW t \in Threads, NEW a \in Nodes, NEW b \in Nodes, Disconnect(t, a, b)
      PROVE  AbstractStep
  BY <1>1, <1>2, <1>9, DisconnectRefines
<1>10. CASE UNCHANGED vars
  <2>1. SameLoops /\ observers' = observers
    BY <1>10 DEF vars, SameLoops, Delivering, Depth
  <2>2. Due' = Due
    BY <1>1, <2>1, QuietAhead DEF IInv
  <2> QED
    BY <1>10, <2>2, Stutter DEF vars
<1> QED
  BY <1>3, <1>4, <1>5, <1>6, <1>7, <1>8, <1>9, <1>10 DEF Next, InCall, Edit

\* The notifications of a node follow one another, are numbered, and each goes
\* once to every observer that is there in its turn, however many threads signal
\* and edit the graph (notify_observers, notify_self, connect, disconnect).
THEOREM ImplementsMulticast == Spec => SerialMulticast
BY InitRefines, StepRefines, Invariant, PTL
DEF Spec, SerialMulticast, Abstract!Spec, AbstractStep

=============================================================================
