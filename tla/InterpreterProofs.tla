------------------------- MODULE InterpreterProofs --------------------------
(***************************************************************************)
(* Proofs about Interpreter: WindowHolds, EveryNthIsSignalled and          *)
(* SnapshotsInOrder.                                                       *)
(***************************************************************************)
EXTENDS Interpreter, SequenceTheorems, TLAPS

-----------------------------------------------------------------------------
(* The types of messages, statements and memories.                         *)

Of(kind) == {n \in Nodes : Kind[n] = kind}

Messages ==
  {m \in [python : BOOLEAN, cols : Seq(Nat), count : Nat] : Len(m.cols) \in 1..Width}

MutexStatement == {Lock(x) : x \in Mutexes} \cup {Unlock(x) : x \in Mutexes}

MessageStatement ==
  {Signal(n, m) : n \in Nodes, m \in Messages}
    \cup {Receive(n, m) : n \in Nodes, m \in Messages}
    \cup {Release(m) : m \in Messages}

UpdateStatement ==
  {Update(n, how, m) : n \in Of("every"), how \in {"test", "count", "wrap"}, m \in Messages}
    \cup {Update(n, "remember", m) : n \in Of("last"), m \in Messages}
    \cup {Update(n, how, m) : n \in Of("buffer"), how \in {"add", "send", "chop"}, m \in Messages}

OtherStatement ==
  {TakeGil, GiveGil, RunPython}
    \cup {Start(n) : n \in Nodes} \cup {RequestStop(n) : n \in Nodes} \cup {Join(n) : n \in Nodes}

Statement == MutexStatement \cup MessageStatement \cup UpdateStatement \cup OtherStatement

Program == Seq(Statement)

Buffers == {b \in [cols : Seq(Nat), count : Nat] : Len(b.cols) = Width}

MemoryOf(kind) ==
  CASE kind = "every" -> Nat
    [] kind = "buffer" -> Buffers
    [] kind = "last" -> Messages \cup {None}
    [] OTHER -> {None}

TypeInv ==
  /\ todo \in [Threads -> Program]
  /\ owner \in [Mutexes -> Threads \cup {None}]
  /\ DOMAIN memory = Nodes
  /\ \A n \in Nodes : memory[n] \in MemoryOf(Kind[n])
  /\ heard \in [Nodes -> Nat]
  /\ passed \in [Nodes -> Nat]
  /\ columns \in [Nodes -> Seq(Nat)]
  /\ made \in Nat

-----------------------------------------------------------------------------
(* Statements: how they are made, and what they say.                       *)

LEMMA StatementsOf ==
  ASSUME NEW n \in Nodes, NEW m \in Messages
  PROVE  /\ Signal(n, m) \in Statement
         /\ Receive(n, m) \in Statement
         /\ Release(m) \in Statement
         /\ Start(n) \in Statement /\ RequestStop(n) \in Statement /\ Join(n) \in Statement
         /\ Kind[n] = "every" => \A how \in {"test", "count", "wrap"} : Update(n, how, m) \in Statement
         /\ Kind[n] = "last" => Update(n, "remember", m) \in Statement
         /\ Kind[n] = "buffer" => \A how \in {"add", "send", "chop"} : Update(n, how, m) \in Statement
<1>1. Signal(n, m) \in MessageStatement /\ Receive(n, m) \in MessageStatement
      /\ Release(m) \in MessageStatement
  BY DEF MessageStatement
<1>2. Start(n) \in OtherStatement /\ RequestStop(n) \in OtherStatement /\ Join(n) \in OtherStatement
  BY DEF OtherStatement
<1>3. Kind[n] = "every" => \A how \in {"test", "count", "wrap"} : Update(n, how, m) \in UpdateStatement
  BY DEF UpdateStatement, Of
<1>4. Kind[n] = "last" => Update(n, "remember", m) \in UpdateStatement
  BY DEF UpdateStatement, Of
<1>5. Kind[n] = "buffer" => \A how \in {"add", "send", "chop"} : Update(n, how, m) \in UpdateStatement
  BY DEF UpdateStatement, Of
<1> QED
  BY <1>1, <1>2, <1>3, <1>4, <1>5 DEF Statement

LEMMA MutexesOf ==
  ASSUME NEW n \in Nodes
  PROVE  OwnMutex(n) \in Mutexes /\ ObserversMutex(n) \in Mutexes
BY DEF OwnMutex, ObserversMutex, Mutexes

LEMMA OtherStatements ==
  /\ TakeGil \in Statement /\ GiveGil \in Statement /\ RunPython \in Statement
  /\ \A x \in Mutexes : Lock(x) \in Statement /\ Unlock(x) \in Statement
BY DEF Statement, OtherStatement, MutexStatement

\* The words of the statements.
LEMMA LockWords ==
  ASSUME NEW x
  PROVE  /\ Lock(x)[1] = "lock" /\ Lock(x)[2] = x
         /\ Unlock(x)[1] = "unlock" /\ Unlock(x)[2] = x
BY DEF Lock, Unlock

LEMMA SignalWords ==
  ASSUME NEW n, NEW m
  PROVE  /\ Signal(n, m)[1] = "signal" /\ Signal(n, m)[2] = n /\ Signal(n, m)[3] = m
         /\ Receive(n, m)[1] = "receive" /\ Receive(n, m)[2] = n /\ Receive(n, m)[3] = m
BY DEF Signal, Receive

LEMMA UpdateWords ==
  ASSUME NEW n, NEW how, NEW m
  PROVE  /\ Update(n, how, m)[1] = "update" /\ Update(n, how, m)[2] = n
         /\ Update(n, how, m)[3] = how /\ Update(n, how, m)[4] = m
BY DEF Update

LEMMA ReleaseWords ==
  ASSUME NEW m
  PROVE  Release(m)[1] = "release" /\ Release(m)[2] = m
BY DEF Release

LEMMA PlainWords ==
  TakeGil[1] = "take gil" /\ GiveGil[1] = "give gil" /\ RunPython[1] = "python"
BY Zenon DEF TakeGil, GiveGil, RunPython

LEMMA ThreadWords ==
  ASSUME NEW n
  PROVE  Start(n)[1] = "start" /\ RequestStop(n)[1] = "request stop" /\ Join(n)[1] = "join"
BY DEF Start, RequestStop, Join

\* What a statement says, by its first word.
LEMMA StatementSays ==
  ASSUME NEW s \in Statement
  PROVE  /\ s[1] \in {"lock", "unlock"} => s[2] \in Mutexes
         /\ s[1] \in {"signal", "receive"} => s[2] \in Nodes /\ s[3] \in Messages
         /\ s[1] = "update" =>
              /\ s[2] \in Nodes /\ s[4] \in Messages
              /\ \/ Kind[s[2]] = "every" /\ s[3] \in {"test", "count", "wrap"}
                 \/ Kind[s[2]] = "last" /\ s[3] = "remember"
                 \/ Kind[s[2]] = "buffer" /\ s[3] \in {"add", "send", "chop"}
         /\ s[1] = "release" => s[2] \in Messages
         /\ s[1] = "lock" => s = Lock(s[2])
<1> DEFINE Says(x) ==
      /\ x[1] \in {"lock", "unlock"} => x[2] \in Mutexes
      /\ x[1] \in {"signal", "receive"} => x[2] \in Nodes /\ x[3] \in Messages
      /\ x[1] = "update" =>
           /\ x[2] \in Nodes /\ x[4] \in Messages
           /\ \/ Kind[x[2]] = "every" /\ x[3] \in {"test", "count", "wrap"}
              \/ Kind[x[2]] = "last" /\ x[3] = "remember"
              \/ Kind[x[2]] = "buffer" /\ x[3] \in {"add", "send", "chop"}
      /\ x[1] = "release" => x[2] \in Messages
      /\ x[1] = "lock" => x = Lock(x[2])
<1>1. \A x \in Mutexes : Says(Lock(x)) /\ Says(Unlock(x))
  BY LockWords
<1>2. \A n \in Nodes, m \in Messages :
        Says(Signal(n, m)) /\ Says(Receive(n, m))
  <2> TAKE n \in Nodes, m \in Messages
  <2>1. Says(Signal(n, m))
    <3> DEFINE x == Signal(n, m)
    <3>1. x[1] = "signal" /\ x[2] = n /\ x[3] = m
      BY SignalWords
    <3> HIDE DEF x
    <3>2. Says(x)
      BY <3>1
    <3> QED
      BY <3>2 DEF x
  <2>2. Says(Receive(n, m))
    <3> DEFINE x == Receive(n, m)
    <3>1. x[1] = "receive" /\ x[2] = n /\ x[3] = m
      BY SignalWords
    <3> HIDE DEF x
    <3>2. Says(x)
      BY <3>1
    <3> QED
      BY <3>2 DEF x
  <2> QED
    BY <2>1, <2>2
<1>6. ASSUME NEW m \in Messages PROVE Says(Release(m))
  <2> DEFINE x == Release(m)
  <2>1. x[1] = "release" /\ x[2] = m
    BY ReleaseWords
  <2> HIDE DEF x
  <2>2. Says(x)
    BY <2>1
  <2> QED
    BY <2>2 DEF x
<1>3. ASSUME NEW n \in Nodes, NEW m \in Messages, NEW how,
             \/ Kind[n] = "every" /\ how \in {"test", "count", "wrap"}
             \/ Kind[n] = "last" /\ how = "remember"
             \/ Kind[n] = "buffer" /\ how \in {"add", "send", "chop"}
      PROVE  Says(Update(n, how, m))
  <2> DEFINE x == Update(n, how, m)
  <2>1. x[1] = "update" /\ x[2] = n /\ x[3] = how /\ x[4] = m
    BY UpdateWords
  <2> HIDE DEF x
  <2>2. Says(x)
    BY <1>3, <2>1
  <2> QED
    BY <2>2 DEF x
<1>4. /\ \A n \in Nodes : Says(Start(n)) /\ Says(RequestStop(n)) /\ Says(Join(n))
      /\ Says(TakeGil) /\ Says(GiveGil) /\ Says(RunPython)
  BY ThreadWords, PlainWords
<1> HIDE DEF Says
<1>5. Says(s)
  <2>1. CASE s \in MutexStatement
    BY <1>1, <2>1 DEF MutexStatement
  <2>2. CASE s \in MessageStatement
    BY <1>2, <1>6, <2>2 DEF MessageStatement
  <2>3. CASE s \in UpdateStatement
    <3>1. CASE \E n \in Of("every"), how \in {"test", "count", "wrap"}, m \in Messages :
                 s = Update(n, how, m)
      BY <1>3, <3>1 DEF Of
    <3>2. CASE \E n \in Of("last"), m \in Messages : s = Update(n, "remember", m)
      BY <1>3, <3>2 DEF Of
    <3>3. CASE \E n \in Of("buffer"), how \in {"add", "send", "chop"}, m \in Messages :
                 s = Update(n, how, m)
      BY <1>3, <3>3 DEF Of
    <3> QED
      BY <2>3, <3>1, <3>2, <3>3 DEF UpdateStatement
  <2>4. CASE s \in OtherStatement
    BY <1>4, <2>4 DEF OtherStatement
  <2> QED
    BY <2>1, <2>2, <2>3, <2>4 DEF Statement
<1> QED
  BY <1>5 DEF Says

\* A statement is what its words say.
LEMMA SignalIs ==
  ASSUME NEW s \in Statement
  PROVE  /\ s[1] = "signal" => s = Signal(s[2], s[3])
         /\ s[1] = "receive" => s = Receive(s[2], s[3])
         /\ s[1] = "update" => s = Update(s[2], s[3], s[4])
<1>1. CASE s \in MutexStatement \/ s \in OtherStatement
  <2>1. \A x : Lock(x)[1] \notin {"signal", "receive", "update"}
               /\ Unlock(x)[1] \notin {"signal", "receive", "update"}
    BY LockWords
  <2>2. \A n : /\ Start(n)[1] \notin {"signal", "receive", "update"}
               /\ RequestStop(n)[1] \notin {"signal", "receive", "update"}
               /\ Join(n)[1] \notin {"signal", "receive", "update"}
    BY ThreadWords
  <2>3. s \in {TakeGil, GiveGil, RunPython} => s[1] \notin {"signal", "receive", "update"}
    BY PlainWords
  <2>4. s \in MutexStatement => s[1] \notin {"signal", "receive", "update"}
    BY <2>1 DEF MutexStatement
  <2>5. s \in OtherStatement => s[1] \notin {"signal", "receive", "update"}
    BY <2>2, <2>3 DEF OtherStatement
  <2> QED
    BY <1>1, <2>4, <2>5
<1>2. CASE s \in MessageStatement
  <2>1. CASE \E n \in Nodes, m \in Messages : s = Signal(n, m)
    BY <2>1 DEF Signal
  <2>2. CASE \E n \in Nodes, m \in Messages : s = Receive(n, m)
    BY <2>2 DEF Receive
  <2>3. CASE \E m \in Messages : s = Release(m)
    BY <2>3, ReleaseWords
  <2> QED
    BY <1>2, <2>1, <2>2, <2>3 DEF MessageStatement
<1>3. CASE s \in UpdateStatement
  <2>1. PICK n, how, m : s = Update(n, how, m)
    BY <1>3 DEF UpdateStatement
  <2> QED
    BY <2>1 DEF Update
<1> QED
  BY <1>1, <1>2, <1>3 DEF Statement

-----------------------------------------------------------------------------
(* Programs: the statements of which each is made.                         *)

LEMMA ShortPrograms ==
  ASSUME NEW S, NEW a \in S, NEW b \in S, NEW c \in S
  PROVE  /\ <<>> \in Seq(S) /\ <<a>> \in Seq(S) /\ <<a, b>> \in Seq(S) /\ <<a, b, c>> \in Seq(S)
         /\ Len(<<>>) = 0 /\ Len(<<a>>) = 1 /\ Len(<<a, b>>) = 2 /\ Len(<<a, b, c>>) = 3
         /\ <<a>>[1] = a /\ <<a, b>>[1] = a /\ <<a, b>>[2] = b
         /\ <<a, b, c>>[1] = a /\ <<a, b, c>>[2] = b /\ <<a, b, c>>[3] = c
OBVIOUS

LEMMA GuardedProgram ==
  ASSUME NEW S, NEW body \in Seq(S), NEW held, NEW x, Lock(x) \in S, Unlock(x) \in S
  PROVE  Guarded(held, x, body) \in Seq(S)
BY ShortPrograms, ConcatProperties DEF Guarded

LEMMA GilProgram ==
  ASSUME NEW S, NEW body \in Seq(S), NEW holds, TakeGil \in S, GiveGil \in S
  PROVE  WithGil(holds, body) \in Seq(S) /\ WithoutGil(body) \in Seq(S)
BY ShortPrograms, ConcatProperties DEF WithGil, WithoutGil

\* the calls of n's observers
Receives(n, m) == [i \in DOMAIN Observers[n] |-> Receive(Observers[n][i], m)]

SignalWordsOf(n, m) ==
  {Lock(ObserversMutex(n)), Unlock(ObserversMutex(n))}
    \cup {Receive(o, m) : o \in Range(Observers[n])}

LEMMA ReceivesProgram ==
  ASSUME NEW n \in Nodes, NEW m
  PROVE  /\ Receives(n, m) \in Seq({Receive(o, m) : o \in Range(Observers[n])})
         /\ Receives(n, m) \in Seq(SignalWordsOf(n, m))
<1> DEFINE k == Len(Observers[n])
           R == {Receive(o, m) : o \in Range(Observers[n])}
<1>1. k \in Nat /\ DOMAIN Observers[n] = 1..k
  BY LibraryNodesAssumption, LenProperties
<1>2. \A i \in 1..k : Observers[n][i] \in Range(Observers[n])
  BY <1>1 DEF Range
<1>3. Receives(n, m) \in [1..k -> R]
  BY <1>1, <1>2 DEF Receives
<1>4. R \subseteq SignalWordsOf(n, m)
  BY DEF SignalWordsOf
<1> HIDE DEF k, R
<1>5. Receives(n, m) \in [1..k -> SignalWordsOf(n, m)]
  BY <1>3, <1>4
<1> QED
  BY <1>1, <1>3, <1>5, SeqDef DEF R

LEMMA SignalProgram ==
  ASSUME NEW n \in Nodes, NEW m, NEW held
  PROVE  SignalBody(held, n, m) \in Seq(SignalWordsOf(n, m))
<1>1. SignalBody(held, n, m) = Guarded(held, ObserversMutex(n), Receives(n, m))
  BY DEF SignalBody, Receives
<1>2. Lock(ObserversMutex(n)) \in SignalWordsOf(n, m) /\ Unlock(ObserversMutex(n)) \in SignalWordsOf(n, m)
  BY DEF SignalWordsOf
<1> QED
  BY <1>1, <1>2, ReceivesProgram, GuardedProgram

\* the updates that the receive of a node makes
UpdateWordsOf(n, m) ==
  IF Kind[n] = "every" THEN {Update(n, "test", m), Update(n, "count", m), Update(n, "wrap", m)}
  ELSE IF Kind[n] = "last" THEN {Update(n, "remember", m)}
  ELSE IF Kind[n] = "buffer" THEN {Update(n, "add", m), Update(n, "send", m)}
  ELSE {}

ReceiptWordsOf(n, m) ==
  {Lock(OwnMutex(n)), Unlock(OwnMutex(n)), TakeGil, GiveGil, RunPython,
   Signal(n, m), Signal(n, FromPython(m)), Release(FromPython(m))} \cup UpdateWordsOf(n, m)

LEMMA ReceiptPrograms ==
  ASSUME NEW n \in Nodes, NEW m, NEW held, NEW holds
  PROVE  /\ Receipts(held, holds, n, m) \subseteq Seq(ReceiptWordsOf(n, m))
         /\ Kind[n] = "every" => Receipts(held, holds, n, m) = {EveryReceive(n, m)}
         /\ Kind[n] = "buffer" => Receipts(held, holds, n, m) = {BufferReceive(held, n, m)}
<1> DEFINE S == ReceiptWordsOf(n, m)
           P == FromPython(m)
           code == WithGil(holds, <<RunPython>>)
<1>1. /\ Lock(OwnMutex(n)) \in S /\ Unlock(OwnMutex(n)) \in S
      /\ TakeGil \in S /\ GiveGil \in S /\ RunPython \in S
      /\ Signal(n, m) \in S /\ Signal(n, P) \in S /\ Release(P) \in S
  BY DEF ReceiptWordsOf
<1>2. /\ Kind[n] = "every" => Update(n, "test", m) \in S /\ Update(n, "count", m) \in S
                              /\ Update(n, "wrap", m) \in S
      /\ Kind[n] = "last" => Update(n, "remember", m) \in S
      /\ Kind[n] = "buffer" => Update(n, "add", m) \in S /\ Update(n, "send", m) \in S
  BY DEF ReceiptWordsOf, UpdateWordsOf
<1>3. P = FromPython(m)
  OBVIOUS
<1> HIDE DEF S, P
<1>4. code \in Seq(S) /\ <<Signal(n, m)>> \in Seq(S) /\ <<Signal(n, P)>> \in Seq(S)
  BY <1>1, ShortPrograms, GilProgram
<1>5. code \o <<Signal(n, m)>> \in Seq(S)
  BY <1>4, ConcatProperties
<1>6. MapReceive(holds, n, m) \in Seq(S)
  <2>1. <<Signal(n, P), Release(P)>> \in Seq(S)
    BY <1>1, ShortPrograms
  <2> QED
    BY <1>3, <1>4, <2>1, ConcatProperties DEF MapReceive
<1>7. Kind[n] = "every" => EveryReceive(n, m) \in Seq(S)
  BY <1>2, ShortPrograms DEF EveryReceive
<1>8. Kind[n] = "last" =>
        Guarded(held, OwnMutex(n), <<Update(n, "remember", m)>>) \o <<Signal(n, m)>> \in Seq(S)
  BY <1>1, <1>2, <1>4, ShortPrograms, GuardedProgram, ConcatProperties
<1>9. Kind[n] = "buffer" => BufferReceive(held, n, m) \in Seq(S)
  BY <1>1, <1>2, ShortPrograms, GuardedProgram DEF BufferReceive
<1>10. Guarded(held, OwnMutex(n), <<Signal(n, m)>>) \in Seq(S)
  BY <1>1, <1>4, GuardedProgram
<1>11. WithGil(holds, <<RunPython>> \o WithoutGil(<<Signal(n, P)>>)) \in Seq(S)
  <2>1. <<RunPython>> \in Seq(S) /\ WithoutGil(<<Signal(n, P)>>) \in Seq(S)
    BY <1>1, <1>4, ShortPrograms, GilProgram
  <2>2. <<RunPython>> \o WithoutGil(<<Signal(n, P)>>) \in Seq(S)
    BY <2>1, ConcatProperties
  <2> QED
    BY <1>1, <2>2, GilProgram
<1>12. WithGil(holds, <<RunPython, Signal(n, P)>>) \in Seq(S)
  BY <1>1, ShortPrograms, GilProgram
<1>13. Kind[n] \in {"node", "callback", "filter", "map", "every", "last", "buffer", "saver",
                    "python", "python object"}
  BY LibraryNodesAssumption
<1> DEFINE all == Receipts(held, holds, n, m)
<1>14. \/ Kind[n] = "node" /\ all = {<<Signal(n, m)>>}
       \/ Kind[n] = "callback" /\ all = {code \o <<Signal(n, m)>>}
       \/ Kind[n] = "filter" /\ all = {code, code \o <<Signal(n, m)>>}
       \/ Kind[n] = "map" /\ all = {MapReceive(holds, n, m)}
       \/ Kind[n] = "every" /\ all = {EveryReceive(n, m)}
       \/ Kind[n] = "last" /\
            all = {Guarded(held, OwnMutex(n), <<Update(n, "remember", m)>>) \o <<Signal(n, m)>>}
       \/ Kind[n] = "buffer" /\ all = {BufferReceive(held, n, m)}
       \/ Kind[n] = "saver" /\ all = {Guarded(held, OwnMutex(n), <<Signal(n, m)>>)}
       \/ Kind[n] = "python" /\
            all = {WithGil(holds, <<RunPython>> \o WithoutGil(<<Signal(n, P)>>))}
       \/ Kind[n] = "python object" /\ all = {WithGil(holds, <<RunPython, Signal(n, P)>>)}
  BY <1>3, <1>13, ZenonT(60) DEF Receipts
<1> HIDE DEF all, code
<1>15. all \subseteq Seq(S)
  BY <1>4, <1>5, <1>6, <1>7, <1>8, <1>9, <1>10, <1>11, <1>12, <1>14
<1>16. /\ Kind[n] = "every" => all = {EveryReceive(n, m)}
       /\ Kind[n] = "buffer" => all = {BufferReceive(held, n, m)}
  BY <1>14
<1> QED
  BY <1>15, <1>16 DEF all, S

\* what a thread executes after an update
AfterWordsOf(n, was, m) ==
  {Signal(n, m), Release(was), Signal(n, Message(FALSE, was.cols, was.count))}

LEMMA AfterPrograms ==
  ASSUME NEW n, NEW was, NEW how, NEW m
  PROVE  /\ how = "test" /\ was = 0 => AfterUpdate(n, was, how, m) = <<Signal(n, m)>>
         /\ how = "test" /\ was # 0 => AfterUpdate(n, was, how, m) = <<>>
         /\ how = "remember" /\ was # None => AfterUpdate(n, was, how, m) = <<Release(was)>>
         /\ how = "remember" /\ was = None => AfterUpdate(n, was, how, m) = <<>>
         /\ how = "send" => AfterUpdate(n, was, how, m)
                              = <<Signal(n, Message(FALSE, was.cols, was.count))>>
         /\ how \in {"count", "wrap", "add", "chop"} => AfterUpdate(n, was, how, m) = <<>>
BY DEF AfterUpdate

CallNames == Sends \cup {"connect", "has_observers", ">", "last_message", "chop", "start", "stop"}

LEMMA CallsOf ==
  ASSUME NEW c \in Calls
  PROVE  /\ c[1] \in CallNames /\ c[2] \in Nodes
         /\ c[1] = "chop" => Kind[c[2]] = "buffer"
         /\ c[1] = "last_message" => Kind[c[2]] = "last"
<1>1. CASE c \in (Sends \cup {"connect", "has_observers", ">"}) \X Nodes
  BY <1>1 DEF CallNames, Sends
<1>2. CASE c \in {"last_message"} \X {n \in Nodes : Kind[n] = "last"}
  BY <1>2 DEF CallNames
<1>3. CASE c \in {"chop"} \X {n \in Nodes : Kind[n] = "buffer"}
  BY <1>3 DEF CallNames
<1>4. CASE c \in {"start", "stop"} \X Runnable
  <2>1. Runnable \subseteq Nodes
    BY InterpreterAssumption
  <2> QED
    BY <1>4, <2>1 DEF CallNames
<1> QED
  BY <1>1, <1>2, <1>3, <1>4, InterpreterAssumption

\* what a binding executes
BindingWordsOf(call, n, m) ==
  {GiveGil, TakeGil}
    \cup CASE call = "signal" -> {Signal(n, FromPython(m))}
           [] call = "signal object" -> {Signal(n, FromPython(m))}
           [] call = "receive" -> {Receive(n, FromPython(m))}
           [] call \in {"connect", "has_observers", ">"} ->
                {Lock(ObserversMutex(n)), Unlock(ObserversMutex(n))}
           [] call = "last_message" -> {Lock(OwnMutex(n)), Unlock(OwnMutex(n))}
           [] call = "chop" -> {Lock(OwnMutex(n)), Update(n, "chop", m), Unlock(OwnMutex(n))}
           [] call = "start" -> {Start(n)}
           [] call = "stop" -> {RequestStop(n), Join(n)}

LEMMA BindingPrograms ==
  ASSUME NEW call \in CallNames, NEW n, NEW m
  PROVE  Binding(call, n, m) \in Seq(BindingWordsOf(call, n, m))
<1> DEFINE S == BindingWordsOf(call, n, m)
<1>1. GiveGil \in S /\ TakeGil \in S
  BY DEF BindingWordsOf
<1>2. CASE call = "signal"
  <2> DEFINE s == Signal(n, FromPython(m))
  <2>1. s \in S /\ Binding(call, n, m) = WithoutGil(<<s>>)
    BY <1>2 DEF BindingWordsOf, Binding
  <2> HIDE DEF S, s
  <2>2. <<s>> \in Seq(S)
    BY <2>1, ShortPrograms
  <2> QED
    BY <1>1, <2>1, <2>2, GilProgram DEF S
<1>3. CASE call = "signal object"
  <2>1. Signal(n, FromPython(m)) \in S /\ Binding(call, n, m) = <<Signal(n, FromPython(m))>>
    BY <1>3 DEF BindingWordsOf, Binding
  <2> HIDE DEF S
  <2> QED
    BY <2>1, ShortPrograms DEF S
<1>4. CASE call = "receive"
  <2> DEFINE s == Receive(n, FromPython(m))
  <2>1. s \in S /\ Binding(call, n, m) = WithoutGil(<<s>>)
    BY <1>4 DEF BindingWordsOf, Binding
  <2> HIDE DEF S, s
  <2>2. <<s>> \in Seq(S)
    BY <2>1, ShortPrograms
  <2> QED
    BY <1>1, <2>1, <2>2, GilProgram DEF S
<1>5. CASE call \in {"connect", "has_observers", ">"}
  <2> DEFINE body == <<Lock(ObserversMutex(n)), Unlock(ObserversMutex(n))>>
  <2>1. /\ Lock(ObserversMutex(n)) \in S /\ Unlock(ObserversMutex(n)) \in S
        /\ Binding(call, n, m) \in {body, WithoutGil(body)}
    BY <1>5 DEF BindingWordsOf, Binding
  <2> HIDE DEF S
  <2>2. body \in Seq(S)
    BY <2>1, ShortPrograms
  <2> HIDE DEF body
  <2> QED
    BY <1>1, <2>1, <2>2, GilProgram DEF S
<1>6. CASE call = "last_message"
  <2>1. /\ Lock(OwnMutex(n)) \in S /\ Unlock(OwnMutex(n)) \in S
        /\ Binding(call, n, m) = <<Lock(OwnMutex(n)), Unlock(OwnMutex(n))>>
    BY <1>6 DEF BindingWordsOf, Binding
  <2> HIDE DEF S
  <2> QED
    BY <2>1, ShortPrograms DEF S
<1>7. CASE call = "chop"
  <2>1. /\ Lock(OwnMutex(n)) \in S /\ Unlock(OwnMutex(n)) \in S /\ Update(n, "chop", m) \in S
        /\ Binding(call, n, m) = <<Lock(OwnMutex(n)), Update(n, "chop", m), Unlock(OwnMutex(n))>>
    BY <1>7 DEF BindingWordsOf, Binding
  <2> HIDE DEF S
  <2> QED
    BY <2>1, ShortPrograms DEF S
<1>8. CASE call = "start"
  <2>1. Start(n) \in S /\ Binding(call, n, m) = WithoutGil(<<Start(n)>>)
    BY <1>8 DEF BindingWordsOf, Binding
  <2> HIDE DEF S
  <2>2. <<Start(n)>> \in Seq(S)
    BY <2>1, ShortPrograms
  <2> QED
    BY <1>1, <2>1, <2>2, GilProgram DEF S
<1>9. CASE call = "stop"
  <2>1. /\ RequestStop(n) \in S /\ Join(n) \in S
        /\ Binding(call, n, m) = WithoutGil(<<RequestStop(n), Join(n)>>)
    BY <1>9 DEF BindingWordsOf, Binding, StopCall
  <2> HIDE DEF S
  <2>2. <<RequestStop(n), Join(n)>> \in Seq(S)
    BY <2>1, ShortPrograms
  <2> QED
    BY <1>1, <2>1, <2>2, GilProgram DEF S
<1> QED
  BY <1>2, <1>3, <1>4, <1>5, <1>6, <1>7, <1>8, <1>9 DEF CallNames, Sends

LEMMA SmallerPrograms ==
  ASSUME NEW S, NEW T, S \subseteq T, NEW q \in Seq(S)
  PROVE  q \in Seq(T)
<1>1. Len(q) \in Nat /\ q \in [1..Len(q) -> S]
  BY LenProperties
<1>2. q \in [1..Len(q) -> T]
  BY <1>1
<1> QED
  BY <1>1, <1>2, SeqDef

-----------------------------------------------------------------------------
(* Messages and memories.                                                  *)

LEMMA Sizes ==
  /\ Width \in Nat /\ Width >= 2 /\ Width \in 1..Width
  /\ ChopLength \in Nat /\ ChopLength < Width
  /\ Nth \in Nat /\ Nth >= 1
<1>1. Width \in Nat \ {0} /\ ChopLength \in 0..(Width - 1) /\ Nth \in Nat \ {0}
  BY LibraryNodesAssumption
<1> QED
  BY <1>1, ColumnsAssumption

LEMMA SameRange ==
  ASSUME NEW a \in Nat, NEW b \in Nat, 1..a = 1..b
  PROVE  a = b
<1>1. a \in 1..b \/ a = 0
  OBVIOUS
<1>2. b \in 1..a \/ b = 0
  OBVIOUS
<1> QED
  BY <1>1, <1>2

LEMMA MessageOK ==
  ASSUME NEW python \in BOOLEAN, NEW cols \in Seq(Nat), NEW count \in Nat, Len(cols) \in 1..Width
  PROVE  Message(python, cols, count) \in Messages
BY DEF Message, Messages

LEMMA FromPythonOK ==
  ASSUME NEW m \in Messages
  PROVE  FromPython(m) \in Messages
BY DEF FromPython, Messages

LEMMA NewMessageOK ==
  ASSUME NEW k \in Nat
  PROVE  NewMessage(k) \in Messages
<1> DEFINE n == 1 + (k % 2)
           cols == [i \in 1..n |-> k]
<1>1. n \in 1..2
  OBVIOUS
<1> HIDE DEF n
<1>2. cols \in Seq(Nat) /\ Len(cols) = n
  <2>1. n \in Nat /\ cols \in [1..n -> Nat]
    BY <1>1
  <2>2. cols \in Seq(Nat)
    BY <2>1, SeqDef
  <2>3. DOMAIN cols = 1..n
    BY <2>1
  <2> HIDE DEF cols
  <2>4. DOMAIN cols = 1..Len(cols) /\ Len(cols) \in Nat
    BY <2>2, LenProperties
  <2> QED
    BY <2>1, <2>2, <2>3, <2>4, SameRange
<1>3. 0 \in Nat /\ n \in 1..Width
  BY <1>1, Sizes
<1> HIDE DEF cols
<1>4. Message(FALSE, cols, 0) \in Messages
  BY <1>2, <1>3, MessageOK
<1> QED
  BY <1>4 DEF NewMessage, cols, n

\* a TensorBufferMessage
LEMMA BufferMessageOK ==
  ASSUME NEW b \in Buffers
  PROVE  Message(FALSE, b.cols, b.count) \in Messages
<1>1. b.cols \in Seq(Nat) /\ b.count \in Nat /\ Len(b.cols) = Width
  BY DEF Buffers
<1>2. Len(b.cols) \in 1..Width
  BY <1>1, Sizes
<1> QED
  BY <1>1, <1>2, MessageOK

\* shift_left_add: the columns move to the left.
LEMMA ShiftedOK ==
  ASSUME NEW cols \in Seq(Nat), Len(cols) = Width, NEW new \in Seq(Nat), Len(new) \in 1..Width
  PROVE  /\ Shifted(cols, new) \in Seq(Nat) /\ Len(Shifted(cols, new)) = Width
         /\ \A i \in 1..Width : Shifted(cols, new)[i] =
              IF i <= Width - Len(new) THEN cols[Len(new) + i] ELSE new[i - (Width - Len(new))]
<1> DEFINE first == Len(new) + 1
           rest == SubSeq(cols, first, Width)
           k == Width - Len(new)
<1>1. Width \in Nat /\ first \in Int /\ Width \in Int /\ k \in Nat /\ Len(new) \in Nat
  BY Sizes, LenProperties
<1>2. \A i \in first..Width : cols[i] \in Nat
  <2> TAKE i \in first..Width
  <2>1. i \in 1..Len(cols)
    BY <1>1
  <2> QED
    BY <2>1, ElementOfSeq
<1>3. /\ rest \in Seq(Nat)
      /\ Len(rest) = IF first <= Width THEN Width - first + 1 ELSE 0
      /\ \A i \in 1..Width - first + 1 : rest[i] = cols[first + i - 1]
  <2> HIDE DEF first
  <2> QED
    BY <1>1, <1>2, SubSeqProperties
<1>4. Len(rest) = k /\ \A i \in 1..k : rest[i] = cols[Len(new) + i]
  <2>1. Width - first + 1 = k /\ \A i \in 1..k : first + i - 1 = Len(new) + i
    BY <1>1
  <2>2. Len(rest) = k
    BY <1>1, <1>3
  <2> HIDE DEF rest, k, first
  <2> QED
    BY <1>3, <2>1, <2>2
<1> HIDE DEF rest
<1>5. /\ rest \o new \in Seq(Nat) /\ Len(rest \o new) = k + Len(new)
      /\ \A i \in 1..(k + Len(new)) :
           (rest \o new)[i] = IF i <= k THEN rest[i] ELSE new[i - k]
  <2>1. rest \in Seq(Nat) /\ Len(rest) = k
    BY <1>3, <1>4
  <2> HIDE DEF k
  <2> QED
    BY <2>1, ConcatProperties
<1>6. k + Len(new) = Width
  BY <1>1
<1>7. \A i \in 1..Width : i <= k => i \in 1..k
  BY <1>1
<1> HIDE DEF k
<1>8. /\ rest \o new \in Seq(Nat) /\ Len(rest \o new) = Width
      /\ \A i \in 1..Width :
           (rest \o new)[i] = IF i <= k THEN cols[Len(new) + i] ELSE new[i - k]
  BY <1>4, <1>5, <1>6, <1>7
<1>9. Shifted(cols, new) = rest \o new
  BY DEF Shifted, rest
<1> QED
  BY <1>8, <1>9 DEF k

LEMMA ChoppedOK ==
  ASSUME NEW cols \in Seq(Nat), Len(cols) = Width
  PROVE  /\ Chopped(cols) \in Seq(Nat) /\ Len(Chopped(cols)) = Width
         /\ \A i \in 1..Width :
              Chopped(cols)[i] = IF i <= ChopLength THEN Filler ELSE cols[i]
<1>1. Width \in Nat /\ \A i \in 1..Width : cols[i] \in Nat
  BY Sizes, ElementOfSeq
<1>2. Chopped(cols) \in [1..Width -> Nat]
  BY <1>1 DEF Chopped, Filler
<1>3. Chopped(cols) \in Seq(Nat)
  BY <1>1, <1>2, SeqDef
<1>4. 1..Len(Chopped(cols)) = 1..Width /\ Len(Chopped(cols)) \in Nat
  BY <1>2, <1>3, LenProperties
<1>5. Len(Chopped(cols)) = Width
  BY <1>1, <1>4
<1> QED
  BY <1>3, <1>5 DEF Chopped

LEMMA UpdatedOK ==
  ASSUME NEW kind, NEW was \in MemoryOf(kind), NEW how, NEW m \in Messages,
         \/ kind = "every" /\ how \in {"test", "count", "wrap"}
         \/ kind = "last" /\ how = "remember"
         \/ kind = "buffer" /\ how \in {"add", "send", "chop"}
  PROVE  Updated(was, how, m) \in MemoryOf(kind)
<1>1. CASE kind = "every"
  BY <1>1 DEF Updated, MemoryOf, Wrapped
<1>2. CASE kind = "last"
  BY <1>2 DEF Updated, MemoryOf
<1>3. CASE kind = "buffer"
  <2>1. was \in Buffers /\ MemoryOf(kind) = Buffers
    BY <1>3 DEF MemoryOf
  <2>2. was.cols \in Seq(Nat) /\ was.count \in Nat /\ Len(was.cols) = Width
    BY <2>1 DEF Buffers
  <2>3. m.cols \in Seq(Nat) /\ Len(m.cols) \in 1..Width /\ Len(m.cols) \in Nat
    BY Sizes DEF Messages
  <2>4. CASE how = "add"
    <3>1. Updated(was, how, m) = [cols |-> Shifted(was.cols, m.cols),
                                  count |-> was.count + Len(m.cols)]
      BY <2>4 DEF Updated
    <3>2. was.count + Len(m.cols) \in Nat
      BY <2>2, <2>3
    <3>3. Shifted(was.cols, m.cols) \in Seq(Nat) /\ Len(Shifted(was.cols, m.cols)) = Width
      BY <2>2, <2>3, ShiftedOK
    <3> QED
      BY <2>1, <3>1, <3>2, <3>3 DEF Buffers
  <2>5. CASE how = "chop"
    <3>1. Updated(was, how, m) = [was EXCEPT !.cols = Chopped(@)]
      BY <2>5 DEF Updated
    <3>2. Chopped(was.cols) \in Seq(Nat) /\ Len(Chopped(was.cols)) = Width
      BY <2>2, ChoppedOK
    <3> QED
      BY <2>1, <3>1, <3>2 DEF Buffers
  <2>6. CASE how = "send"
    BY <2>1, <2>6 DEF Updated
  <2> QED
    BY <1>3, <2>4, <2>5, <2>6
<1> QED
  BY <1>1, <1>2, <1>3

-----------------------------------------------------------------------------
(* The window of a buffer.                                                 *)

\* b holds the end of all that came, save what was chopped.
Window(b, all) ==
  /\ b.count = Len(all)
  /\ \A i \in 1..Width : LET j == Len(all) - Width + i IN
       b.cols[i] = Filler \/ (j \in 1..Len(all) /\ b.cols[i] = all[j])
  /\ Len(all) > 0 => b.cols[Width] = all[Len(all)]

LEMMA AddKeepsWindow ==
  ASSUME NEW b \in Buffers, NEW all \in Seq(Nat), Window(b, all),
         NEW new \in Seq(Nat), Len(new) \in 1..Width
  PROVE  Window([cols |-> Shifted(b.cols, new), count |-> b.count + Len(new)], all \o new)
<1> DEFINE cols == Shifted(b.cols, new)
           more == all \o new
           L == Len(new)
           N == Len(all)
<1>1. Width \in Nat \ {0} /\ L \in Nat /\ N \in Nat /\ L >= 1 /\ L <= Width
  BY Sizes, LenProperties
<1>2. b.cols \in Seq(Nat) /\ Len(b.cols) = Width
  BY DEF Buffers
<1>3. \A i \in 1..Width : cols[i] = IF i <= Width - L THEN b.cols[L + i] ELSE new[i - (Width - L)]
  BY <1>2, ShiftedOK
<1>4. Len(more) = N + L /\ \A i \in 1..(N + L) : more[i] = IF i <= N THEN all[i] ELSE new[i - N]
  BY ConcatProperties
<1>5. b.count + L = Len(more)
  BY <1>4 DEF Window
<1> HIDE DEF cols, more
<1>6. ASSUME NEW i \in 1..Width
      PROVE  LET j == Len(more) - Width + i IN
               cols[i] = Filler \/ (j \in 1..Len(more) /\ cols[i] = more[j])
  <2>1. CASE i <= Width - L
    <3> DEFINE k == L + i
               j == N - Width + k
    <3>1. k \in 1..Width /\ cols[i] = b.cols[k]
      BY <1>1, <1>3, <2>1
    <3>2. b.cols[k] = Filler \/ (j \in 1..N /\ b.cols[k] = all[j])
      BY <3>1 DEF Window
    <3>3. Len(more) - Width + i = j
      BY <1>1, <1>4
    <3>4. j \in 1..N => j \in 1..(N + L) /\ j <= N
      BY <1>1
    <3> HIDE DEF j, k
    <3> QED
      BY <1>4, <3>1, <3>2, <3>3, <3>4
  <2>2. CASE ~(i <= Width - L)
    <3> DEFINE j == Len(more) - Width + i
    <3>1. cols[i] = new[i - (Width - L)]
      BY <1>3, <2>2
    <3>2. j \in 1..(N + L) /\ ~(j <= N) /\ j - N = i - (Width - L)
      BY <1>1, <1>4, <2>2
    <3> HIDE DEF j
    <3>3. more[j] = new[i - (Width - L)] /\ j \in 1..Len(more)
      BY <1>4, <3>2
    <3> QED
      BY <3>1, <3>3 DEF j
  <2> QED
    BY <2>1, <2>2
<1>7. cols[Width] = more[Len(more)]
  <2>1. Width \in 1..Width /\ ~(Width <= Width - L) /\ Width - (Width - L) = L
        /\ N + L \in 1..(N + L) /\ ~(N + L <= N) /\ (N + L) - N = L
    BY <1>1
  <2> HIDE DEF N, L
  <2>2. cols[Width] = new[L]
    BY <1>3, <2>1
  <2>3. more[N + L] = new[L]
    BY <1>4, <2>1
  <2> QED
    BY <1>4, <2>2, <2>3
<1> QED
  BY <1>5, <1>6, <1>7 DEF Window, cols, more

LEMMA ChopKeepsWindow ==
  ASSUME NEW b \in Buffers, NEW all \in Seq(Nat), Window(b, all)
  PROVE  Window([b EXCEPT !.cols = Chopped(@)], all)
<1>1. Width \in Nat \ {0} /\ ChopLength \in 0..(Width - 1)
  BY Sizes
<1>2. \A i \in 1..Width : Chopped(b.cols)[i] = IF i <= ChopLength THEN Filler ELSE b.cols[i]
  BY ChoppedOK DEF Buffers
<1>3. Chopped(b.cols)[Width] = b.cols[Width]
  BY <1>1, <1>2
<1> DEFINE c == [b EXCEPT !.cols = Chopped(@)]
<1>4. c.cols = Chopped(b.cols) /\ c.count = b.count
  BY DEF Buffers
<1> HIDE DEF c
<1>5. Window(c, all)
  BY <1>2, <1>3, <1>4 DEF Window
<1> QED
  BY <1>5 DEF c

-----------------------------------------------------------------------------
(* Types.                                                                  *)

LEMMA WordsAreStatements ==
  ASSUME NEW n \in Nodes, NEW m \in Messages
  PROVE  /\ SignalWordsOf(n, m) \subseteq Statement
         /\ ReceiptWordsOf(n, m) \subseteq Statement
<1>1. \A o \in Range(Observers[n]) : o \in Nodes
  <2>1. Observers[n] \in Seq(Nodes)
    BY LibraryNodesAssumption
  <2> QED
    BY <2>1, LenProperties, ElementOfSeq DEF Range
<1>2. \A o \in Range(Observers[n]) : Receive(o, m) \in Statement
  BY <1>1, StatementsOf
<1>3. /\ Lock(ObserversMutex(n)) \in Statement /\ Unlock(ObserversMutex(n)) \in Statement
      /\ Lock(OwnMutex(n)) \in Statement /\ Unlock(OwnMutex(n)) \in Statement
  BY MutexesOf, OtherStatements
<1>4. SignalWordsOf(n, m) \subseteq Statement
  BY <1>2, <1>3 DEF SignalWordsOf
<1>5. UpdateWordsOf(n, m) \subseteq Statement
  <2>1. CASE Kind[n] = "every"
    BY <2>1, StatementsOf DEF UpdateWordsOf
  <2>2. CASE Kind[n] = "last"
    BY <2>2, StatementsOf DEF UpdateWordsOf
  <2>3. CASE Kind[n] = "buffer"
    BY <2>3, StatementsOf DEF UpdateWordsOf
  <2> QED
    BY <2>1, <2>2, <2>3 DEF UpdateWordsOf
<1>6. FromPython(m) \in Messages
  BY FromPythonOK
<1>7. Signal(n, m) \in Statement /\ Signal(n, FromPython(m)) \in Statement
      /\ Release(FromPython(m)) \in Statement
  BY <1>6, StatementsOf
<1>8. ReceiptWordsOf(n, m) \subseteq Statement
  BY <1>3, <1>5, <1>7, OtherStatements DEF ReceiptWordsOf
<1> QED
  BY <1>4, <1>8

LEMMA AfterUpdateOK ==
  ASSUME NEW n \in Nodes, NEW was \in MemoryOf(Kind[n]), NEW how, NEW m \in Messages,
         \/ Kind[n] = "every" /\ how \in {"test", "count", "wrap"}
         \/ Kind[n] = "last" /\ how = "remember"
         \/ Kind[n] = "buffer" /\ how \in {"add", "send", "chop"}
  PROVE  AfterUpdate(n, was, how, m) \in Program
<1>1. <<>> \in Program /\ \A s \in Statement : <<s>> \in Program
  BY ShortPrograms, OtherStatements DEF Program
<1>2. CASE Kind[n] = "every"
  BY <1>1, <1>2, AfterPrograms, StatementsOf
<1>3. CASE Kind[n] = "last"
  <2>1. was \in Messages \cup {None}
    BY <1>3 DEF MemoryOf
  <2>2. CASE was = None
    BY <1>1, <1>3, <2>2, AfterPrograms
  <2>3. CASE was # None
    <3>1. Release(was) \in Statement
      BY <2>1, <2>3, StatementsOf
    <3>2. <<Release(was)>> \in Program
      BY <1>1, <3>1
    <3>3. how = "remember"
      BY <1>3
    <3>4. AfterUpdate(n, was, how, m) = <<Release(was)>>
      BY <2>3, <3>3 DEF AfterUpdate
    <3> QED
      BY <3>2, <3>4
  <2> QED
    BY <2>2, <2>3
<1>4. CASE Kind[n] = "buffer"
  <2>1. was \in Buffers
    BY <1>4 DEF MemoryOf
  <2>2. Message(FALSE, was.cols, was.count) \in Messages
    BY <2>1, BufferMessageOK
  <2>3. Signal(n, Message(FALSE, was.cols, was.count)) \in Statement
    BY <2>2, StatementsOf
  <2>4. <<Signal(n, Message(FALSE, was.cols, was.count))>> \in Program
    BY <1>1, <2>3
  <2>5. CASE how = "send"
    <3>1. AfterUpdate(n, was, how, m) = <<Signal(n, Message(FALSE, was.cols, was.count))>>
      BY <2>5, AfterPrograms
    <3> QED
      BY <2>4, <3>1
  <2>6. CASE how \in {"add", "chop"}
    BY <1>1, <2>6, AfterPrograms
  <2> QED
    BY <1>4, <2>5, <2>6
<1> QED
  BY <1>2, <1>3, <1>4

LEMMA BindingOK ==
  ASSUME NEW c \in Calls, NEW m \in Messages
  PROVE  Binding(c[1], c[2], m) \in Program
<1> DEFINE call == c[1]
           n == c[2]
<1>1. call \in CallNames /\ n \in Nodes /\ (call = "chop" => Kind[n] = "buffer")
  BY CallsOf
<1> HIDE DEF call, n
<1>2. /\ Lock(ObserversMutex(n)) \in Statement /\ Unlock(ObserversMutex(n)) \in Statement
      /\ Lock(OwnMutex(n)) \in Statement /\ Unlock(OwnMutex(n)) \in Statement
      /\ GiveGil \in Statement /\ TakeGil \in Statement
  BY <1>1, MutexesOf, OtherStatements
<1>3. /\ Signal(n, FromPython(m)) \in Statement /\ Receive(n, FromPython(m)) \in Statement
      /\ Start(n) \in Statement /\ RequestStop(n) \in Statement
      /\ Join(n) \in Statement
  BY <1>1, FromPythonOK, StatementsOf
<1>4. call = "chop" => Update(n, "chop", m) \in Statement
  BY <1>1, StatementsOf
<1>5. BindingWordsOf(call, n, m) \subseteq Statement
  BY <1>1, <1>2, <1>3, <1>4 DEF BindingWordsOf, CallNames, Sends
<1>6. Binding(call, n, m) \in Seq(BindingWordsOf(call, n, m))
  BY <1>1, BindingPrograms
<1>7. Binding(call, n, m) \in Program
  BY <1>5, <1>6, SmallerPrograms DEF Program
<1> QED
  BY <1>7 DEF call, n

LEMMA SplicedProgram ==
  ASSUME NEW S, NEW q \in Seq(S), q # <<>>, NEW program \in Seq(S)
  PROVE  LET r == program \o Tail(q)
             k == Len(program)
         IN  /\ r \in Seq(S) /\ k \in Nat /\ Len(q) \in Nat /\ Len(q) >= 1
             /\ Head(q) = q[1] /\ q[1] \in S
             /\ Len(r) = k + Len(q) - 1
             /\ \A i \in 1..Len(r) : r[i] = IF i <= k THEN program[i] ELSE q[i - k + 1]
<1> DEFINE rest == Tail(q)
           k == Len(program)
           r == program \o rest
<1>1. Len(q) \in Nat /\ Len(q) >= 1 /\ k \in Nat
  BY EmptySeq, LenProperties
<1>2. Head(q) = q[1] /\ q[1] \in S
  BY <1>1, HeadTailProperties, ElementOfSeq
<1>3. rest \in Seq(S) /\ Len(rest) = Len(q) - 1 /\ \A i \in 1..Len(rest) : rest[i] = q[i + 1]
  BY <1>1, HeadTailProperties
<1> HIDE DEF rest
<1>4. /\ r \in Seq(S) /\ Len(r) = k + Len(rest)
      /\ \A i \in 1..(k + Len(rest)) : r[i] = IF i <= k THEN program[i] ELSE rest[i - k]
  BY <1>3, ConcatProperties
<1>5. Len(r) = k + Len(q) - 1
  BY <1>1, <1>3, <1>4
<1>6. ASSUME NEW i \in 1..Len(r)
      PROVE  r[i] = IF i <= k THEN program[i] ELSE q[i - k + 1]
  <2> HIDE DEF r, k
  <2>1. i <= k \/ i - k \in 1..Len(rest)
    BY <1>1, <1>3, <1>4
  <2> QED
    BY <1>1, <1>3, <1>4, <2>1
<1> QED
  BY <1>1, <1>2, <1>4, <1>5, <1>6 DEF rest

LEMMA ContinueTyped ==
  ASSUME TypeInv, NEW t \in Threads, todo[t] # <<>>, NEW program \in Program, Continue(t, program)
  PROVE  /\ todo' \in [Threads -> Program]
         /\ todo'[t] = program \o Tail(todo[t])
         /\ \A s \in Threads \ {t} : todo'[s] = todo[s]
<1>1. todo[t] \in Program /\ todo \in [Threads -> Program]
  BY DEF TypeInv
<1>2. program \o Tail(todo[t]) \in Program
  BY <1>1, SplicedProgram DEF Program
<1> QED
  BY <1>1, <1>2 DEF Continue

\* the statement that t executes
LEMMA FirstStatement ==
  ASSUME TypeInv, NEW t \in Threads, NEW what, At(t, what)
  PROVE  /\ todo[t] # <<>> /\ todo[t] \in Program
         /\ Head(todo[t]) = todo[t][1] /\ todo[t][1] \in Statement /\ todo[t][1][1] = what
         /\ \A i : Arg(t, i) = todo[t][1][i]
<1>1. todo[t] # <<>> /\ todo[t] \in Seq(Statement) /\ Head(todo[t])[1] = what
  BY DEF At, TypeInv, Program
<1>2. Head(todo[t]) = todo[t][1] /\ todo[t][1] \in Statement
  BY <1>1, SplicedProgram
<1> QED
  BY <1>1, <1>2 DEF Arg, Program

LEMMA InitTyped == Init => TypeInv
<1> SUFFICES ASSUME Init PROVE TypeInv
  OBVIOUS
<1>1. <<>> \in Program /\ <<>> \in Seq(Nat)
  BY EmptySeq DEF Program
<1>2. \A n \in Nodes : InitialMemory(n) \in MemoryOf(Kind[n])
  <2> TAKE n \in Nodes
  <2>1. [i \in 1..Width |-> Filler] \in Seq(Nat) /\ Len([i \in 1..Width |-> Filler]) = Width
    BY Sizes DEF Filler
  <2>2. [cols |-> [i \in 1..Width |-> Filler], count |-> 0] \in Buffers
    BY <2>1 DEF Buffers
  <2> HIDE DEF Buffers
  <2> QED
    BY <2>2 DEF InitialMemory, MemoryOf
<1> QED
  BY <1>1, <1>2 DEF Init, TypeInv

\* A step that only goes on, or changes what is not typed, keeps the types.
LEMMA PlainStepTyped ==
  ASSUME TypeInv, NEW t \in Threads, todo[t] # <<>>, NEW program \in Program,
         Continue(t, program), UNCHANGED <<owner, memory, made, history>>
  PROVE  TypeInv'
<1>1. todo' \in [Threads -> Program]
  BY ContinueTyped
<1> QED
  BY <1>1 DEF TypeInv, history

LEMMA PlainPrograms ==
  /\ <<>> \in Program
  /\ <<GiveGil, TakeGil>> \in Program
  /\ \A t, m : Deleter(t, m) \in Program
<1>1. <<>> \in Program /\ <<GiveGil, TakeGil>> \in Program
  BY OtherStatements, ShortPrograms DEF Program
<1>2. \A holds : WithGil(holds, <<>>) \in Program
  BY <1>1, OtherStatements, GilProgram DEF Program
<1> QED
  BY <1>1, <1>2 DEF Deleter

\* The statements that do not call a node, update one or lock a mutex.
LEMMA PlainSteps ==
  ASSUME NEW t \in Threads,
         AcquireGil(t) \/ ReleaseGil(t) \/ Python(t) \/ ReleaseMessage(t)
           \/ StartThread(t) \/ AskToStop(t) \/ JoinThread(t)
  PROVE  /\ \E what, program :
              /\ program \in Seq({TakeGil, GiveGil})
              /\ At(t, what) /\ what \notin {"lock", "unlock", "signal", "receive", "update"}
              /\ Continue(t, program) /\ program \in Program
              /\ what = "give gil" => Len(program) = 0
         /\ UNCHANGED <<owner, memory, history>>
<1> DEFINE S == {TakeGil, GiveGil}
<1>1. PICK what : /\ At(t, what)
                  /\ what \notin {"lock", "unlock", "signal", "receive", "update"}
                  /\ ReleaseGil(t) \/ what # "give gil"
  <2>1. /\ AcquireGil(t) => At(t, "take gil")
        /\ ReleaseGil(t) => At(t, "give gil")
        /\ Python(t) => At(t, "python")
        /\ ReleaseMessage(t) => At(t, "release")
        /\ StartThread(t) => At(t, "start")
        /\ AskToStop(t) => At(t, "request stop")
        /\ JoinThread(t) => At(t, "join")
    BY DEF AcquireGil, ReleaseGil, Python, ReleaseMessage, StartThread, AskToStop, JoinThread
  <2>2. CASE ReleaseGil(t)
    <3>1. At(t, "give gil")
      BY <2>1, <2>2
    <3> QED
      BY <2>2, <3>1
  <2>3. CASE ~ReleaseGil(t)
    <3>1. PICK what \in {"take gil", "python", "release", "start", "request stop", "join"} :
            At(t, what)
      BY <2>1, <2>3
    <3> QED
      BY <3>1
  <2> QED
    BY <2>2, <2>3
<1>2. /\ <<>> \in Seq(S) /\ Len(<<>>) = 0
      /\ <<GiveGil, TakeGil>> \in Seq(S)
      /\ \A m : Deleter(t, m) \in Seq(S)
  <2>1. TakeGil \in S /\ GiveGil \in S
    OBVIOUS
  <2> HIDE DEF S
  <2>2. <<>> \in Seq(S) /\ Len(<<>>) = 0 /\ <<GiveGil, TakeGil>> \in Seq(S)
    BY <2>1, ShortPrograms
  <2>3. \A holds : WithGil(holds, <<>>) \in Seq(S)
    BY <2>1, <2>2, GilProgram
  <2> QED
    BY <2>2, <2>3 DEF Deleter
<1>3. PICK program \in Seq(S) : /\ Continue(t, program)
                                /\ ReleaseGil(t) => Len(program) = 0
  <2> HIDE DEF S
  <2>1. CASE ReleaseGil(t)
    BY <1>2, <2>1 DEF ReleaseGil
  <2>2. CASE ~ReleaseGil(t)
    BY <1>2, <2>2 DEF AcquireGil, Python, ReleaseMessage, StartThread, AskToStop, JoinThread
  <2> QED
    BY <2>1, <2>2
<1>4. UNCHANGED <<owner, memory, history>>
  BY DEF AcquireGil, ReleaseGil, Python, ReleaseMessage, StartThread, AskToStop, JoinThread, locks
<1>5. program \in Program
  <2>1. S \subseteq Statement
    BY OtherStatements
  <2> QED
    BY <2>1, SmallerPrograms DEF Program
<1>6. what = "give gil" => Len(program) = 0
  BY <1>1, <1>3
<1> QED
  BY <1>1, <1>3, <1>4, <1>5, <1>6 DEF S

LEMMA ExecuteTyped ==
  ASSUME TypeInv, NEW t \in Threads, Execute(t)
  PROVE  TypeInv'
<1>1. CASE LockMutex(t)
  <2>1. At(t, "lock") /\ Continue(t, <<>>)
    BY <1>1 DEF LockMutex
  <2>2. Arg(t, 2) \in Mutexes
    BY <2>1, FirstStatement, StatementSays
  <2>3. owner' \in [Mutexes -> Threads \cup {None}]
    BY <1>1, <2>2 DEF LockMutex, TypeInv
  <2>4. todo' \in [Threads -> Program]
    BY <2>1, FirstStatement, ContinueTyped, PlainPrograms
  <2> QED
    BY <1>1, <2>3, <2>4 DEF LockMutex, TypeInv, history
<1>2. CASE UnlockMutex(t)
  <2>1. At(t, "unlock") /\ Continue(t, <<>>)
    BY <1>2 DEF UnlockMutex
  <2>2. Arg(t, 2) \in Mutexes
    BY <2>1, FirstStatement, StatementSays
  <2>3. owner' \in [Mutexes -> Threads \cup {None}]
    BY <1>2, <2>2 DEF UnlockMutex, TypeInv
  <2>4. todo' \in [Threads -> Program]
    BY <2>1, FirstStatement, ContinueTyped, PlainPrograms
  <2> QED
    BY <1>2, <2>3, <2>4 DEF UnlockMutex, TypeInv, history
<1>3. CASE AcquireGil(t) \/ ReleaseGil(t) \/ Python(t) \/ ReleaseMessage(t)
           \/ StartThread(t) \/ AskToStop(t) \/ JoinThread(t)
  <2>1. PICK what : At(t, what)
    BY <1>3 DEF AcquireGil, ReleaseGil, Python, ReleaseMessage, StartThread, AskToStop, JoinThread
  <2>2. PICK program \in Program : Continue(t, program)
    BY <1>3, PlainPrograms
    DEF AcquireGil, ReleaseGil, Python, ReleaseMessage, StartThread, AskToStop, JoinThread
  <2>3. UNCHANGED <<owner, memory, made, history>>
    BY <1>3 DEF AcquireGil, ReleaseGil, Python, ReleaseMessage, StartThread, AskToStop, JoinThread,
                locks
  <2> QED
    BY <2>1, <2>2, <2>3, FirstStatement, PlainStepTyped
<1>4. CASE SignalMessage(t)
  <2>1. At(t, "signal")
    BY <1>4 DEF SignalMessage
  <2>2. PICK n, m, held : n = Arg(t, 2) /\ m = Arg(t, 3) /\ held = Held(t)
    OBVIOUS
  <2>3. n \in Nodes /\ m \in Messages
    BY <2>1, <2>2, FirstStatement, StatementSays
  <2>4. SignalBody(held, n, m) \in Program
    BY <2>3, SignalProgram, WordsAreStatements, SmallerPrograms DEF Program
  <2>5. Continue(t, SignalBody(held, n, m))
    BY <1>4, <2>2 DEF SignalMessage
  <2>6. todo' \in [Threads -> Program]
    BY <2>1, <2>4, <2>5, FirstStatement, ContinueTyped
  <2>7. passed' \in [Nodes -> Nat]
    BY <1>4, <2>2, <2>3 DEF SignalMessage, TypeInv
  <2> QED
    BY <1>4, <2>6, <2>7 DEF SignalMessage, TypeInv, locks
<1>5. CASE ReceiveMessage(t)
  <2>1. At(t, "receive")
    BY <1>5 DEF ReceiveMessage
  <2>2. PICK n, m, held, holds :
          n = Arg(t, 2) /\ m = Arg(t, 3) /\ held = Held(t) /\ holds = (gil = t)
    OBVIOUS
  <2>3. n \in Nodes /\ m \in Messages
    BY <2>1, <2>2, FirstStatement, StatementSays
  <2>4. Receipts(held, holds, n, m) \subseteq Program
    BY <2>3, ReceiptPrograms, WordsAreStatements, SmallerPrograms DEF Program
  <2>5. \E program \in Receipts(held, holds, n, m) : Continue(t, program)
    BY <1>5, <2>2 DEF ReceiveMessage
  <2>6. todo' \in [Threads -> Program]
    BY <2>1, <2>4, <2>5, FirstStatement, ContinueTyped
  <2>7. heard' \in [Nodes -> Nat]
    BY <1>5, <2>2, <2>3 DEF ReceiveMessage, TypeInv
  <2> QED
    BY <1>5, <2>6, <2>7 DEF ReceiveMessage, TypeInv, locks
<1>6. CASE UpdateMemory(t)
  <2>1. At(t, "update")
    BY <1>6 DEF UpdateMemory
  <2>2. PICK n, how, m : n = Arg(t, 2) /\ how = Arg(t, 3) /\ m = Arg(t, 4)
    OBVIOUS
  <2>3. /\ n \in Nodes /\ m \in Messages
        /\ \/ Kind[n] = "every" /\ how \in {"test", "count", "wrap"}
           \/ Kind[n] = "last" /\ how = "remember"
           \/ Kind[n] = "buffer" /\ how \in {"add", "send", "chop"}
    BY <2>1, <2>2, FirstStatement, StatementSays
  <2>4. PICK was : was = memory[n]
    OBVIOUS
  <2>5. was \in MemoryOf(Kind[n])
    BY <2>3, <2>4 DEF TypeInv
  <2>6. AfterUpdate(n, was, how, m) \in Program
    BY <2>3, <2>5, AfterUpdateOK
  <2>7. Continue(t, AfterUpdate(n, was, how, m))
    BY <1>6, <2>2, <2>4 DEF UpdateMemory
  <2>8. todo' \in [Threads -> Program]
    BY <2>1, <2>6, <2>7, FirstStatement, ContinueTyped
  <2>9. memory' = [memory EXCEPT ![n] = Updated(was, how, m)]
    BY <1>6, <2>2, <2>4 DEF UpdateMemory
  <2>10. Updated(was, how, m) \in MemoryOf(Kind[n])
    BY <2>3, <2>5, UpdatedOK
  <2>11. DOMAIN memory' = Nodes /\ \A k \in Nodes : memory'[k] \in MemoryOf(Kind[k])
    BY <2>3, <2>9, <2>10 DEF TypeInv
  <2>12. columns' \in [Nodes -> Seq(Nat)]
    <3>1. columns' = IF how = "add" THEN [columns EXCEPT ![n] = @ \o m.cols] ELSE columns
      BY <1>6, <2>2 DEF UpdateMemory
    <3>2. columns[n] \in Seq(Nat) /\ m.cols \in Seq(Nat)
      BY <2>3 DEF TypeInv, Messages
    <3>3. columns[n] \o m.cols \in Seq(Nat)
      BY <3>2, ConcatProperties
    <3> QED
      BY <2>3, <3>1, <3>3 DEF TypeInv
  <2> QED
    BY <1>6, <2>8, <2>11, <2>12 DEF UpdateMemory, TypeInv, locks
<1> QED
  BY <1>1, <1>2, <1>3, <1>4, <1>5, <1>6 DEF Execute

LEMMA NextTyped == TypeInv /\ [Next]_vars => TypeInv'
<1> SUFFICES ASSUME TypeInv, [Next]_vars PROVE TypeInv'
  OBVIOUS
<1>1. CASE \E t \in Threads : Execute(t)
  BY <1>1, ExecuteTyped
<1>2. ASSUME NEW n \in Runnable, Trigger(n) PROVE TypeInv'
  <2>1. made' = made + 1 /\ made' \in Nat
    BY <1>2 DEF Trigger, TypeInv
  <2>2. PICK k \in Nat : k = made'
    BY <2>1
  <2>3. NewMessage(k) \in Messages /\ n \in Nodes
    BY NewMessageOK, InterpreterAssumption
  <2>4. Signal(n, NewMessage(k)) \in Statement
    BY <2>3, StatementsOf
  <2>5. <<Signal(n, NewMessage(k))>> \in Program
    BY <2>4, ShortPrograms DEF Program
  <2>6. todo' = [todo EXCEPT ![n] = <<Signal(n, NewMessage(k))>>]
    BY <1>2, <2>2 DEF Trigger
  <2>7. todo' \in [Threads -> Program]
    BY <2>5, <2>6 DEF TypeInv
  <2> QED
    BY <1>2, <2>1, <2>7 DEF Trigger, TypeInv, locks, history
<1>3. ASSUME NEW n \in Runnable, LoopEnds(n) PROVE TypeInv'
  BY <1>3 DEF LoopEnds, TypeInv, locks, history
<1>4. CASE Call
  <2>1. PICK c \in Calls :
          /\ made' = IF c[1] \in Sends THEN made + 1 ELSE made
          /\ todo' = [todo EXCEPT ![Main] = Binding(c[1], c[2], NewMessage(made'))]
    BY <1>4 DEF Call
  <2>2. made' \in Nat
    BY <2>1 DEF TypeInv
  <2>3. PICK k \in Nat : k = made'
    BY <2>2
  <2>4. Binding(c[1], c[2], NewMessage(k)) \in Program
    BY NewMessageOK, BindingOK
  <2>5. todo' \in [Threads -> Program]
    BY <2>1, <2>3, <2>4 DEF TypeInv
  <2> QED
    BY <1>4, <2>2, <2>5 DEF Call, TypeInv, locks, history
<1>5. CASE Pause
  <2>1. <<RunPython>> \in Program
    BY OtherStatements, ShortPrograms DEF Program
  <2>2. todo' \in [Threads -> Program]
    BY <1>5, <2>1 DEF Pause, TypeInv
  <2> QED
    BY <1>5, <2>2 DEF Pause, TypeInv, locks, history
<1>6. CASE UNCHANGED vars
  BY <1>6 DEF vars, locks, history, TypeInv
<1> QED
  BY <1>1, <1>2, <1>3, <1>4, <1>5, <1>6 DEF Next

\* Every thread executes statements of the library's nodes, and every node
\* remembers something of its class.
THEOREM TypesHold == Spec => []TypeInv
BY InitTyped, NextTyped, PTL DEF Spec

-----------------------------------------------------------------------------
(* The buffers.                                                            *)

\* The inductive invariant of WindowHolds.
WindowInv ==
  /\ TypeInv
  /\ \A n \in Nodes : Kind[n] = "buffer" => Window(memory[n], columns[n])

LEMMA InitWindow == Init => WindowInv
<1> SUFFICES ASSUME Init, NEW n \in Nodes, Kind[n] = "buffer" PROVE Window(memory[n], columns[n])
  BY InitTyped DEF WindowInv
<1>1. /\ memory[n] = [cols |-> [i \in 1..Width |-> Filler], count |-> 0]
      /\ columns[n] = <<>>
  BY DEF Init, InitialMemory
<1>2. Len(<<>>) = 0
  BY EmptySeq
<1> QED
  BY <1>1, <1>2 DEF Window

LEMMA UpdateKeepsWindow ==
  ASSUME WindowInv, NEW t \in Threads, UpdateMemory(t),
         NEW b \in Nodes, Kind[b] = "buffer"
  PROVE  Window(memory'[b], columns'[b])
<1>1. PICK n, how, m : n = Arg(t, 2) /\ how = Arg(t, 3) /\ m = Arg(t, 4)
  OBVIOUS
<1>2. TypeInv /\ At(t, "update")
  BY DEF WindowInv, UpdateMemory
<1>3. /\ n \in Nodes /\ m \in Messages
      /\ \/ Kind[n] = "every" /\ how \in {"test", "count", "wrap"}
         \/ Kind[n] = "last" /\ how = "remember"
         \/ Kind[n] = "buffer" /\ how \in {"add", "send", "chop"}
  BY <1>1, <1>2, FirstStatement, StatementSays
<1>4. PICK was, all : was = memory[b] /\ all = columns[b]
  OBVIOUS
<1>5. was \in Buffers /\ all \in Seq(Nat) /\ Window(was, all)
  BY <1>2, <1>4 DEF TypeInv, MemoryOf, WindowInv
<1>6. /\ memory' = [memory EXCEPT ![n] = Updated(memory[n], how, m)]
      /\ columns' = IF how = "add" THEN [columns EXCEPT ![n] = @ \o m.cols] ELSE columns
  BY <1>1 DEF UpdateMemory
<1>7. CASE n # b
  <2>1. memory'[b] = was /\ columns'[b] = all
    BY <1>2, <1>4, <1>6, <1>7 DEF TypeInv
  <2> QED
    BY <1>5, <2>1
<1>8. CASE n = b
  <2>1. memory'[b] = Updated(was, how, m)
    BY <1>2, <1>4, <1>6, <1>8 DEF TypeInv
  <2>2. CASE how = "add"
    <3>1. columns'[b] = all \o m.cols
      BY <1>2, <1>4, <1>6, <1>8, <2>2 DEF TypeInv
    <3>2. Updated(was, how, m) = [cols |-> Shifted(was.cols, m.cols),
                                  count |-> was.count + Len(m.cols)]
      BY <2>2 DEF Updated
    <3>3. m.cols \in Seq(Nat) /\ Len(m.cols) \in 1..Width
      BY <1>3 DEF Messages
    <3>4. Window([cols |-> Shifted(was.cols, m.cols), count |-> was.count + Len(m.cols)],
                 all \o m.cols)
      BY <1>5, <3>3, AddKeepsWindow
    <3> QED
      BY <2>1, <3>1, <3>2, <3>4
  <2>3. CASE how = "chop"
    <3>1. columns'[b] = all
      BY <1>4, <1>6, <2>3
    <3>2. Updated(was, how, m) = [was EXCEPT !.cols = Chopped(@)]
      BY <2>3 DEF Updated
    <3>3. Window([was EXCEPT !.cols = Chopped(@)], all)
      BY <1>5, ChopKeepsWindow
    <3> QED
      BY <2>1, <3>1, <3>2, <3>3
  <2>4. CASE how = "send"
    <3>1. columns'[b] = all /\ Updated(was, how, m) = was
      BY <1>4, <1>6, <2>4 DEF Updated
    <3> QED
      BY <1>5, <2>1, <3>1
  <2> QED
    BY <1>3, <1>8, <2>2, <2>3, <2>4
<1> QED
  BY <1>7, <1>8

LEMMA NextWindow == WindowInv /\ [Next]_vars => WindowInv'
<1> SUFFICES ASSUME WindowInv, [Next]_vars PROVE WindowInv'
  OBVIOUS
<1>1. TypeInv'
  BY NextTyped DEF WindowInv
<1>2. CASE \E t \in Threads : UpdateMemory(t)
  BY <1>1, <1>2, UpdateKeepsWindow DEF WindowInv
<1>3. ASSUME NEW t \in Threads, Execute(t), ~UpdateMemory(t)
      PROVE  UNCHANGED <<memory, columns>>
  BY <1>3 DEF Execute, LockMutex, UnlockMutex, AcquireGil, ReleaseGil, Python, SignalMessage,
              ReceiveMessage, ReleaseMessage, StartThread, AskToStop, JoinThread, history
<1>4. ASSUME \/ \E n \in Runnable : Trigger(n) \/ LoopEnds(n)
             \/ Call \/ Pause \/ UNCHANGED vars
      PROVE  UNCHANGED <<memory, columns>>
  BY <1>4 DEF Trigger, LoopEnds, Call, Pause, vars, history
<1>5. CASE UNCHANGED <<memory, columns>>
  BY <1>1, <1>5 DEF WindowInv
<1> QED
  BY <1>2, <1>3, <1>4, <1>5 DEF Next

LEMMA WindowIs ==
  ASSUME WindowInv
  PROVE  WindowHolds
<1> SUFFICES ASSUME NEW n \in Nodes, Kind[n] = "buffer"
             PROVE  LET all == columns[n]
                        before == Len(all) - Width
                    IN  /\ memory[n].count = Len(all)
                        /\ \A i \in 1..Width :
                             memory[n].cols[i]
                               \in {Filler} \cup {all[j] : j \in {before + i} \cap DOMAIN all}
                        /\ all # <<>> => memory[n].cols[Width] = Last(all)
  BY DEF WindowHolds
<1>1. PICK all, b : all = columns[n] /\ b = memory[n]
  OBVIOUS
<1>2. all \in Seq(Nat) /\ Window(b, all)
  BY <1>1 DEF WindowInv, TypeInv
<1>3. Len(all) \in Nat /\ DOMAIN all = 1..Len(all)
  BY <1>2, LenProperties
<1>4. all # <<>> => Len(all) > 0
  BY <1>2, <1>3, EmptySeq
<1>5. ASSUME NEW i \in 1..Width
      PROVE  b.cols[i] \in {Filler} \cup {all[j] : j \in {Len(all) - Width + i} \cap DOMAIN all}
  BY <1>2, <1>3 DEF Window
<1> QED
  BY <1>1, <1>2, <1>4, <1>5 DEF Window, Last

\* WindowHolds: a TensorRightBuffer holds the last columns that it received,
\* in their order, whichever threads brought them and however wide their
\* messages were, save those that chop overwrote; the newest is at the right
\* end, and the count is that of all that came.
THEOREM BuffersHoldTheirWindow == Spec => []WindowHolds
<1>1. Spec => []WindowInv
  BY InitWindow, NextWindow, PTL DEF Spec
<1>2. WindowInv => WindowHolds
  BY WindowIs
<1> QED
  BY <1>1, <1>2, PTL

-----------------------------------------------------------------------------
(* EveryN.  What the statements of a thread mean to the EveryN n, which    *)
(* observes p: those that lock and unlock the mutex of p's observers, and  *)
(* those that n is called with.                                            *)

Fed(n, p, depth) ==
  /\ n \in Nodes /\ Kind[n] = "every"
  /\ OnlyThrough(n, p)
  /\ LeadsDown(depth)

Role(n, p, s) ==
  IF s[1] = "lock" /\ s[2] = ObserversMutex(p) THEN "lock"
  ELSE IF s[1] = "unlock" /\ s[2] = ObserversMutex(p) THEN "unlock"
  ELSE IF s[1] \in {"signal", "receive", "update"} /\ s[2] = n THEN "touch"
  ELSE "other"

\* the statements of n's receive
Word(n, s) ==
  IF s[1] = "signal" /\ s[2] = n THEN "signal"
  ELSE IF s[1] = "update" /\ s[2] = n THEN s[3]
  ELSE "other"

\* s happens below n
Deeper(n, depth, s) ==
  /\ s[1] \in {"signal", "receive", "update"} => depth[s[2]] > depth[n]
  /\ s[1] \in {"lock", "unlock"} => depth[s[2][1]] >= depth[n]

LEMMA Depths ==
  ASSUME NEW n, NEW p, NEW depth, Fed(n, p, depth)
  PROVE  /\ n \in Nodes /\ p \in Nodes /\ n # p /\ Kind[n] = "every"
         /\ \A o \in Nodes : depth[o] \in Nat
         /\ depth[p] < depth[n]
         /\ \A o \in Nodes : \A e \in Range(Observers[o]) : e \in Nodes /\ depth[o] < depth[e]
         /\ \A o \in Nodes : n \in Range(Observers[o]) <=> o = p
<1>1. n \in Nodes /\ p \in Nodes /\ Kind[n] = "every"
      /\ \A o \in Nodes : n \in Range(Observers[o]) <=> o = p
  BY DEF Fed, OnlyThrough
<1>2. /\ \A o \in Nodes : depth[o] \in Nat
      /\ \A o \in Nodes : \A e \in Range(Observers[o]) : depth[o] < depth[e]
  BY DEF Fed, LeadsDown
<1>3. n \in Range(Observers[p])
  BY <1>1
<1>4. depth[p] < depth[n]
  BY <1>1, <1>2, <1>3
<1>5. ASSUME NEW o \in Nodes, NEW e \in Range(Observers[o])
      PROVE  e \in Nodes
  <2>1. Observers[o] \in Seq(Nodes)
    BY LibraryNodesAssumption
  <2> QED
    BY <1>5, <2>1, LenProperties, ElementOfSeq DEF Range
<1> QED
  BY <1>1, <1>2, <1>4, <1>5

LEMMA MutexNames ==
  ASSUME NEW o, NEW p
  PROVE  /\ ObserversMutex(o)[1] = o /\ OwnMutex(o)[1] = o
         /\ ObserversMutex(o) = ObserversMutex(p) <=> o = p
         /\ OwnMutex(o) # ObserversMutex(p)
BY DEF ObserversMutex, OwnMutex

\* What each statement is to n.
LEMMA CallsAre ==
  ASSUME NEW n, NEW p, NEW depth, NEW o, NEW m
  PROVE  /\ Role(n, p, Signal(o, m)) = IF o = n THEN "touch" ELSE "other"
         /\ Role(n, p, Receive(o, m)) = IF o = n THEN "touch" ELSE "other"
         /\ Word(n, Signal(o, m)) = IF o = n THEN "signal" ELSE "other"
         /\ Word(n, Receive(o, m)) = "other"
         /\ Deeper(n, depth, Signal(o, m)) <=> depth[o] > depth[n]
         /\ Deeper(n, depth, Receive(o, m)) <=> depth[o] > depth[n]
<1>1. /\ Role(n, p, Signal(o, m)) = IF o = n THEN "touch" ELSE "other"
      /\ Word(n, Signal(o, m)) = IF o = n THEN "signal" ELSE "other"
      /\ Deeper(n, depth, Signal(o, m)) <=> depth[o] > depth[n]
  <2> DEFINE s == Signal(o, m)
  <2>1. s[1] = "signal" /\ s[2] = o
    BY SignalWords
  <2> HIDE DEF s
  <2>2. /\ Role(n, p, s) = IF o = n THEN "touch" ELSE "other"
        /\ Word(n, s) = IF o = n THEN "signal" ELSE "other"
        /\ Deeper(n, depth, s) <=> depth[o] > depth[n]
    BY <2>1 DEF Role, Word, Deeper
  <2> QED
    BY <2>2 DEF s
<1>2. /\ Role(n, p, Receive(o, m)) = IF o = n THEN "touch" ELSE "other"
      /\ Word(n, Receive(o, m)) = "other"
      /\ Deeper(n, depth, Receive(o, m)) <=> depth[o] > depth[n]
  <2> DEFINE s == Receive(o, m)
  <2>1. s[1] = "receive" /\ s[2] = o
    BY SignalWords
  <2> HIDE DEF s
  <2>2. /\ Role(n, p, s) = IF o = n THEN "touch" ELSE "other"
        /\ Word(n, s) = "other"
        /\ Deeper(n, depth, s) <=> depth[o] > depth[n]
    BY <2>1 DEF Role, Word, Deeper
  <2> QED
    BY <2>2 DEF s
<1> QED
  BY <1>1, <1>2

LEMMA UpdatesAre ==
  ASSUME NEW n, NEW p, NEW depth, NEW o, NEW how, NEW m
  PROVE  /\ Role(n, p, Update(o, how, m)) = IF o = n THEN "touch" ELSE "other"
         /\ Word(n, Update(o, how, m)) = IF o = n THEN how ELSE "other"
         /\ Deeper(n, depth, Update(o, how, m)) <=> depth[o] > depth[n]
<1> DEFINE s == Update(o, how, m)
<1>1. s[1] = "update" /\ s[2] = o /\ s[3] = how
  BY UpdateWords
<1> HIDE DEF s
<1>2. /\ Role(n, p, s) = IF o = n THEN "touch" ELSE "other"
      /\ Word(n, s) = IF o = n THEN how ELSE "other"
      /\ Deeper(n, depth, s) <=> depth[o] > depth[n]
  BY <1>1 DEF Role, Word, Deeper
<1> QED
  BY <1>2 DEF s

LEMMA LocksAre ==
  ASSUME NEW n, NEW p, NEW depth, NEW x
  PROVE  /\ Role(n, p, Lock(x)) = IF x = ObserversMutex(p) THEN "lock" ELSE "other"
         /\ Role(n, p, Unlock(x)) = IF x = ObserversMutex(p) THEN "unlock" ELSE "other"
         /\ Word(n, Lock(x)) = "other" /\ Word(n, Unlock(x)) = "other"
         /\ Deeper(n, depth, Lock(x)) <=> depth[x[1]] >= depth[n]
         /\ Deeper(n, depth, Unlock(x)) <=> depth[x[1]] >= depth[n]
<1>1. /\ Role(n, p, Lock(x)) = IF x = ObserversMutex(p) THEN "lock" ELSE "other"
      /\ Word(n, Lock(x)) = "other"
      /\ Deeper(n, depth, Lock(x)) <=> depth[x[1]] >= depth[n]
  <2> DEFINE s == Lock(x)
  <2>1. s[1] = "lock" /\ s[2] = x
    BY LockWords
  <2> HIDE DEF s
  <2>2. /\ Role(n, p, s) = IF x = ObserversMutex(p) THEN "lock" ELSE "other"
        /\ Word(n, s) = "other"
        /\ Deeper(n, depth, s) <=> depth[x[1]] >= depth[n]
    BY <2>1 DEF Role, Word, Deeper
  <2> QED
    BY <2>2 DEF s
<1>2. /\ Role(n, p, Unlock(x)) = IF x = ObserversMutex(p) THEN "unlock" ELSE "other"
      /\ Word(n, Unlock(x)) = "other"
      /\ Deeper(n, depth, Unlock(x)) <=> depth[x[1]] >= depth[n]
  <2> DEFINE s == Unlock(x)
  <2>1. s[1] = "unlock" /\ s[2] = x
    BY LockWords
  <2> HIDE DEF s
  <2>2. /\ Role(n, p, s) = IF x = ObserversMutex(p) THEN "unlock" ELSE "other"
        /\ Word(n, s) = "other"
        /\ Deeper(n, depth, s) <=> depth[x[1]] >= depth[n]
    BY <2>1 DEF Role, Word, Deeper
  <2> QED
    BY <2>2 DEF s
<1> QED
  BY <1>1, <1>2

\* Other statements are nothing to n.
LEMMA OthersAre ==
  ASSUME NEW n, NEW p, NEW depth, NEW s,
         s[1] \notin {"lock", "unlock", "signal", "receive", "update"}
  PROVE  Role(n, p, s) = "other" /\ Word(n, s) = "other" /\ Deeper(n, depth, s)
BY DEF Role, Word, Deeper

\* The words that a statement beside n makes a thread execute.
LEMMA SignalWordsAre ==
  ASSUME NEW n, NEW p, NEW depth, Fed(n, p, depth), NEW o \in Nodes, NEW m,
         NEW s \in SignalWordsOf(o, m)
  PROVE  /\ Word(n, s) = "other"
         /\ o # p => Role(n, p, s) = "other"
         /\ depth[o] >= depth[n] => Deeper(n, depth, s)
<1>1. CASE s = Lock(ObserversMutex(o)) \/ s = Unlock(ObserversMutex(o))
  BY <1>1, LocksAre, MutexNames
<1>2. CASE \E e \in Range(Observers[o]) : s = Receive(e, m)
  <2>1. PICK e \in Range(Observers[o]) : s = Receive(e, m)
    BY <1>2
  <2>2. depth[o] \in Nat /\ depth[e] \in Nat /\ depth[n] \in Nat /\ depth[o] < depth[e]
    BY <2>1, Depths
  <2>3. o # p => e # n
    BY <2>1, Depths
  <2>4. depth[o] >= depth[n] => depth[e] > depth[n]
    BY <2>2
  <2> QED
    BY <2>1, <2>3, <2>4, CallsAre
<1> QED
  BY <1>1, <1>2 DEF SignalWordsOf

LEMMA ReceiptWordsAre ==
  ASSUME NEW n, NEW p, NEW depth, NEW o \in Nodes, o # n, NEW m, NEW s \in ReceiptWordsOf(o, m)
  PROVE  /\ Word(n, s) = "other" /\ Role(n, p, s) = "other"
         /\ depth[o] \in Nat /\ depth[n] \in Nat /\ depth[o] > depth[n] => Deeper(n, depth, s)
<1>1. CASE s = Lock(OwnMutex(o)) \/ s = Unlock(OwnMutex(o))
  BY <1>1, LocksAre, MutexNames
<1>2. CASE s \in {TakeGil, GiveGil, RunPython}
  BY <1>2, PlainWords, OthersAre
<1>3. CASE s = Signal(o, m) \/ s = Signal(o, FromPython(m))
  BY <1>3, CallsAre, SMTT(30)
<1>4. CASE s = Release(FromPython(m))
  BY <1>4, ReleaseWords, OthersAre
<1>5. CASE s \in UpdateWordsOf(o, m)
  <2>1. PICK how : s = Update(o, how, m)
    BY <1>5 DEF UpdateWordsOf
  <2>2. /\ Word(n, Update(o, how, m)) = "other" /\ Role(n, p, Update(o, how, m)) = "other"
        /\ depth[o] > depth[n] => Deeper(n, depth, Update(o, how, m))
    BY UpdatesAre
  <2> QED
    BY <2>1, <2>2, Zenon
<1> QED
  BY <1>1, <1>2, <1>3, <1>4, <1>5 DEF ReceiptWordsOf

-----------------------------------------------------------------------------
(* What a thread has still to execute, and how that changes by a step.     *)

\* program takes the place of the first statement of q
Spliced(q, program, r) ==
  /\ Len(q) \in Nat /\ Len(q) >= 1 /\ Len(program) \in Nat
  /\ Len(r) = Len(program) + Len(q) - 1
  /\ \A i \in 1..Len(program) : r[i] = program[i]
  /\ \A i \in 2..Len(q) : r[Len(program) + i - 1] = q[i]

LEMMA SplicedIs ==
  ASSUME NEW S, NEW q \in Seq(S), q # <<>>, NEW program \in Seq(S)
  PROVE  Spliced(q, program, program \o Tail(q))
<1> DEFINE r == program \o Tail(q)
           k == Len(program)
<1>1. /\ k \in Nat /\ Len(q) \in Nat /\ Len(q) >= 1
      /\ Len(r) = k + Len(q) - 1
      /\ \A i \in 1..Len(r) : r[i] = IF i <= k THEN program[i] ELSE q[i - k + 1]
  BY SplicedProgram
<1> HIDE DEF r, k
<1>2. ASSUME NEW i \in 1..k PROVE r[i] = program[i]
  BY <1>1, <1>2
<1>3. ASSUME NEW i \in 2..Len(q) PROVE r[k + i - 1] = q[i]
  <2>1. k + i - 1 \in 1..Len(r) /\ ~(k + i - 1 <= k) /\ (k + i - 1) - k + 1 = i
    BY <1>1
  <2> QED
    BY <1>1, <2>1
<1> QED
  BY <1>1, <1>2, <1>3 DEF Spliced, r, k

\* every statement of r is one of program or of q
LEMMA SplicedFrom ==
  ASSUME NEW q, NEW program, NEW r, Spliced(q, program, r), NEW i \in 1..Len(r)
  PROVE  \/ i \in 1..Len(program) /\ r[i] = program[i]
         \/ \E j \in 2..Len(q) : i = Len(program) + j - 1 /\ r[i] = q[j]
<1> DEFINE k == Len(program)
<1>1. CASE i <= k
  BY <1>1 DEF Spliced
<1>2. CASE ~(i <= k)
  <2> DEFINE j == i - k + 1
  <2>1. j \in 2..Len(q) /\ i = k + j - 1
    BY <1>2 DEF Spliced
  <2>2. r[k + j - 1] = q[j]
    BY <2>1 DEF Spliced
  <2> HIDE DEF j, k
  <2>3. \E x \in 2..Len(q) : i = k + x - 1 /\ r[i] = q[x]
    BY <2>1, <2>2
  <2> QED
    BY <2>3 DEF k
<1> QED
  BY <1>1, <1>2

\* A thread that has nothing to do with the mutex and n.
Free(n, p, q) == \A i \in 1..Len(q) : Role(n, p, q[i]) = "other"

\* It has locked the mutex: it calls n before it unlocks it.
Owning(n, p, q) ==
  \E u \in 1..Len(q) :
    /\ Role(n, p, q[u]) = "unlock"
    /\ \A i \in 1..Len(q) : i < u => Role(n, p, q[i]) \in {"touch", "other"}
    /\ \A i \in 1..Len(q) : i > u => Role(n, p, q[i]) = "other"

\* It is about to lock the mutex.
Asking(n, p, q) ==
  \E l \in 1..2, u \in 1..Len(q) :
    /\ l < u
    /\ l = 2 => q[1] = GiveGil
    /\ Role(n, p, q[l]) = "lock"
    /\ Role(n, p, q[u]) = "unlock"
    /\ \A i \in 1..Len(q) : l < i /\ i < u => Role(n, p, q[i]) \in {"touch", "other"}
    /\ \A i \in 1..Len(q) : i > u => Role(n, p, q[i]) = "other"

LEMMA FreeGoesOn ==
  ASSUME NEW n, NEW p, NEW q, NEW program, NEW r, Spliced(q, program, r),
         Free(n, p, q), Free(n, p, program)
  PROVE  Free(n, p, r)
<1> SUFFICES ASSUME NEW i \in 1..Len(r) PROVE Role(n, p, r[i]) = "other"
  BY DEF Free
<1>1. CASE i \in 1..Len(program) /\ r[i] = program[i]
  BY <1>1 DEF Free
<1>2. CASE \E j \in 2..Len(q) : i = Len(program) + j - 1 /\ r[i] = q[j]
  <2>1. PICK j \in 2..Len(q) : r[i] = q[j]
    BY <1>2
  <2>2. j \in 1..Len(q)
    BY <2>1 DEF Spliced
  <2> QED
    BY <2>1, <2>2 DEF Free
<1> QED
  BY <1>1, <1>2, SplicedFrom

LEMMA OwningGoesOn ==
  ASSUME NEW n, NEW p, NEW q, NEW program, NEW r, Spliced(q, program, r),
         Owning(n, p, q), Role(n, p, q[1]) # "unlock",
         \A i \in 1..Len(program) : Role(n, p, program[i]) \in {"touch", "other"}
  PROVE  Owning(n, p, r)
<1> DEFINE k == Len(program)
<1>1. PICK u \in 1..Len(q) :
        /\ Role(n, p, q[u]) = "unlock"
        /\ \A i \in 1..Len(q) : i < u => Role(n, p, q[i]) \in {"touch", "other"}
        /\ \A i \in 1..Len(q) : i > u => Role(n, p, q[i]) = "other"
  BY DEF Owning
<1>2. /\ Len(q) \in Nat /\ Len(q) >= 1 /\ k \in Nat /\ Len(r) = k + Len(q) - 1
      /\ \A i \in 2..Len(q) : r[k + i - 1] = q[i]
  BY DEF Spliced
<1>3. u # 1
  BY <1>1
<1>4. u \in 2..Len(q)
  BY <1>1, <1>2, <1>3
<1> DEFINE v == k + u - 1
<1>5. v \in 1..Len(r) /\ r[v] = q[u] /\ k < v
  BY <1>2, <1>4
<1>6. ASSUME NEW i \in 1..Len(r)
      PROVE  /\ i < v => Role(n, p, r[i]) \in {"touch", "other"}
             /\ i > v => Role(n, p, r[i]) = "other"
  <2>1. CASE i \in 1..k /\ r[i] = program[i]
    <3>1. ~(i > v)
      BY <1>2, <1>5, <2>1
    <3> QED
      BY <2>1, <3>1
  <2>2. CASE \E j \in 2..Len(q) : i = k + j - 1 /\ r[i] = q[j]
    <3>1. PICK j \in 2..Len(q) : i = k + j - 1 /\ r[i] = q[j]
      BY <2>2
    <3>2. j \in 1..Len(q) /\ (i < v => j < u) /\ (i > v => j > u)
      BY <1>2, <1>4, <3>1
    <3> QED
      BY <1>1, <3>1, <3>2
  <2> QED
    BY <2>1, <2>2, SplicedFrom
<1> HIDE DEF v
<1> QED
  BY <1>1, <1>5, <1>6 DEF Owning

LEMMA OwningEnds ==
  ASSUME NEW n, NEW p, NEW q, NEW program, NEW r, Spliced(q, program, r), Len(program) = 0,
         Owning(n, p, q), Role(n, p, q[1]) = "unlock"
  PROVE  Free(n, p, r)
<1>1. PICK u \in 1..Len(q) :
        /\ Role(n, p, q[u]) = "unlock"
        /\ \A i \in 1..Len(q) : i < u => Role(n, p, q[i]) \in {"touch", "other"}
        /\ \A i \in 1..Len(q) : i > u => Role(n, p, q[i]) = "other"
  BY DEF Owning
<1>2. Len(q) \in Nat /\ Len(q) >= 1 /\ 1 \in 1..Len(q)
  BY DEF Spliced
<1>3. u = 1
  <2>1. ~(1 < u)
    BY <1>1, <1>2
  <2> QED
    BY <1>1, <1>2, <2>1
<1> SUFFICES ASSUME NEW i \in 1..Len(r) PROVE Role(n, p, r[i]) = "other"
  BY DEF Free
<1>4. PICK j \in 2..Len(q) : r[i] = q[j]
  BY SplicedFrom
<1>5. j \in 1..Len(q) /\ j > u
  BY <1>2, <1>3, <1>4
<1> QED
  BY <1>1, <1>4, <1>5

LEMMA AskingLocks ==
  ASSUME NEW n, NEW p, NEW q, NEW program, NEW r, Spliced(q, program, r), Len(program) = 0,
         Asking(n, p, q)
  PROVE  /\ q[1] # GiveGil => Role(n, p, q[1]) = "lock"
         /\ Role(n, p, q[1]) = "lock" => Owning(n, p, r)
         /\ q[1] = GiveGil => Asking(n, p, r)
<1>1. PICK l \in 1..2, u \in 1..Len(q) :
        /\ l < u
        /\ l = 2 => q[1] = GiveGil
        /\ Role(n, p, q[l]) = "lock"
        /\ Role(n, p, q[u]) = "unlock"
        /\ \A i \in 1..Len(q) : l < i /\ i < u => Role(n, p, q[i]) \in {"touch", "other"}
        /\ \A i \in 1..Len(q) : i > u => Role(n, p, q[i]) = "other"
  BY DEF Asking
<1>2. /\ Len(q) \in Nat /\ Len(q) >= 1 /\ Len(r) = Len(q) - 1
      /\ \A i \in 2..Len(q) : r[0 + i - 1] = q[i]
  BY DEF Spliced
<1>3. \A i \in 2..Len(q) : r[i - 1] = q[i]
  BY <1>2
<1>4. Role(n, p, GiveGil) = "other"
  BY PlainWords, OthersAre
<1>5. l = 1 \/ l = 2
  BY <1>1
<1> DEFINE v == u - 1
<1>6. u \in 2..Len(q) /\ v \in 1..Len(r) /\ r[v] = q[u]
  <2>1. u \in 2..Len(q)
    BY <1>1, <1>2
  <2> QED
    BY <1>2, <1>3, <2>1
<1>7. ASSUME NEW i \in 1..Len(r)
      PROVE  /\ i + 1 \in 2..Len(q) /\ i + 1 \in 1..Len(q) /\ r[i] = q[i + 1]
             /\ i < v => i + 1 < u
             /\ i > v => i + 1 > u
  <2>1. i + 1 \in 2..Len(q) /\ (i + 1) - 1 = i
    BY <1>2, <1>7
  <2> QED
    BY <1>2, <1>3, <1>6, <2>1
<1>8. CASE l = 1
  <2>1. Role(n, p, q[1]) = "lock" /\ q[1] # GiveGil
    BY <1>1, <1>4, <1>8
  <2>2. ASSUME NEW i \in 1..Len(r)
        PROVE  /\ i < v => Role(n, p, r[i]) \in {"touch", "other"}
               /\ i > v => Role(n, p, r[i]) = "other"
    <3>1. 1 < i + 1
      BY <2>2
    <3> HIDE DEF v
    <3> QED
      BY <1>1, <1>7, <1>8, <3>1
  <2> HIDE DEF v
  <2> QED
    BY <1>1, <1>6, <2>1, <2>2 DEF Owning
<1>9. CASE l = 2
  <2>1. q[1] = GiveGil /\ Role(n, p, q[1]) # "lock"
    BY <1>1, <1>4, <1>9
  <2>2. 1 < v /\ 2 \in 2..Len(q)
    BY <1>1, <1>6, <1>9
  <2>3. r[2 - 1] = q[2]
    BY <1>3, <2>2
  <2>4. r[1] = q[2]
    BY <2>3
  <2>5. ASSUME NEW i \in 1..Len(r)
        PROVE  /\ 1 < i /\ i < v => Role(n, p, r[i]) \in {"touch", "other"}
               /\ i > v => Role(n, p, r[i]) = "other"
    <3>1. 1 < i => 2 < i + 1
      BY <2>5
    <3> HIDE DEF v
    <3> QED
      BY <1>1, <1>7, <1>9, <3>1
  <2>6. 1 \in 1..2
    OBVIOUS
  <2> HIDE DEF v
  <2>7. Role(n, p, r[1]) = "lock" /\ Role(n, p, r[v]) = "unlock"
    BY <1>1, <1>6, <1>9, <2>4
  <2>8. Asking(n, p, r)
    BY <1>6, <2>2, <2>5, <2>6, <2>7 DEF Asking
  <2> QED
    BY <2>1, <2>8
<1> QED
  BY <1>5, <1>8, <1>9

\* A thread that is not in n's receive.
Rests(n, q) == \A i \in 1..Len(q) : Word(n, q[i]) = "other"

\* A thread that is: when it has executed the first k statements, which happen
\* below n, it goes on with the last w statements of the receive.
Section(n, depth, q, k, w) ==
  /\ k \in Nat /\ w \in 0..3 /\ k + w <= Len(q)
  /\ w = 0 => k = 0
  /\ \A i \in 1..k : Deeper(n, depth, q[i])
  /\ \A i \in 1..Len(q) : i <= k \/ i > k + w => Word(n, q[i]) = "other"
  /\ w >= 1 => Word(n, q[k + w]) = "wrap"
  /\ w >= 2 => Word(n, q[k + w - 1]) = "count"
  /\ w = 3 => Word(n, q[k + 1]) \in {"test", "signal"}

\* The next of those statements.
LEMMA NextWord ==
  ASSUME NEW n, NEW depth, NEW q, NEW k, NEW w, Section(n, depth, q, k, w), Len(q) \in Nat
  PROVE  /\ Rests(n, q) <=> w = 0
         /\ w > 0 => k + 1 \in 1..Len(q)
         /\ w = 1 => Word(n, q[k + 1]) = "wrap"
         /\ w = 2 => Word(n, q[k + 1]) = "count"
         /\ w = 3 => Word(n, q[k + 1]) \in {"test", "signal"}
<1>1. k \in Nat /\ w \in {0, 1, 2, 3} /\ k + w <= Len(q)
  BY DEF Section
<1>2. w > 0 => k + 1 \in 1..Len(q)
  BY <1>1
<1>3. w = 1 => Word(n, q[k + 1]) = "wrap"
  BY DEF Section
<1>4. w = 2 => Word(n, q[k + 1]) = "count"
  <2>1. k + 2 - 1 = k + 1
    BY <1>1
  <2> QED
    BY <2>1 DEF Section
<1>5. w = 3 => Word(n, q[k + 1]) \in {"test", "signal"}
  BY DEF Section
<1>6. w = 0 => Rests(n, q)
  <2> SUFFICES ASSUME w = 0, NEW i \in 1..Len(q) PROVE Word(n, q[i]) = "other"
    BY DEF Rests
  <2>1. k = 0 /\ i > k + w
    BY DEF Section
  <2> QED
    BY <2>1 DEF Section
<1>7. w > 0 => ~Rests(n, q)
  BY <1>1, <1>2, <1>3, <1>4, <1>5 DEF Rests
<1> QED
  BY <1>1, <1>2, <1>3, <1>4, <1>5, <1>6, <1>7

LEMMA SectionGoesOn ==
  ASSUME NEW n, NEW depth, NEW q, NEW program, NEW r, Spliced(q, program, r),
         NEW k, NEW w, Section(n, depth, q, k, w),
         Word(n, q[1]) = "other",
         \A i \in 1..Len(program) : Word(n, program[i]) = "other",
         Deeper(n, depth, q[1]) => \A i \in 1..Len(program) : Deeper(n, depth, program[i])
  PROVE  \E k1 \in Nat : Section(n, depth, r, k1, w) /\ (w > 0 => r[k1 + 1] = q[k + 1])
<1> DEFINE l == Len(program)
<1>1. /\ Len(q) \in Nat /\ Len(q) >= 1 /\ l \in Nat /\ Len(r) = l + Len(q) - 1
      /\ \A i \in 1..l : r[i] = program[i]
      /\ \A i \in 2..Len(q) : r[l + i - 1] = q[i]
  BY DEF Spliced
<1>2. k \in Nat /\ w \in {0, 1, 2, 3} /\ k + w <= Len(q)
  BY DEF Section
<1>3. CASE w = 0
  <2>1. Rests(n, q)
    BY <1>1, <1>3, NextWord
  <2>2. ASSUME NEW i \in 1..Len(r) PROVE Word(n, r[i]) = "other"
    <3>1. CASE \E j \in 2..Len(q) : i = l + j - 1 /\ r[i] = q[j]
      <4>1. PICK j \in 2..Len(q) : r[i] = q[j]
        BY <3>1
      <4>2. j \in 1..Len(q)
        BY <1>1, <4>1
      <4> QED
        BY <2>1, <4>1, <4>2 DEF Rests
    <3>2. CASE i \in 1..l /\ r[i] = program[i]
      BY <3>2
    <3> QED
      BY <3>1, <3>2, SplicedFrom, SMTT(30)
  <2>3. Section(n, depth, r, 0, 0)
    BY <1>1, <2>2 DEF Section
  <2> QED
    BY <1>3, <2>3
<1>4. CASE w > 0
  <2>1. k # 0
    <3> SUFFICES ASSUME k = 0 PROVE FALSE
      OBVIOUS
    <3>1. k + 1 = 1
      OBVIOUS
    <3> QED
      BY <1>1, <1>2, <1>4, <3>1, NextWord
  <2> DEFINE k1 == l + k - 1
  <2>2. k1 \in Nat /\ k1 + w <= Len(r) /\ 1 \in 1..k
    BY <1>1, <1>2, <2>1
  <2>3. Deeper(n, depth, q[1])
    BY <2>2 DEF Section
  <2>4. ASSUME NEW i \in 1..k1 PROVE Deeper(n, depth, r[i])
    <3>1. i \in 1..Len(r)
      BY <2>2, <1>1, <1>2, SMTT(30)
    <3>2. CASE \E j \in 2..Len(q) : i = l + j - 1 /\ r[i] = q[j]
      <4>1. PICK j \in 2..Len(q) : i = l + j - 1 /\ r[i] = q[j]
        BY <3>2
      <4>2. j \in 1..k
        BY <1>1, <1>2, <2>2, <2>4, <4>1, SMTT(30)
      <4> QED
        BY <4>1, <4>2 DEF Section
    <3>3. CASE i \in 1..l /\ r[i] = program[i]
      BY <2>3, <3>3
    <3> QED
      BY <3>1, <3>2, <3>3, SplicedFrom
  <2>5. ASSUME NEW i \in 1..Len(r), i <= k1 \/ i > k1 + w PROVE Word(n, r[i]) = "other"
    <3>1. CASE \E j \in 2..Len(q) : i = l + j - 1 /\ r[i] = q[j]
      <4>1. PICK j \in 2..Len(q) : i = l + j - 1 /\ r[i] = q[j]
        BY <3>1
      <4>2. j \in 1..Len(q) /\ (j <= k \/ j > k + w)
        BY <1>1, <1>2, <2>5, <4>1, SMTT(30)
      <4> QED
        BY <4>1, <4>2 DEF Section
    <3>2. CASE i \in 1..l /\ r[i] = program[i]
      BY <3>2
    <3>3. \/ i \in 1..l /\ r[i] = program[i]
          \/ \E j \in 2..Len(q) : i = l + j - 1 /\ r[i] = q[j]
      BY SplicedFrom
    <3> QED
      BY <3>1, <3>2, <3>3
  <2>6. \A i \in k + 1..Len(q) : r[k1 + (i - k)] = q[i]
    <3> TAKE i \in k + 1..Len(q)
    <3>1. i \in 2..Len(q) /\ l + i - 1 = k1 + (i - k)
      BY <1>1, <1>2, <2>1
    <3> QED
      BY <1>1, <3>1
  <2>7. /\ k + w \in k + 1..Len(q) /\ (k + w) - k = w
        /\ k + 1 \in k + 1..Len(q) /\ (k + 1) - k = 1
        /\ w >= 2 => k + w - 1 \in k + 1..Len(q) /\ k1 + ((k + w - 1) - k) = k1 + w - 1
    BY <1>1, <1>2, <1>4, <2>2
  <2> HIDE DEF k1
  <2>8. r[k1 + w] = q[k + w] /\ r[k1 + 1] = q[k + 1] /\ (w >= 2 => r[k1 + w - 1] = q[k + w - 1])
    BY <2>6, <2>7
  <2>9. Section(n, depth, r, k1, w)
    BY <1>2, <1>4, <2>2, <2>4, <2>5, <2>8 DEF Section
  <2> QED
    BY <2>2, <2>8, <2>9
<1> QED
  BY <1>2, <1>3, <1>4

\* A statement of the receive is executed.
LEMMA SectionShrinks ==
  ASSUME NEW n, NEW depth, NEW q, NEW program, NEW r, Spliced(q, program, r),
         NEW w, w > 0, Section(n, depth, q, 0, w),
         \A i \in 1..Len(program) : Word(n, program[i]) = "other" /\ Deeper(n, depth, program[i])
  PROVE  \E k1 \in Nat : Section(n, depth, r, k1, w - 1)
<1> DEFINE l == Len(program)
           k1 == IF w = 1 THEN 0 ELSE l
<1>1. /\ Len(q) \in Nat /\ Len(q) >= 1 /\ l \in Nat /\ Len(r) = l + Len(q) - 1
      /\ \A i \in 1..l : r[i] = program[i]
      /\ \A i \in 2..Len(q) : r[l + i - 1] = q[i]
  BY DEF Spliced
<1>2. w \in {1, 2, 3} /\ w <= Len(q)
  BY DEF Section
<1>3. k1 \in Nat /\ w - 1 \in 0..3 /\ k1 + (w - 1) <= Len(r) /\ (w - 1 = 0 => k1 = 0) /\ k1 <= l
  BY <1>1, <1>2
<1>4. ASSUME NEW i \in 1..k1 PROVE Deeper(n, depth, r[i])
  <2>1. i \in 1..l
    BY <1>1, <1>3
  <2> QED
    BY <1>1, <2>1
<1>5. ASSUME NEW i \in 1..Len(r), i <= k1 \/ i > k1 + (w - 1) PROVE Word(n, r[i]) = "other"
  <2>1. CASE \E j \in 2..Len(q) : i = l + j - 1 /\ r[i] = q[j]
    <3>1. PICK j \in 2..Len(q) : i = l + j - 1 /\ r[i] = q[j]
      BY <2>1
    <3>2. j \in 1..Len(q) /\ j > 0 + w
      BY <1>1, <1>2, <1>5, <3>1
    <3> QED
      BY <3>1, <3>2 DEF Section
  <2> QED
    BY <2>1, SplicedFrom
<1>6. w >= 2 => r[k1 + (w - 1)] = q[0 + w]
  <2> SUFFICES ASSUME w >= 2 PROVE r[k1 + (w - 1)] = q[0 + w]
    OBVIOUS
  <2>1. w \in 2..Len(q) /\ l + w - 1 = k1 + (w - 1) /\ 0 + w = w
    BY <1>1, <1>2
  <2> HIDE DEF k1
  <2> QED
    BY <1>1, <2>1
<1>7. w = 3 => r[k1 + (w - 1) - 1] = q[0 + w - 1]
  <2> SUFFICES ASSUME w = 3 PROVE r[k1 + (w - 1) - 1] = q[0 + w - 1]
    OBVIOUS
  <2>1. w - 1 \in 2..Len(q) /\ l + (w - 1) - 1 = k1 + (w - 1) - 1 /\ 0 + w - 1 = w - 1
    BY <1>1, <1>2
  <2> HIDE DEF k1
  <2> QED
    BY <1>1, <2>1
<1> HIDE DEF k1
<1>8. Section(n, depth, r, k1, w - 1)
  <2>1. w - 1 >= 1 => Word(n, r[k1 + (w - 1)]) = "wrap"
    BY <1>2, <1>6 DEF Section
  <2>2. w - 1 >= 2 => Word(n, r[k1 + (w - 1) - 1]) = "count"
    BY <1>2, <1>7 DEF Section
  <2>3. w - 1 # 3
    BY <1>2
  <2> QED
    BY <1>3, <1>4, <1>5, <2>1, <2>2, <2>3 DEF Section
<1> QED
  BY <1>3, <1>8

\* EveryN signals a message.
LEMMA SectionSignals ==
  ASSUME NEW n, NEW depth, NEW q, NEW program, NEW r, Spliced(q, program, r),
         Section(n, depth, q, 0, 3), Len(program) = 1, Word(n, program[1]) = "signal"
  PROVE  Section(n, depth, r, 0, 3) /\ r[1] = program[1]
<1>1. /\ Len(q) \in Nat /\ Len(q) >= 3 /\ Len(r) = Len(q)
      /\ r[1] = program[1]
      /\ \A i \in 2..Len(q) : r[1 + i - 1] = q[i]
  BY DEF Spliced, Section
<1>2. \A i \in 2..Len(q) : r[i] = q[i]
  BY <1>1
<1>3. ASSUME NEW i \in 1..Len(r), i <= 0 \/ i > 0 + 3 PROVE Word(n, r[i]) = "other"
  <2>1. i \in 2..Len(q) /\ i \in 1..Len(q)
    BY <1>1, <1>3
  <2> QED
    BY <1>2, <1>3, <2>1 DEF Section
<1>4. r[0 + 3] = q[0 + 3] /\ r[0 + 3 - 1] = q[0 + 3 - 1] /\ r[0 + 1] = program[1]
  <2>1. 3 \in 2..Len(q) /\ 2 \in 2..Len(q)
    BY <1>1
  <2> QED
    BY <1>1, <1>2, <2>1
<1>5. Section(n, depth, r, 0, 3)
  BY <1>1, <1>3, <1>4 DEF Section
<1> QED
  BY <1>1, <1>5

\* n receives a message.
LEMMA SectionStarts ==
  ASSUME NEW n, NEW depth, NEW q, NEW program, NEW r, Spliced(q, program, r), Rests(n, q),
         Len(program) = 3, Word(n, program[1]) = "test", Word(n, program[2]) = "count",
         Word(n, program[3]) = "wrap"
  PROVE  Section(n, depth, r, 0, 3) /\ r[1] = program[1]
<1>1. /\ Len(q) \in Nat /\ Len(q) >= 1 /\ Len(r) = 3 + Len(q) - 1
      /\ r[1] = program[1] /\ r[2] = program[2] /\ r[3] = program[3]
      /\ \A i \in 2..Len(q) : r[3 + i - 1] = q[i]
  BY DEF Spliced
<1>2. ASSUME NEW i \in 1..Len(r), i <= 0 \/ i > 0 + 3 PROVE Word(n, r[i]) = "other"
  <2> DEFINE j == i - 2
  <2>1. j \in 2..Len(q) /\ j \in 1..Len(q) /\ 3 + j - 1 = i
    BY <1>1, <1>2
  <2> HIDE DEF j
  <2>2. r[i] = q[j]
    BY <1>1, <2>1
  <2> QED
    BY <2>1, <2>2 DEF Rests
<1>3. Section(n, depth, r, 0, 3)
  BY <1>1, <1>2 DEF Section
<1> QED
  BY <1>1, <1>3

-----------------------------------------------------------------------------
(* How many messages n has signalled: one of each Nth, the first.  count is *)
(* what it remembers.                                                       *)

Counted(received, count, signalled) ==
  \E b \in Nat :
    /\ received = b * Nth + count /\ count \in 0..(Nth - 1)
    /\ signalled = IF count = 0 THEN b ELSE b + 1

\* In its receive, when w statements are left and word is the first of them.
Phase(w, word, received, count, signalled) ==
  \E b \in Nat :
    /\ w = 3 =>
         /\ received = b * Nth + count + 1 /\ count \in 0..(Nth - 1)
         /\ signalled = IF count = 0 THEN b ELSE b + 1
         /\ word = "signal" => count = 0
    /\ w = 2 =>
         /\ received = b * Nth + count + 1 /\ count \in 0..(Nth - 1)
         /\ signalled = b + 1
    /\ w = 1 =>
         /\ received = b * Nth + count /\ count \in 1..Nth
         /\ signalled = b + 1

LEMMA Product ==
  ASSUME NEW b \in Nat
  PROVE  b * Nth \in Nat /\ (b + 1) * Nth = b * Nth + Nth
BY Sizes

LEMMA CountedDivides ==
  ASSUME NEW h, NEW c, NEW a, Counted(h, c, a)
  PROVE  a = (h + Nth - 1) \div Nth
<1>1. PICK b \in Nat : /\ h = b * Nth + c /\ c \in 0..(Nth - 1)
                       /\ a = IF c = 0 THEN b ELSE b + 1
  BY DEF Counted
<1>2. Nth \in Nat /\ Nth >= 1
  BY Sizes
<1>3. \A k \in Nat, r \in 0..(Nth - 1) : (k * Nth + r) \div Nth = k
  BY <1>2
<1>4. CASE c = 0
  <2>1. h + Nth - 1 = b * Nth + (Nth - 1) /\ Nth - 1 \in 0..(Nth - 1)
    BY <1>1, <1>2, <1>4, Product
  <2> QED
    BY <1>1, <1>3, <1>4, <2>1
<1>5. CASE c # 0
  <2>1. h + Nth - 1 = (b + 1) * Nth + (c - 1) /\ c - 1 \in 0..(Nth - 1) /\ b + 1 \in Nat
    BY <1>1, <1>2, <1>5, Product
  <2> QED
    BY <1>1, <1>3, <1>5, <2>1
<1> QED
  BY <1>4, <1>5

\* n receives a message, ...
LEMMA CountsReceive ==
  ASSUME NEW h, NEW c, NEW a, Counted(h, c, a), NEW word, word # "signal"
  PROVE  Phase(3, word, h + 1, c, a)
<1>1. PICK b \in Nat : /\ h = b * Nth + c /\ c \in 0..(Nth - 1)
                       /\ a = IF c = 0 THEN b ELSE b + 1
  BY DEF Counted
<1>2. h + 1 = b * Nth + c + 1
  BY <1>1, Product, Sizes
<1> QED
  BY <1>1, <1>2 DEF Phase

\* ... signals it or not, ...
LEMMA CountsTest ==
  ASSUME NEW h, NEW c, NEW a, NEW word, Phase(3, word, h, c, a), NEW word1
  PROVE  /\ c = 0 => Phase(3, word1, h, c, a)
         /\ c # 0 => Phase(2, word1, h, c, a)
<1>1. PICK b \in Nat : /\ h = b * Nth + c + 1 /\ c \in 0..(Nth - 1)
                       /\ a = IF c = 0 THEN b ELSE b + 1
  BY DEF Phase
<1> QED
  BY <1>1 DEF Phase

LEMMA CountsSignal ==
  ASSUME NEW h, NEW c, NEW a, Phase(3, "signal", h, c, a), NEW word1
  PROVE  Phase(2, word1, h, c, a + 1)
<1>1. PICK b \in Nat : /\ h = b * Nth + c + 1 /\ c \in 0..(Nth - 1)
                       /\ a = b /\ c = 0
  BY DEF Phase
<1> QED
  BY <1>1 DEF Phase

\* ... counts it, ...
LEMMA CountsCount ==
  ASSUME NEW h, NEW c, NEW a, NEW word, Phase(2, word, h, c, a), NEW word1
  PROVE  Phase(1, word1, h, c + 1, a)
<1>1. PICK b \in Nat : /\ h = b * Nth + c + 1 /\ c \in 0..(Nth - 1)
                       /\ a = b + 1
  BY DEF Phase
<1>2. h = b * Nth + (c + 1) /\ c + 1 \in 1..Nth
  BY <1>1, Product, Sizes
<1> QED
  BY <1>1, <1>2 DEF Phase

\* ... and starts again at Nth.
LEMMA CountsWrap ==
  ASSUME NEW h, NEW c, NEW a, NEW word, Phase(1, word, h, c, a)
  PROVE  Counted(h, Wrapped(c), a)
<1>1. PICK b \in Nat : /\ h = b * Nth + c /\ c \in 1..Nth
                       /\ a = b + 1
  BY DEF Phase
<1>2. CASE c = Nth
  <2>1. h = (b + 1) * Nth + 0 /\ b + 1 \in Nat /\ 0 \in 0..(Nth - 1)
    BY <1>1, <1>2, Product, Sizes
  <2>2. Wrapped(c) = 0
    BY <1>2 DEF Wrapped
  <2> QED
    BY <1>1, <2>1, <2>2 DEF Counted
<1>3. CASE c # Nth
  <2>1. c \in 0..(Nth - 1) /\ c # 0
    BY <1>1, <1>3, Sizes
  <2>2. Wrapped(c) = c
    BY <1>3 DEF Wrapped
  <2> QED
    BY <1>1, <2>1, <2>2 DEF Counted
<1> QED
  BY <1>2, <1>3

-----------------------------------------------------------------------------
(* The inductive invariant of EveryNthIsSignalled.                         *)

LockPhase(n, p, q, own) ==
  IF own THEN Owning(n, p, q) ELSE Free(n, p, q) \/ Asking(n, p, q)

Pending(n, depth, q, received, count, signalled) ==
  \E k \in Nat, w \in 0..3 :
    /\ Section(n, depth, q, k, w)
    /\ w > 0 => Phase(w, Word(n, q[k + 1]), received, count, signalled)

AloneInv(n, p, depth) ==
  /\ TypeInv
  /\ \A t \in Threads : LockPhase(n, p, todo[t], owner[ObserversMutex(p)] = t)
  /\ \A t \in Threads : Pending(n, depth, todo[t], heard[n], memory[n], passed[n])
  /\ (\A t \in Threads : Rests(n, todo[t])) => Counted(heard[n], memory[n], passed[n])

LEMMA RoleOfWord ==
  ASSUME NEW n, NEW p, NEW s, Word(n, s) # "other"
  PROVE  Role(n, p, s) = "touch"
BY DEF Role, Word

LEMMA RestingIsPending ==
  ASSUME NEW n, NEW depth, NEW q, Len(q) \in Nat, Rests(n, q), NEW h, NEW c, NEW a
  PROVE  Pending(n, depth, q, h, c, a)
<1>1. Section(n, depth, q, 0, 0)
  BY DEF Section, Rests
<1> QED
  BY <1>1 DEF Pending

\* A thread in n's receive has locked the mutex of p's observers, and so has
\* one that calls n.
LEMMA InsideOwns ==
  ASSUME NEW n, NEW p, NEW depth, Fed(n, p, depth), NEW q, Len(q) \in Nat,
         NEW own, LockPhase(n, p, q, own),
         NEW k, NEW w, Section(n, depth, q, k, w), w > 0
  PROVE  own
<1> SUFFICES ASSUME ~own PROVE FALSE
  OBVIOUS
<1>1. k \in Nat /\ k + 1 \in 1..Len(q) /\ Word(n, q[k + 1]) # "other"
  BY NextWord DEF Section
<1>2. Role(n, p, q[k + 1]) = "touch"
  BY <1>1, RoleOfWord
<1>3. CASE Free(n, p, q)
  BY <1>1, <1>2, <1>3 DEF Free
<1>4. CASE Asking(n, p, q)
  <2>1. PICK l \in 1..2, u \in 1..Len(q) :
          /\ l < u
          /\ l = 2 => q[1] = GiveGil
          /\ Role(n, p, q[l]) = "lock"
    BY <1>4 DEF Asking
  <2>2. k + 1 # l
    BY <1>2, <2>1
  <2>3. ~(l <= k)
    <3> SUFFICES ASSUME l \in 1..k PROVE FALSE
      BY <1>1, <2>1
    <3>1. Deeper(n, depth, q[l])
      BY DEF Section
    <3>2. q[l][1] = "lock" /\ q[l][2] = ObserversMutex(p)
      BY <2>1 DEF Role
    <3>3. depth[p] >= depth[n]
      BY <3>1, <3>2, MutexNames DEF Deeper
    <3> QED
      BY <3>3, Depths
  <2>4. k = 0 /\ l = 2
    BY <1>1, <2>1, <2>2, <2>3
  <2>5. Role(n, p, q[1]) = "touch" /\ q[1] = GiveGil
    BY <1>2, <2>1, <2>4
  <2> QED
    BY <2>5, PlainWords, OthersAre
<1> QED
  BY <1>3, <1>4 DEF LockPhase

LEMMA CallerOwns ==
  ASSUME NEW n, NEW p, NEW q, Len(q) \in Nat, Len(q) >= 1,
         NEW own, LockPhase(n, p, q, own), Role(n, p, q[1]) = "touch"
  PROVE  own
<1> SUFFICES ASSUME ~own PROVE FALSE
  OBVIOUS
<1>1. 1 \in 1..Len(q)
  OBVIOUS
<1>2. CASE Free(n, p, q)
  BY <1>1, <1>2 DEF Free
<1>3. CASE Asking(n, p, q)
  <2>1. PICK l \in 1..2 : Role(n, p, q[l]) = "lock" /\ (l = 2 => q[1] = GiveGil)
    BY <1>3 DEF Asking
  <2>2. q[1] = GiveGil
    BY <2>1
  <2> QED
    BY <2>2, PlainWords, OthersAre
<1> QED
  BY <1>2, <1>3 DEF LockPhase

-----------------------------------------------------------------------------
(* Steps, and what they keep.                                              *)

\* t executes the first of its statements, and goes on with program.
StepsTo(t, program) ==
  /\ Spliced(todo[t], program, todo'[t])
  /\ \A s \in Threads \ {t} : todo'[s] = todo[s]

LEMMA ContinueSteps ==
  ASSUME TypeInv, NEW t \in Threads, NEW what, At(t, what), NEW program \in Program,
         Continue(t, program)
  PROVE  StepsTo(t, program)
<1>1. todo[t] # <<>> /\ todo[t] \in Seq(Statement) /\ program \in Seq(Statement)
  BY FirstStatement DEF Program
<1>2. /\ todo'[t] = program \o Tail(todo[t])
      /\ \A s \in Threads \ {t} : todo'[s] = todo[s]
  BY <1>1, ContinueTyped
<1>3. Spliced(todo[t], program, program \o Tail(todo[t]))
  BY <1>1, SplicedIs
<1> QED
  BY <1>2, <1>3 DEF StepsTo

\* The mutex stays with its owner.
LEMMA LocksKept ==
  ASSUME NEW n, NEW p, NEW t \in Threads, NEW program,
         \A s \in Threads : LockPhase(n, p, todo[s], owner[ObserversMutex(p)] = s),
         StepsTo(t, program),
         owner'[ObserversMutex(p)] = owner[ObserversMutex(p)],
         Role(n, p, todo[t][1]) \notin {"lock", "unlock"},
         todo[t][1] = GiveGil => Len(program) = 0,
         \/ \A i \in 1..Len(program) : Role(n, p, program[i]) = "other"
         \/ /\ owner[ObserversMutex(p)] = t
            /\ \A i \in 1..Len(program) : Role(n, p, program[i]) \in {"touch", "other"}
  PROVE  \A s \in Threads : LockPhase(n, p, todo'[s], owner'[ObserversMutex(p)] = s)
<1> SUFFICES ASSUME NEW s \in Threads
             PROVE  LockPhase(n, p, todo'[s], owner'[ObserversMutex(p)] = s)
  OBVIOUS
<1>1. CASE s # t
  <2>1. todo'[s] = todo[s]
    BY <1>1 DEF StepsTo
  <2> QED
    BY <2>1
<1>2. CASE s = t
  <2>1. PICK q, r : q = todo[t] /\ r = todo'[t]
    OBVIOUS
  <2>2. Spliced(q, program, r)
    BY <2>1 DEF StepsTo
  <2>3. CASE owner[ObserversMutex(p)] = t
    <3>1. Owning(n, p, q)
      BY <2>1, <2>3 DEF LockPhase
    <3>2. Owning(n, p, r)
      BY <2>1, <2>2, <3>1, OwningGoesOn
    <3> QED
      BY <1>2, <2>1, <2>3, <3>2 DEF LockPhase
  <2>4. CASE owner[ObserversMutex(p)] # t
    <3>1. Free(n, p, q) \/ Asking(n, p, q)
      BY <2>1, <2>4 DEF LockPhase
    <3>2. Free(n, p, program)
      BY <2>4 DEF Free
    <3>3. CASE Free(n, p, q)
      <4>1. Free(n, p, r)
        BY <2>2, <3>2, <3>3, FreeGoesOn
      <4> QED
        BY <1>2, <2>1, <2>4, <4>1 DEF LockPhase
    <3>4. CASE Asking(n, p, q)
      <4>1. q[1] = GiveGil
        <5> SUFFICES ASSUME q[1] # GiveGil PROVE Role(n, p, q[1]) = "lock"
          BY <2>1
        <5>1. PICK l \in 1..2 : Role(n, p, q[l]) = "lock" /\ (l = 2 => q[1] = GiveGil)
          BY <3>4 DEF Asking
        <5> QED
          BY <5>1
      <4>2. Asking(n, p, r)
        BY <2>1, <2>2, <3>4, <4>1, AskingLocks
      <4> QED
        BY <1>2, <2>1, <2>4, <4>2 DEF LockPhase
    <3> QED
      BY <3>1, <3>3, <3>4
  <2> QED
    BY <2>3, <2>4
<1> QED
  BY <1>1, <1>2

\* A step of t beside n's receive.
LEMMA StepBeside ==
  ASSUME NEW n, NEW p, NEW depth, AloneInv(n, p, depth), TypeInv',
         NEW t \in Threads, NEW program, StepsTo(t, program),
         heard'[n] = heard[n], memory'[n] = memory[n], passed'[n] = passed[n],
         Word(n, todo[t][1]) = "other",
         \A i \in 1..Len(program) : Word(n, program[i]) = "other",
         Deeper(n, depth, todo[t][1]) => \A i \in 1..Len(program) : Deeper(n, depth, program[i]),
         \A s \in Threads : LockPhase(n, p, todo'[s], owner'[ObserversMutex(p)] = s)
  PROVE  AloneInv(n, p, depth)'
<1>1. PICK h, c, a : h = heard[n] /\ c = memory[n] /\ a = passed[n]
  OBVIOUS
<1>2. \A s \in Threads : /\ Pending(n, depth, todo[s], h, c, a)
                         /\ Len(todo[s]) \in Nat /\ Len(todo'[s]) \in Nat
  BY <1>1, LenProperties DEF AloneInv, TypeInv, Program
<1>3. ASSUME NEW s \in Threads
      PROVE  /\ Pending(n, depth, todo'[s], h, c, a)
             /\ Rests(n, todo'[s]) => Rests(n, todo[s])
  <2>1. CASE s # t
    <3>1. todo'[s] = todo[s]
      BY <2>1 DEF StepsTo
    <3> QED
      BY <1>2, <3>1
  <2>2. CASE s = t
    <3>1. PICK q, r : q = todo[t] /\ r = todo'[t]
      OBVIOUS
    <3>2. Spliced(q, program, r) /\ Len(q) \in Nat /\ Len(r) \in Nat
      BY <1>2, <3>1 DEF StepsTo
    <3>3. PICK k \in Nat, w \in 0..3 :
            /\ Section(n, depth, q, k, w)
            /\ w > 0 => Phase(w, Word(n, q[k + 1]), h, c, a)
      BY <1>2, <3>1 DEF Pending
    <3>4. PICK k1 \in Nat : Section(n, depth, r, k1, w) /\ (w > 0 => r[k1 + 1] = q[k + 1])
      BY <3>1, <3>2, <3>3, SectionGoesOn
    <3>5. w > 0 => Phase(w, Word(n, r[k1 + 1]), h, c, a)
      BY <3>3, <3>4
    <3>6. Pending(n, depth, r, h, c, a)
      BY <3>4, <3>5 DEF Pending
    <3>7. Rests(n, r) => Rests(n, q)
      BY <3>2, <3>3, <3>4, NextWord
    <3> QED
      BY <2>2, <3>1, <3>6, <3>7
  <2> QED
    BY <2>1, <2>2
<1>4. (\A s \in Threads : Rests(n, todo'[s])) => Counted(h, c, a)
  BY <1>1, <1>3 DEF AloneInv
<1>5. heard'[n] = h /\ memory'[n] = c /\ passed'[n] = a
  BY <1>1
<1> QED
  BY <1>3, <1>4, <1>5 DEF AloneInv

\* The other threads are not in n's receive when t has locked the mutex.
LEMMA OthersRest ==
  ASSUME NEW n, NEW p, NEW depth, Fed(n, p, depth), AloneInv(n, p, depth),
         NEW t \in Threads, owner[ObserversMutex(p)] = t, NEW s \in Threads, s # t
  PROVE  Rests(n, todo[s])
<1>1. PICK q, own : q = todo[s] /\ own = (owner[ObserversMutex(p)] = s)
  OBVIOUS
<1>2. Len(q) \in Nat /\ LockPhase(n, p, q, own) /\ ~own
  BY <1>1, LenProperties DEF AloneInv, TypeInv, Program
<1>3. PICK k \in Nat, w \in 0..3 : Section(n, depth, q, k, w)
  BY <1>1 DEF AloneInv, Pending
<1>4. w = 0
  BY <1>2, <1>3, InsideOwns
<1> QED
  BY <1>1, <1>2, <1>3, <1>4, NextWord

\* A step of t in n's receive.
LEMMA StepInside ==
  ASSUME NEW n, NEW p, NEW depth, Fed(n, p, depth), AloneInv(n, p, depth), TypeInv',
         NEW t \in Threads, NEW program, StepsTo(t, program),
         owner[ObserversMutex(p)] = t,
         \A s \in Threads : LockPhase(n, p, todo'[s], owner'[ObserversMutex(p)] = s),
         Pending(n, depth, todo'[t], heard'[n], memory'[n], passed'[n]),
         Rests(n, todo'[t]) => Counted(heard'[n], memory'[n], passed'[n])
  PROVE  AloneInv(n, p, depth)'
<1>1. PICK h, c, a : h = heard'[n] /\ c = memory'[n] /\ a = passed'[n]
  OBVIOUS
<1>2. ASSUME NEW s \in Threads PROVE Pending(n, depth, todo'[s], h, c, a)
  <2>1. CASE s = t
    BY <1>1, <2>1
  <2>2. CASE s # t
    <3>1. PICK q : q = todo[s]
      OBVIOUS
    <3>2. todo'[s] = q /\ Len(q) \in Nat
      BY <2>2, <3>1, LenProperties DEF StepsTo, AloneInv, TypeInv, Program
    <3>3. Rests(n, q)
      BY <2>2, <3>1, OthersRest
    <3>4. Pending(n, depth, q, h, c, a)
      BY <3>2, <3>3, RestingIsPending
    <3> QED
      BY <3>2, <3>4
  <2> QED
    BY <2>1, <2>2
<1> QED
  BY <1>1, <1>2 DEF AloneInv

-----------------------------------------------------------------------------
(* The statements of a thread.                                             *)

LEMMA NoneIsNoThread == \A t \in Threads : t # None
BY InterpreterAssumption DEF Threads

\* A statement that is nothing to n goes on with statements that are nothing.
LEMMA BesideAlone ==
  ASSUME NEW n, NEW p, NEW depth, AloneInv(n, p, depth), TypeInv',
         NEW t \in Threads, NEW what, At(t, what), NEW program \in Program, Continue(t, program),
         heard'[n] = heard[n], memory'[n] = memory[n], passed'[n] = passed[n],
         owner'[ObserversMutex(p)] = owner[ObserversMutex(p)],
         Role(n, p, todo[t][1]) = "other",
         what = "give gil" => Len(program) = 0,
         \A i \in 1..Len(program) : Role(n, p, program[i]) = "other",
         Deeper(n, depth, todo[t][1]) => \A i \in 1..Len(program) : Deeper(n, depth, program[i])
  PROVE  AloneInv(n, p, depth)'
<1>1. TypeInv /\ StepsTo(t, program)
  BY ContinueSteps DEF AloneInv
<1>2. todo[t][1] = GiveGil => Len(program) = 0
  <2>1. todo[t][1][1] = what
    BY <1>1, FirstStatement
  <2> QED
    BY <2>1, PlainWords
<1>3. \A s \in Threads : LockPhase(n, p, todo'[s], owner'[ObserversMutex(p)] = s)
  <2>1. \A s \in Threads : LockPhase(n, p, todo[s], owner[ObserversMutex(p)] = s)
    BY DEF AloneInv
  <2> QED
    BY <1>1, <1>2, <2>1, LocksKept
<1>4. Word(n, todo[t][1]) = "other" /\ \A i \in 1..Len(program) : Word(n, program[i]) = "other"
  <2>1. \A s : Role(n, p, s) = "other" => Word(n, s) = "other"
    <3> TAKE s
    <3>1. Word(n, s) # "other" => Role(n, p, s) = "touch"
      BY RoleOfWord
    <3> QED
      BY <3>1
  <2> QED
    BY <2>1
<1> QED
  BY <1>1, <1>3, <1>4, StepBeside

LEMMA LockAlone ==
  ASSUME NEW n, NEW p, NEW depth, Fed(n, p, depth), AloneInv(n, p, depth), TypeInv',
         NEW t \in Threads, LockMutex(t)
  PROVE  AloneInv(n, p, depth)'
<1>1. TypeInv /\ At(t, "lock") /\ Continue(t, <<>>) /\ <<>> \in Program /\ Len(<<>>) = 0
  BY PlainPrograms, EmptySeq DEF AloneInv, LockMutex
<1>2. PICK q, y, x : q = todo[t] /\ y = Arg(t, 2) /\ x = ObserversMutex(p)
  OBVIOUS
<1>3. q[1][1] = "lock" /\ q[1][2] = y /\ q[1] = Lock(y) /\ y \in Mutexes
  BY <1>1, <1>2, FirstStatement, StatementSays
<1>4. /\ owner[y] \in {None, t}
      /\ owner' = [owner EXCEPT ![y] = t]
      /\ UNCHANGED <<memory, history>>
  BY <1>2 DEF LockMutex
<1>5. heard'[n] = heard[n] /\ memory'[n] = memory[n] /\ passed'[n] = passed[n]
  BY <1>4 DEF history
<1>6. CASE y # x
  <2>1. owner'[x] = owner[x]
    BY <1>1, <1>3, <1>4, <1>6 DEF TypeInv
  <2>2. Role(n, p, q[1]) = "other"
    BY <1>2, <1>3, <1>6, LocksAre
  <2>3. /\ owner'[ObserversMutex(p)] = owner[ObserversMutex(p)]
        /\ Role(n, p, todo[t][1]) = "other"
    BY <1>2, <2>1, <2>2
  <2>4. \A i \in 1..Len(<<>>) :
          Role(n, p, <<>>[i]) = "other" /\ Deeper(n, depth, <<>>[i])
    BY <1>1
  <2> QED
    BY <1>1, <1>5, <2>3, <2>4, BesideAlone
<1>7. CASE y = x
  <2>1. Role(n, p, q[1]) = "lock" /\ Word(n, q[1]) = "other" /\ q[1] # GiveGil
    <3>1. q[1] = Lock(x)
      BY <1>3, <1>7
    <3>2. Role(n, p, Lock(x)) = "lock" /\ Word(n, Lock(x)) = "other"
      BY <1>2, LocksAre
    <3>3. q[1] # GiveGil
      BY <1>3, PlainWords
    <3> QED
      BY <3>1, <3>2, <3>3
  <2>2. StepsTo(t, <<>>)
    BY <1>1, ContinueSteps
  <2>3. PICK r : r = todo'[t]
    OBVIOUS
  <2>4. Spliced(q, <<>>, r) /\ Len(q) \in Nat /\ 1 \in 1..Len(q)
    BY <1>2, <2>2, <2>3 DEF StepsTo, Spliced
  <2>5. LockPhase(n, p, q, owner[x] = t)
    BY <1>2 DEF AloneInv
  <2>6. ~Owning(n, p, q)
    <3> SUFFICES ASSUME Owning(n, p, q) PROVE FALSE
      OBVIOUS
    <3>1. PICK u \in 1..Len(q) :
            /\ Role(n, p, q[u]) = "unlock"
            /\ \A i \in 1..Len(q) : i < u => Role(n, p, q[i]) \in {"touch", "other"}
      BY DEF Owning
    <3>2. u # 1
      BY <2>1, <3>1
    <3>3. 1 < u
      BY <2>4, <3>2
    <3> QED
      BY <2>1, <2>4, <3>1, <3>3
  <2>7. owner[x] # t /\ (Free(n, p, q) \/ Asking(n, p, q))
    BY <2>5, <2>6 DEF LockPhase
  <2>8. Asking(n, p, q)
    BY <2>1, <2>4, <2>7 DEF Free
  <2>9. Owning(n, p, r)
    BY <1>1, <2>1, <2>4, <2>8, AskingLocks
  <2>10. owner[x] = None /\ owner'[x] = t
    BY <1>1, <1>3, <1>4, <1>7, <2>7 DEF TypeInv
  <2>11. ASSUME NEW s \in Threads PROVE LockPhase(n, p, todo'[s], owner'[x] = s)
    <3>1. CASE s = t
      BY <2>3, <2>9, <2>10, <3>1 DEF LockPhase
    <3>2. CASE s # t
      <4>1. todo'[s] = todo[s] /\ owner[x] # s /\ owner'[x] # s
        BY <2>2, <2>10, <3>2, NoneIsNoThread DEF StepsTo
      <4>2. LockPhase(n, p, todo[s], owner[x] = s)
        BY <1>2 DEF AloneInv
      <4> QED
        BY <4>1, <4>2 DEF LockPhase
    <3> QED
      BY <3>1, <3>2
  <2> QED
    BY <1>1, <1>2, <1>5, <2>1, <2>2, <2>11, StepBeside
<1> QED
  BY <1>6, <1>7

LEMMA UnlockAlone ==
  ASSUME NEW n, NEW p, NEW depth, Fed(n, p, depth), AloneInv(n, p, depth), TypeInv',
         NEW t \in Threads, UnlockMutex(t)
  PROVE  AloneInv(n, p, depth)'
<1>1. TypeInv /\ At(t, "unlock") /\ Continue(t, <<>>) /\ <<>> \in Program /\ Len(<<>>) = 0
  BY PlainPrograms, EmptySeq DEF AloneInv, UnlockMutex
<1>2. PICK q, y, x : q = todo[t] /\ y = Arg(t, 2) /\ x = ObserversMutex(p)
  OBVIOUS
<1>3. q[1][1] = "unlock" /\ q[1][2] = y /\ y \in Mutexes
  BY <1>1, <1>2, FirstStatement, StatementSays
<1>4. /\ owner' = [owner EXCEPT ![y] = None]
      /\ UNCHANGED <<memory, history>>
  BY <1>2 DEF UnlockMutex
<1>5. heard'[n] = heard[n] /\ memory'[n] = memory[n] /\ passed'[n] = passed[n]
  BY <1>4 DEF history
<1>6. CASE y # x
  <2>1. owner'[x] = owner[x]
    BY <1>1, <1>3, <1>4, <1>6 DEF TypeInv
  <2>2. Role(n, p, q[1]) = "other"
    BY <1>2, <1>3, <1>6 DEF Role
  <2>3. /\ owner'[ObserversMutex(p)] = owner[ObserversMutex(p)]
        /\ Role(n, p, todo[t][1]) = "other"
    BY <1>2, <2>1, <2>2
  <2>4. \A i \in 1..Len(<<>>) :
          Role(n, p, <<>>[i]) = "other" /\ Deeper(n, depth, <<>>[i])
    BY <1>1
  <2> QED
    BY <1>1, <1>5, <2>3, <2>4, BesideAlone
<1>7. CASE y = x
  <2>1. Role(n, p, q[1]) = "unlock" /\ Word(n, q[1]) = "other" /\ q[1] # GiveGil
    BY <1>2, <1>3, <1>7, PlainWords DEF Role, Word
  <2>2. StepsTo(t, <<>>)
    BY <1>1, ContinueSteps
  <2>3. PICK r : r = todo'[t]
    OBVIOUS
  <2>4. Spliced(q, <<>>, r) /\ Len(q) \in Nat /\ 1 \in 1..Len(q)
    BY <1>2, <2>2, <2>3 DEF StepsTo, Spliced
  <2>5. LockPhase(n, p, q, owner[x] = t)
    BY <1>2 DEF AloneInv
  <2>6. ~Free(n, p, q)
    BY <2>1, <2>4 DEF Free
  <2>7. ~Asking(n, p, q)
    BY <1>1, <2>1, <2>4, AskingLocks
  <2>8. owner[x] = t /\ Owning(n, p, q)
    BY <2>5, <2>6, <2>7 DEF LockPhase
  <2>9. Free(n, p, r)
    BY <1>1, <2>1, <2>4, <2>8, OwningEnds
  <2>10. owner'[x] = None
    BY <1>1, <1>3, <1>4, <1>7 DEF TypeInv
  <2>11. ASSUME NEW s \in Threads PROVE LockPhase(n, p, todo'[s], owner'[x] = s)
    <3>1. CASE s = t
      BY <2>3, <2>9, <2>10, <3>1, NoneIsNoThread DEF LockPhase
    <3>2. CASE s # t
      <4>1. todo'[s] = todo[s] /\ owner[x] # s /\ owner'[x] # s
        BY <2>2, <2>8, <2>10, <3>2, NoneIsNoThread DEF StepsTo
      <4>2. LockPhase(n, p, todo[s], owner[x] = s)
        BY <1>2 DEF AloneInv
      <4> QED
        BY <4>1, <4>2 DEF LockPhase
    <3> QED
      BY <3>1, <3>2
  <2> QED
    BY <1>1, <1>2, <1>5, <2>1, <2>2, <2>11, StepBeside
<1> QED
  BY <1>6, <1>7

LEMMA PlainAlone ==
  ASSUME NEW n, NEW p, NEW depth, Fed(n, p, depth), AloneInv(n, p, depth), TypeInv',
         NEW t \in Threads,
         AcquireGil(t) \/ ReleaseGil(t) \/ Python(t) \/ ReleaseMessage(t)
           \/ StartThread(t) \/ AskToStop(t) \/ JoinThread(t)
  PROVE  AloneInv(n, p, depth)'
<1>1. PICK what, program :
        /\ program \in Seq({TakeGil, GiveGil})
        /\ At(t, what) /\ what \notin {"lock", "unlock", "signal", "receive", "update"}
        /\ Continue(t, program) /\ program \in Program
        /\ what = "give gil" => Len(program) = 0
  BY PlainSteps
<1>2. UNCHANGED <<owner, memory, history>>
  BY PlainSteps
<1>3. \A i \in 1..Len(program) :
        Role(n, p, program[i]) = "other" /\ Deeper(n, depth, program[i])
  <2> TAKE i \in 1..Len(program)
  <2>1. program[i] \in {TakeGil, GiveGil}
    BY <1>1, ElementOfSeq
  <2>2. program[i][1] \in {"take gil", "give gil"}
    BY <2>1, PlainWords
  <2> QED
    BY <2>2, OthersAre
<1>4. Role(n, p, todo[t][1]) = "other"
  <2>1. todo[t][1][1] = what
    BY <1>1, FirstStatement DEF AloneInv
  <2> QED
    BY <1>1, <2>1, OthersAre
<1> QED
  BY <1>1, <1>2, <1>3, <1>4, BesideAlone DEF history

\* The first statement of q is one of n's receive.
LEMMA AtWord ==
  ASSUME NEW n, NEW depth, NEW q, Len(q) \in Nat, Len(q) >= 1,
         NEW k, NEW w, Section(n, depth, q, k, w), Word(n, q[1]) # "other"
  PROVE  /\ k = 0 /\ w \in {1, 2, 3}
         /\ w = 3 <=> Word(n, q[1]) \in {"test", "signal"}
         /\ w = 2 <=> Word(n, q[1]) = "count"
         /\ w = 1 <=> Word(n, q[1]) = "wrap"
<1>1. k \in Nat /\ w \in {0, 1, 2, 3} /\ 1 \in 1..Len(q)
  BY DEF Section
<1>2. ~(1 <= k) /\ ~(1 > k + w)
  BY <1>1 DEF Section
<1>3. k = 0 /\ w > 0 /\ k + 1 = 1
  BY <1>1, <1>2
<1>4. /\ w = 1 => Word(n, q[1]) = "wrap"
      /\ w = 2 => Word(n, q[1]) = "count"
      /\ w = 3 => Word(n, q[1]) \in {"test", "signal"}
  BY <1>3, NextWord
<1> QED
  BY <1>1, <1>3, <1>4

LEMMA Between ==
  ASSUME NEW S, NEW a \in S, NEW b \in S, NEW body \in Seq(S)
  PROVE  LET program == <<a>> \o body \o <<b>>
             l == Len(program)
         IN  /\ Len(body) \in Nat
             /\ l = Len(body) + 2 /\ program[1] = a /\ program[l] = b
             /\ \A i \in 2..l - 1 : program[i] = body[i - 1]
<1>1. PICK first, last : first = <<a>> /\ last = <<b>>
  OBVIOUS
<1>2. /\ first \in Seq(S) /\ last \in Seq(S) /\ Len(first) = 1 /\ Len(last) = 1
      /\ first[1] = a /\ last[1] = b
  BY <1>1, ShortPrograms
<1>3. PICK k \in Nat : k = Len(body)
  BY LenProperties
<1>4. PICK some : some = first \o body
  OBVIOUS
<1>5. /\ some \in Seq(S) /\ Len(some) = 1 + k
      /\ \A i \in 1..(1 + k) : some[i] = IF i <= 1 THEN first[i] ELSE body[i - 1]
  <2>1. /\ first \o body \in Seq(S)
        /\ Len(first \o body) = Len(first) + Len(body)
        /\ \A i \in 1..Len(first) + Len(body) :
             (first \o body)[i] = IF i <= Len(first) THEN first[i] ELSE body[i - Len(first)]
    BY <1>2, ConcatProperties
  <2> QED
    BY <1>2, <1>3, <1>4, <2>1
<1>6. PICK program : program = some \o last
  OBVIOUS
<1>7. /\ Len(program) = 1 + k + 1
      /\ \A i \in 1..(1 + k + 1) : program[i] = IF i <= 1 + k THEN some[i] ELSE last[i - (1 + k)]
  <2>1. /\ Len(some \o last) = Len(some) + Len(last)
        /\ \A i \in 1..Len(some) + Len(last) :
             (some \o last)[i] = IF i <= Len(some) THEN some[i] ELSE last[i - Len(some)]
    BY <1>2, <1>5, ConcatProperties
  <2> QED
    BY <1>2, <1>5, <1>6, <2>1
<1>8. program[1] = a /\ program[1 + k + 1] = b /\ \A i \in 2..(1 + k) : program[i] = body[i - 1]
  BY <1>2, <1>3, <1>5, <1>7, SMTT(30)
<1>9. Len(program) - 1 = 1 + k /\ Len(program) = k + 2 /\ 1 + k + 1 = k + 2
  BY <1>7
<1>10. program = <<a>> \o body \o <<b>>
  BY <1>1, <1>4, <1>6
<1> QED
  BY <1>3, <1>8, <1>9, <1>10

\* p signals: the thread is going to lock the mutex.
LEMMA SignalAsks ==
  ASSUME NEW n, NEW p, NEW depth, Fed(n, p, depth), NEW m, NEW held,
         ObserversMutex(p) \notin held,
         NEW q, NEW r, Spliced(q, SignalBody(held, p, m), r), Free(n, p, q)
  PROVE  Asking(n, p, r)
<1> DEFINE x == ObserversMutex(p)
           S == SignalWordsOf(p, m)
           body == Receives(p, m)
           program == <<Lock(x)>> \o body \o <<Unlock(x)>>
           l == Len(program)
<1>1. p \in Nodes
  BY Depths
<1>2. SignalBody(held, p, m) = program
  BY DEF SignalBody, Receives, Guarded
<1>3. Lock(x) \in S /\ Unlock(x) \in S /\ body \in Seq(S)
  BY <1>1, ReceivesProgram DEF SignalWordsOf
<1>4. /\ Len(body) \in Nat
      /\ l = Len(body) + 2 /\ program[1] = Lock(x) /\ program[l] = Unlock(x)
      /\ \A i \in 2..l - 1 : program[i] = body[i - 1]
  <2> HIDE DEF x, S, body
  <2> QED
    BY <1>3, Between
<1>5. \A i \in 1..Len(body) : Role(n, p, body[i]) \in {"touch", "other"}
  <2> TAKE i \in 1..Len(body)
  <2>1. body \in Seq({Receive(o, m) : o \in Range(Observers[p])})
    BY <1>1, ReceivesProgram
  <2>2. body[i] \in {Receive(o, m) : o \in Range(Observers[p])}
    BY <2>1, ElementOfSeq
  <2> QED
    BY <2>2, CallsAre
<1> HIDE DEF body, program
<1>6. /\ Len(q) \in Nat /\ Len(q) >= 1 /\ Len(r) = l + Len(q) - 1
      /\ \A i \in 1..l : r[i] = program[i]
      /\ \A i \in 2..Len(q) : r[l + i - 1] = q[i]
  BY <1>2 DEF Spliced
<1>7. 1 \in 1..2 /\ l \in 1..Len(r) /\ 1 < l /\ 1 \in 1..l /\ l \in 1..l
  BY <1>4, <1>6
<1>8. Role(n, p, r[1]) = "lock" /\ Role(n, p, r[l]) = "unlock"
  <2>1. r[1] = Lock(x) /\ r[l] = Unlock(x)
    BY <1>4, <1>6, <1>7
  <2> QED
    BY <2>1, LocksAre
<1>9. ASSUME NEW i \in 1..Len(r), 1 < i, i < l
      PROVE  Role(n, p, r[i]) \in {"touch", "other"}
  <2>1. i \in 2..l - 1 /\ i \in 1..l /\ i - 1 \in 1..Len(body)
    BY <1>4, <1>9
  <2> QED
    BY <1>4, <1>5, <1>6, <2>1
<1>10. ASSUME NEW i \in 1..Len(r), i > l
       PROVE  Role(n, p, r[i]) = "other"
  <2> DEFINE j == i - l + 1
  <2>1. j \in 2..Len(q) /\ j \in 1..Len(q) /\ l + j - 1 = i
    BY <1>4, <1>6, <1>10
  <2> HIDE DEF j
  <2>2. r[i] = q[j]
    BY <1>6, <2>1
  <2> QED
    BY <2>1, <2>2 DEF Free
<1> HIDE DEF l
<1> QED
  BY <1>7, <1>8, <1>9, <1>10 DEF Asking

LEMMA SignalAlone ==
  ASSUME NEW n, NEW p, NEW depth, Fed(n, p, depth), AloneInv(n, p, depth), TypeInv',
         NEW t \in Threads, SignalMessage(t)
  PROVE  AloneInv(n, p, depth)'
<1>1. TypeInv /\ At(t, "signal")
  BY DEF AloneInv, SignalMessage
<1>2. PICK q, r, o, m, held, x :
        /\ q = todo[t] /\ r = todo'[t] /\ o = Arg(t, 2) /\ m = Arg(t, 3) /\ held = Held(t)
        /\ x = ObserversMutex(p)
  OBVIOUS
<1>3. PICK program : program = SignalBody(held, o, m)
  OBVIOUS
<1>4. /\ q[1][1] = "signal" /\ q[1][2] = o /\ o \in Nodes /\ m \in Messages
      /\ Len(q) \in Nat /\ Len(q) >= 1 /\ 1 \in 1..Len(q)
  <2>1. q # <<>> /\ q \in Seq(Statement) /\ q[1][1] = "signal" /\ q[1][2] = o
        /\ o \in Nodes /\ m \in Messages
    BY <1>1, <1>2, FirstStatement, StatementSays DEF Program
  <2>2. Len(q) \in Nat /\ Len(q) >= 1
    BY <2>1, EmptySeq, LenProperties
  <2> QED
    BY <2>1, <2>2
<1>5. program \in Seq(SignalWordsOf(o, m)) /\ program \in Program
  BY <1>3, <1>4, SignalProgram, WordsAreStatements, SmallerPrograms DEF Program
<1>6. /\ Continue(t, program)
      /\ passed' = IF Kind[o] = "every" THEN [passed EXCEPT ![o] = @ + 1] ELSE passed
      /\ owner' = owner /\ heard' = heard /\ memory' = memory
  BY <1>2, <1>3 DEF SignalMessage, locks
<1>7. StepsTo(t, program) /\ Spliced(q, program, r)
  BY <1>1, <1>2, <1>5, <1>6, ContinueSteps DEF StepsTo
<1>8. \A i \in 1..Len(program) :
        /\ Word(n, program[i]) = "other"
        /\ o # p => Role(n, p, program[i]) = "other"
        /\ depth[o] >= depth[n] => Deeper(n, depth, program[i])
  <2> TAKE i \in 1..Len(program)
  <2>1. program[i] \in SignalWordsOf(o, m)
    BY <1>5, ElementOfSeq
  <2> QED
    BY <1>4, <2>1, SignalWordsAre
<1>9. \A s \in Threads : LockPhase(n, p, todo[s], owner[x] = s)
  BY <1>2 DEF AloneInv
<1>10. Role(n, p, q[1]) = (IF o = n THEN "touch" ELSE "other") /\ q[1] # GiveGil
       /\ Word(n, q[1]) = (IF o = n THEN "signal" ELSE "other")
       /\ (Deeper(n, depth, q[1]) <=> depth[o] > depth[n])
  BY <1>4, PlainWords DEF Role, Word, Deeper
<1>11. CASE o = n
  <2>1. n # p /\ n \in Nodes /\ depth[n] \in Nat /\ Kind[n] = "every"
    BY Depths
  <2>2. owner[x] = t
    <3>1. LockPhase(n, p, q, owner[x] = t)
      BY <1>2, <1>9
    <3> QED
      BY <1>4, <1>10, <1>11, <3>1, CallerOwns
  <2>3. \A s \in Threads : LockPhase(n, p, todo'[s], owner'[x] = s)
    BY <1>2, <1>6, <1>7, <1>8, <1>9, <1>10, <1>11, <2>1, LocksKept
  <2>4. PICK h, c, a : h = heard[n] /\ c = memory[n] /\ a = passed[n]
    OBVIOUS
  <2>5. heard'[n] = h /\ memory'[n] = c /\ passed'[n] = a + 1
    BY <1>1, <1>6, <1>11, <2>1, <2>4 DEF TypeInv
  <2>6. PICK k \in Nat, w \in 0..3 :
          /\ Section(n, depth, q, k, w)
          /\ w > 0 => Phase(w, Word(n, q[k + 1]), h, c, a)
    BY <1>2, <2>4 DEF AloneInv, Pending
  <2>7. k = 0 /\ w = 3
    BY <1>4, <1>10, <1>11, <2>6, AtWord
  <2>8. Phase(3, "signal", h, c, a)
    BY <1>10, <1>11, <2>6, <2>7
  <2>9. PICK k1 \in Nat : Section(n, depth, r, k1, 2)
    <3>1. \A i \in 1..Len(program) : Word(n, program[i]) = "other" /\ Deeper(n, depth, program[i])
      BY <1>8, <1>11, <2>1
    <3>2. \E k1 \in Nat : Section(n, depth, r, k1, 3 - 1)
      BY <1>7, <2>6, <2>7, <3>1, SectionShrinks
    <3> QED
      BY <3>2
  <2>10. Pending(n, depth, r, h, c, a + 1)
    <3>1. Phase(2, Word(n, r[k1 + 1]), h, c, a + 1)
      BY <2>8, CountsSignal
    <3> QED
      BY <2>9, <3>1 DEF Pending
  <2>11. ~Rests(n, r)
    <3>1. Len(r) \in Nat
      BY <1>4, <1>7 DEF Spliced
    <3> QED
      BY <2>9, <3>1, NextWord
  <2> QED
    BY <1>2, <1>7, <2>2, <2>3, <2>5, <2>10, <2>11, StepInside
<1>12. CASE o # n
  <2>1. heard'[n] = heard[n] /\ memory'[n] = memory[n] /\ passed'[n] = passed[n]
    BY <1>1, <1>4, <1>6, <1>12, Depths DEF TypeInv
  <2>2. Deeper(n, depth, q[1]) => \A i \in 1..Len(program) : Deeper(n, depth, program[i])
    <3>1. depth[o] \in Nat /\ depth[n] \in Nat
      BY <1>4, Depths
    <3> QED
      BY <1>8, <1>10, <3>1
  <2>3. CASE o # p
    <3>1. \A s \in Threads : LockPhase(n, p, todo'[s], owner'[x] = s)
      BY <1>2, <1>6, <1>7, <1>8, <1>9, <1>10, <1>12, <2>3, LocksKept
    <3> QED
      BY <1>2, <1>7, <1>8, <1>10, <1>12, <2>1, <2>2, <3>1, StepBeside
  <2>4. CASE o = p /\ owner[x] = t
    <3>1. x \in held
      BY <1>2, <2>4, Depths, MutexesOf DEF Held
    <3>2. program = Receives(p, m)
      BY <1>2, <1>3, <2>4, <3>1 DEF SignalBody, Guarded, Receives
    <3>3. \A i \in 1..Len(program) : Role(n, p, program[i]) \in {"touch", "other"}
      <4> TAKE i \in 1..Len(program)
      <4>1. program[i] \in {Receive(e, m) : e \in Range(Observers[p])}
        <5>1. program \in Seq({Receive(e, m) : e \in Range(Observers[p])})
          BY <3>2, Depths, ReceivesProgram
        <5> QED
          BY <5>1, ElementOfSeq
      <4> QED
        BY <4>1, CallsAre, SMTT(30)
    <3>4. \A s \in Threads : LockPhase(n, p, todo'[s], owner'[x] = s)
      BY <1>2, <1>6, <1>7, <1>9, <1>10, <1>12, <2>4, <3>3, LocksKept
    <3> QED
      BY <1>2, <1>7, <1>8, <1>10, <1>12, <2>1, <2>2, <3>4, StepBeside
  <2>5. CASE o = p /\ owner[x] # t
    <3>1. x \notin held
      BY <1>2, <2>5 DEF Held
    <3>2. LockPhase(n, p, q, owner[x] = t)
      BY <1>2, <1>9
    <3>3. Free(n, p, q)
      <4>1. ~Asking(n, p, q)
        <5> SUFFICES ASSUME Asking(n, p, q) PROVE FALSE
          OBVIOUS
        <5>1. PICK l \in 1..2 : Role(n, p, q[l]) = "lock" /\ (l = 2 => q[1] = GiveGil)
          BY DEF Asking
        <5>2. l = 1
          BY <1>10, <5>1
        <5> QED
          BY <1>10, <5>1, <5>2
      <4> QED
        BY <2>5, <3>2, <4>1 DEF LockPhase
    <3>4. Asking(n, p, r)
      BY <1>2, <1>3, <1>7, <2>5, <3>1, <3>3, SignalAsks
    <3>5. ASSUME NEW s \in Threads PROVE LockPhase(n, p, todo'[s], owner'[x] = s)
      <4>1. CASE s = t
        BY <1>2, <1>6, <2>5, <3>4, <4>1 DEF LockPhase
      <4>2. CASE s # t
        <5>1. todo'[s] = todo[s] /\ owner'[x] = owner[x]
          BY <1>6, <1>7, <4>2 DEF StepsTo
        <5> QED
          BY <1>9, <5>1
      <4> QED
        BY <4>1, <4>2
    <3> QED
      BY <1>2, <1>7, <1>8, <1>10, <1>12, <2>1, <2>2, <3>5, StepBeside
  <2> QED
    BY <2>3, <2>4, <2>5
<1> QED
  BY <1>11, <1>12

LEMMA ReceiveAlone ==
  ASSUME NEW n, NEW p, NEW depth, Fed(n, p, depth), AloneInv(n, p, depth), TypeInv',
         NEW t \in Threads, ReceiveMessage(t)
  PROVE  AloneInv(n, p, depth)'
<1>1. TypeInv /\ At(t, "receive")
  BY DEF AloneInv, ReceiveMessage
<1>2. PICK q, r, o, m, held, holds, x :
        /\ q = todo[t] /\ r = todo'[t] /\ o = Arg(t, 2) /\ m = Arg(t, 3)
        /\ held = Held(t) /\ holds = (gil = t) /\ x = ObserversMutex(p)
  OBVIOUS
<1>3. /\ q[1][1] = "receive" /\ q[1][2] = o /\ o \in Nodes /\ m \in Messages
      /\ Len(q) \in Nat /\ Len(q) >= 1 /\ 1 \in 1..Len(q)
  <2>1. q # <<>> /\ q \in Seq(Statement) /\ q[1][1] = "receive" /\ q[1][2] = o
        /\ o \in Nodes /\ m \in Messages
    BY <1>1, <1>2, FirstStatement, StatementSays DEF Program
  <2>2. Len(q) \in Nat /\ Len(q) >= 1
    BY <2>1, EmptySeq, LenProperties
  <2> QED
    BY <2>1, <2>2
<1>4. PICK program \in Receipts(held, holds, o, m) : Continue(t, program)
  BY <1>2 DEF ReceiveMessage
<1>5. program \in Seq(ReceiptWordsOf(o, m)) /\ program \in Program
  BY <1>3, ReceiptPrograms, WordsAreStatements, SmallerPrograms DEF Program
<1>6. /\ heard' = IF Kind[o] = "every" THEN [heard EXCEPT ![o] = @ + 1] ELSE heard
      /\ owner' = owner /\ passed' = passed /\ memory' = memory
  BY <1>2 DEF ReceiveMessage, locks
<1>7. StepsTo(t, program) /\ Spliced(q, program, r)
  BY <1>1, <1>2, <1>4, <1>5, ContinueSteps DEF StepsTo
<1>8. Role(n, p, q[1]) = (IF o = n THEN "touch" ELSE "other") /\ q[1] # GiveGil
      /\ Word(n, q[1]) = "other"
      /\ (Deeper(n, depth, q[1]) <=> depth[o] > depth[n])
  BY <1>3, PlainWords DEF Role, Word, Deeper
<1>9. CASE o # n
  <2>1. heard'[n] = heard[n] /\ memory'[n] = memory[n] /\ passed'[n] = passed[n]
    BY <1>1, <1>3, <1>6, <1>9, Depths DEF TypeInv
  <2>2. depth[o] \in Nat /\ depth[n] \in Nat
    BY <1>3, Depths
  <2>3. \A i \in 1..Len(program) :
          /\ Role(n, p, program[i]) = "other"
          /\ depth[o] > depth[n] => Deeper(n, depth, program[i])
    <3> TAKE i \in 1..Len(program)
    <3>1. program[i] \in ReceiptWordsOf(o, m)
      BY <1>5, ElementOfSeq
    <3> QED
      BY <1>3, <1>9, <2>2, <3>1, ReceiptWordsAre
  <2>4. /\ owner'[ObserversMutex(p)] = owner[ObserversMutex(p)]
        /\ Role(n, p, todo[t][1]) = "other"
        /\ \A i \in 1..Len(program) : Role(n, p, program[i]) = "other"
        /\ Deeper(n, depth, todo[t][1]) => \A i \in 1..Len(program) : Deeper(n, depth, program[i])
        /\ "receive" = "give gil" => Len(program) = 0
    BY <1>2, <1>6, <1>8, <1>9, <2>3
  <2> QED
    BY <1>1, <1>4, <1>5, <2>1, <2>4, BesideAlone
<1>10. CASE o = n
  <2>1. n # p /\ n \in Nodes /\ depth[n] \in Nat /\ Kind[n] = "every"
    BY Depths
  <2>2. \A s \in Threads : LockPhase(n, p, todo[s], owner[x] = s)
    BY <1>2 DEF AloneInv
  <2>3. owner[x] = t
    <3>1. LockPhase(n, p, q, owner[x] = t)
      BY <1>2, <2>2
    <3> QED
      BY <1>3, <1>8, <1>10, <3>1, CallerOwns
  <2>4. /\ Len(program) = 3
        /\ program[1] = Update(n, "test", m)
        /\ program[2] = Update(n, "count", m)
        /\ program[3] = Update(n, "wrap", m)
    <3>1. Receipts(held, holds, o, m) = {EveryReceive(n, m)}
      BY <1>3, <1>10, <2>1, ReceiptPrograms
    <3>2. program = <<Update(n, "test", m), Update(n, "count", m), Update(n, "wrap", m)>>
      BY <3>1 DEF EveryReceive
    <3>3. PICK a, b, c : a = Update(n, "test", m) /\ b = Update(n, "count", m)
                         /\ c = Update(n, "wrap", m)
      OBVIOUS
    <3>4. program = <<a, b, c>>
      BY <3>2, <3>3
    <3> QED
      BY <3>3, <3>4
  <2>5. /\ Word(n, program[1]) = "test" /\ Word(n, program[2]) = "count"
        /\ Word(n, program[3]) = "wrap"
    BY <2>4, UpdatesAre, SMTT(30)
  <2>6. \A i \in 1..Len(program) : Role(n, p, program[i]) = "touch"
    <3> TAKE i \in 1..Len(program)
    <3>1. i \in {1, 2, 3}
      BY <2>4
    <3> QED
      BY <2>5, <3>1, RoleOfWord
  <2>7. \A s \in Threads : LockPhase(n, p, todo'[s], owner'[x] = s)
    BY <1>2, <1>6, <1>7, <1>8, <1>10, <2>2, <2>3, <2>6, LocksKept
  <2>8. PICK h, c, a : h = heard[n] /\ c = memory[n] /\ a = passed[n]
    OBVIOUS
  <2>9. heard'[n] = h + 1 /\ memory'[n] = c /\ passed'[n] = a
    BY <1>1, <1>6, <1>10, <2>1, <2>8 DEF TypeInv
  <2>10. Rests(n, q)
    <3>1. PICK k \in Nat, w \in 0..3 : Section(n, depth, q, k, w)
      BY <1>2 DEF AloneInv, Pending
    <3>2. w = 0
      <4> SUFFICES ASSUME w > 0 PROVE FALSE
        BY <3>1
      <4>1. ~Deeper(n, depth, q[1])
        BY <1>8, <1>10, <2>1
      <4>2. k = 0
        BY <1>3, <3>1, <4>1 DEF Section
      <4>3. Word(n, q[k + 1]) # "other"
        BY <1>3, <3>1, NextWord
      <4> QED
        BY <1>8, <4>2, <4>3
    <3> QED
      BY <1>3, <3>1, <3>2, NextWord
  <2>11. Counted(h, c, a)
    <3>1. ASSUME NEW s \in Threads PROVE Rests(n, todo[s])
      <4>1. CASE s = t
        BY <1>2, <2>10, <4>1
      <4>2. CASE s # t
        BY <1>2, <2>3, <4>2, OthersRest
      <4> QED
        BY <4>1, <4>2
    <3> QED
      BY <2>8, <3>1 DEF AloneInv
  <2>12. Section(n, depth, r, 0, 3) /\ r[1] = program[1]
    BY <1>7, <2>4, <2>5, <2>10, SectionStarts
  <2>13. Phase(3, Word(n, r[0 + 1]), h + 1, c, a)
    BY <2>5, <2>11, <2>12, CountsReceive
  <2>14. Pending(n, depth, r, h + 1, c, a)
    BY <2>12, <2>13 DEF Pending
  <2>15. ~Rests(n, r)
    <3>1. Len(r) \in Nat
      BY <1>3, <1>7, <2>4 DEF Spliced
    <3> QED
      BY <2>12, <3>1, NextWord
  <2> QED
    BY <1>2, <1>7, <2>3, <2>7, <2>9, <2>14, <2>15, StepInside
<1> QED
  BY <1>9, <1>10

LEMMA SignalBeside ==
  ASSUME NEW n, NEW p, NEW depth, NEW o, o # n, NEW m
  PROVE  /\ Role(n, p, Signal(o, m)) = "other"
         /\ depth[o] > depth[n] => Deeper(n, depth, Signal(o, m))
         /\ Role(n, p, Release(m)) = "other" /\ Deeper(n, depth, Release(m))
<1>1. Role(n, p, Signal(o, m)) = "other"
  BY CallsAre
<1>2. Deeper(n, depth, Signal(o, m)) <=> depth[o] > depth[n]
  BY CallsAre
<1>3. Release(m)[1] = "release"
  BY ReleaseWords
<1>4. Role(n, p, Release(m)) = "other" /\ Deeper(n, depth, Release(m))
  BY <1>3, OthersAre
<1> QED
  BY <1>1, <1>2, <1>4, Zenon

LEMMA AfterIs ==
  ASSUME NEW n, NEW was, NEW how, NEW m, NEW program, program = AfterUpdate(n, was, how, m)
  PROVE  \/ program = <<>>
         \/ \E m1, s : s \in {Signal(n, m1), Release(m1)} /\ program = <<s>>
<1>1. CASE program = <<>>
  BY <1>1
<1>2. CASE program # <<>>
  <2>1. CASE how = "test"
    <3>1. program = <<Signal(n, m)>>
      BY <1>2, <2>1 DEF AfterUpdate
    <3> QED
      BY <3>1, Zenon
  <2>2. CASE how = "remember"
    <3>1. program = <<Release(was)>>
      BY <1>2, <2>2 DEF AfterUpdate
    <3> QED
      BY <3>1, Zenon
  <2>3. CASE how = "send"
    <3>1. PICK m1 : m1 = Message(FALSE, was.cols, was.count)
      OBVIOUS
    <3>2. program = <<Signal(n, m1)>>
      BY <2>3, <3>1 DEF AfterUpdate
    <3> QED
      BY <3>2, Zenon
  <2>4. CASE how \notin {"test", "remember", "send"}
    BY <1>2, <2>4 DEF AfterUpdate
  <2> QED
    BY <2>1, <2>2, <2>3, <2>4
<1> QED
  BY <1>1, <1>2

\* What follows an update of another node is nothing to n.
LEMMA AfterUpdateBeside ==
  ASSUME NEW n, NEW p, NEW depth, NEW o, o # n, NEW was, NEW how, NEW m,
         NEW program, program = AfterUpdate(o, was, how, m)
  PROVE  \A i \in 1..Len(program) :
           /\ Role(n, p, program[i]) = "other"
           /\ depth[o] > depth[n] => Deeper(n, depth, program[i])
<1> TAKE i \in 1..Len(program)
<1>1. CASE program = <<>>
  BY <1>1
<1>2. CASE \E m1, s : s \in {Signal(o, m1), Release(m1)} /\ program = <<s>>
  <2>1. PICK m1, s : s \in {Signal(o, m1), Release(m1)} /\ program = <<s>>
    BY <1>2
  <2>2. Role(n, p, s) = "other" /\ (depth[o] > depth[n] => Deeper(n, depth, s))
    BY <2>1, SignalBeside
  <2>3. i = 1 /\ program[i] = s
    BY <2>1
  <2> QED
    BY <2>2, <2>3
<1> QED
  BY <1>1, <1>2, AfterIs

LEMMA UpdateAlone ==
  ASSUME NEW n, NEW p, NEW depth, Fed(n, p, depth), AloneInv(n, p, depth), TypeInv',
         NEW t \in Threads, UpdateMemory(t)
  PROVE  AloneInv(n, p, depth)'
<1>1. TypeInv /\ At(t, "update")
  BY DEF AloneInv, UpdateMemory
<1>2. PICK q, r, o, how, m, was, x :
        /\ q = todo[t] /\ r = todo'[t] /\ o = Arg(t, 2) /\ how = Arg(t, 3) /\ m = Arg(t, 4)
        /\ was = memory[o] /\ x = ObserversMutex(p)
  OBVIOUS
<1>3. PICK program : program = AfterUpdate(o, was, how, m)
  OBVIOUS
<1>4. /\ q[1][1] = "update" /\ q[1][2] = o /\ q[1][3] = how
      /\ o \in Nodes /\ m \in Messages
      /\ \/ Kind[o] = "every" /\ how \in {"test", "count", "wrap"}
         \/ Kind[o] = "last" /\ how = "remember"
         \/ Kind[o] = "buffer" /\ how \in {"add", "send", "chop"}
      /\ q # <<>> /\ q \in Seq(Statement)
  BY <1>1, <1>2, FirstStatement, StatementSays DEF Program
<1>5. Len(q) \in Nat /\ Len(q) >= 1 /\ 1 \in 1..Len(q)
  <2>1. Len(q) \in Nat /\ Len(q) >= 1
    BY <1>4, EmptySeq, LenProperties
  <2> QED
    BY <2>1
<1>6. program \in Program
  <2>1. was \in MemoryOf(Kind[o])
    BY <1>1, <1>2, <1>4 DEF TypeInv
  <2> QED
    BY <1>3, <1>4, <2>1, AfterUpdateOK
<1>7. /\ Continue(t, program)
      /\ memory' = [memory EXCEPT ![o] = Updated(was, how, m)]
      /\ owner' = owner /\ heard' = heard /\ passed' = passed
  BY <1>2, <1>3 DEF UpdateMemory, locks
<1>8. StepsTo(t, program) /\ Spliced(q, program, r)
  BY <1>1, <1>2, <1>6, <1>7, ContinueSteps DEF StepsTo
<1>9. Role(n, p, q[1]) = (IF o = n THEN "touch" ELSE "other") /\ q[1] # GiveGil
      /\ Word(n, q[1]) = (IF o = n THEN how ELSE "other")
      /\ (Deeper(n, depth, q[1]) <=> depth[o] > depth[n])
  BY <1>4, PlainWords DEF Role, Word, Deeper
<1>10. CASE o # n
  <2>1. heard'[n] = heard[n] /\ memory'[n] = memory[n] /\ passed'[n] = passed[n]
    BY <1>1, <1>4, <1>7, <1>10, Depths DEF TypeInv
  <2>2. \A i \in 1..Len(program) :
          /\ Role(n, p, program[i]) = "other"
          /\ depth[o] > depth[n] => Deeper(n, depth, program[i])
    BY <1>3, <1>10, AfterUpdateBeside
  <2>3. /\ owner'[ObserversMutex(p)] = owner[ObserversMutex(p)]
        /\ Role(n, p, todo[t][1]) = "other"
        /\ \A i \in 1..Len(program) : Role(n, p, program[i]) = "other"
        /\ Deeper(n, depth, todo[t][1]) => \A i \in 1..Len(program) : Deeper(n, depth, program[i])
        /\ "update" = "give gil" => Len(program) = 0
    BY <1>2, <1>7, <1>9, <1>10, <2>2
  <2> QED
    BY <1>1, <1>6, <1>7, <2>1, <2>3, BesideAlone
<1>11. CASE o = n
  <2>1. n # p /\ n \in Nodes /\ Kind[n] = "every" /\ how \in {"test", "count", "wrap"}
    BY <1>4, <1>11, Depths
  <2>2. \A s \in Threads : LockPhase(n, p, todo[s], owner[x] = s)
    BY <1>2 DEF AloneInv
  <2>3. owner[x] = t
    <3>1. LockPhase(n, p, q, owner[x] = t)
      BY <1>2, <2>2
    <3> QED
      BY <1>5, <1>9, <1>11, <3>1, CallerOwns
  <2>4. PICK h, c, a : h = heard[n] /\ c = memory[n] /\ a = passed[n]
    OBVIOUS
  <2>5. heard'[n] = h /\ memory'[n] = Updated(c, how, m) /\ passed'[n] = a
    BY <1>1, <1>2, <1>7, <1>11, <2>1, <2>4 DEF TypeInv
  <2>6. PICK k \in Nat, w \in 0..3 :
          /\ Section(n, depth, q, k, w)
          /\ w > 0 => Phase(w, Word(n, q[k + 1]), h, c, a)
    BY <1>2, <2>4 DEF AloneInv, Pending
  <2>7. k = 0 /\ w \in {1, 2, 3} /\ Phase(w, how, h, c, a)
        /\ (w = 3 <=> how = "test") /\ (w = 2 <=> how = "count") /\ (w = 1 <=> how = "wrap")
    <3>1. Word(n, q[1]) = how /\ how # "other" /\ how # "signal"
      BY <1>9, <1>11, <2>1
    <3>2. /\ k = 0 /\ w \in {1, 2, 3}
          /\ (w = 3 <=> how = "test") /\ (w = 2 <=> how = "count") /\ (w = 1 <=> how = "wrap")
      BY <1>5, <2>6, <3>1, AtWord
    <3> QED
      BY <2>6, <3>1, <3>2
  <2>8. Len(r) \in Nat
    BY <1>8 DEF Spliced
  <2>9. CASE how = "test" /\ c = 0
    <3>1. PICK y : y = Signal(n, m)
      OBVIOUS
    <3>2. program = <<y>>
      BY <1>2, <1>3, <1>11, <2>4, <2>9, <3>1 DEF AfterUpdate
    <3>3. Len(program) = 1 /\ program[1] = y
      BY <3>2
    <3>4. Word(n, y) = "signal" /\ Role(n, p, y) = "touch"
      BY <3>1, CallsAre
    <3>5. \A i \in 1..Len(program) : Role(n, p, program[i]) = "touch"
      BY <3>3, <3>4
    <3>6. Section(n, depth, r, 0, 3)
      BY <1>8, <2>6, <2>7, <2>9, <3>3, <3>4, SectionSignals
    <3>7. Phase(3, Word(n, r[0 + 1]), h, c, a)
      BY <2>7, <2>9, CountsTest
    <3>8. Pending(n, depth, r, h, c, a) /\ ~Rests(n, r)
      BY <2>8, <3>6, <3>7, NextWord DEF Pending
    <3>9. Updated(c, how, m) = c
      BY <2>9 DEF Updated
    <3>10. \A s \in Threads : LockPhase(n, p, todo'[s], owner'[x] = s)
      BY <1>2, <1>7, <1>8, <1>9, <1>11, <2>2, <2>3, <3>5, LocksKept
    <3> QED
      BY <1>2, <1>8, <2>3, <2>5, <3>8, <3>9, <3>10, StepInside
  <2>10. CASE ~(how = "test" /\ c = 0)
    <3>1. program = <<>>
      BY <1>2, <1>3, <1>11, <2>1, <2>4, <2>10 DEF AfterUpdate
    <3>2. Len(program) = 0 /\ \A i \in 1..Len(program) : Role(n, p, program[i]) = "other"
      BY <3>1, EmptySeq
    <3>3. \A s \in Threads : LockPhase(n, p, todo'[s], owner'[x] = s)
      BY <1>2, <1>7, <1>8, <1>9, <1>11, <2>2, <2>3, <3>2, LocksKept
    <3>4. PICK k1 \in Nat : Section(n, depth, r, k1, w - 1)
      BY <1>8, <2>6, <2>7, <3>2, SectionShrinks
    <3>5. PICK d : d = Updated(c, how, m)
      OBVIOUS
    <3>6. CASE how = "test"
      <4>1. d = c
        BY <3>5, <3>6 DEF Updated
      <4>2. Phase(2, Word(n, r[k1 + 1]), h, d, a)
        BY <2>7, <2>10, <3>6, <4>1, CountsTest
      <4>3. Section(n, depth, r, k1, 2)
        BY <2>7, <3>4, <3>6
      <4>4. Pending(n, depth, r, h, d, a) /\ ~Rests(n, r)
        BY <2>8, <4>2, <4>3, NextWord DEF Pending
      <4> QED
        BY <1>2, <1>8, <2>3, <2>5, <3>3, <3>5, <4>4, StepInside
    <3>7. CASE how = "count"
      <4>1. d = c + 1
        BY <3>5, <3>7 DEF Updated
      <4>2. Phase(1, Word(n, r[k1 + 1]), h, d, a)
        BY <2>7, <3>7, <4>1, CountsCount
      <4>3. Section(n, depth, r, k1, 1)
        BY <2>7, <3>4, <3>7
      <4>4. Pending(n, depth, r, h, d, a) /\ ~Rests(n, r)
        BY <2>8, <4>2, <4>3, NextWord DEF Pending
      <4> QED
        BY <1>2, <1>8, <2>3, <2>5, <3>3, <3>5, <4>4, StepInside
    <3>8. CASE how = "wrap"
      <4>1. d = Wrapped(c)
        BY <3>5, <3>8 DEF Updated
      <4>2. Counted(h, d, a)
        BY <2>7, <3>8, <4>1, CountsWrap
      <4>3. Section(n, depth, r, k1, 0)
        BY <2>7, <3>4, <3>8
      <4>4. Pending(n, depth, r, h, d, a)
        BY <4>3 DEF Pending
      <4> QED
        BY <1>2, <1>8, <2>3, <2>5, <3>3, <3>5, <4>2, <4>4, StepInside
    <3> QED
      BY <2>1, <3>6, <3>7, <3>8
  <2> QED
    BY <2>9, <2>10
<1> QED
  BY <1>10, <1>11

-----------------------------------------------------------------------------
(* What starts a thread's work: a trigger, and a call of a binding.        *)

\* Nothing waits in a thread that has nothing to do.
LEMMA StartAlone ==
  ASSUME NEW n, NEW p, NEW depth, Fed(n, p, depth), AloneInv(n, p, depth), TypeInv',
         NEW t \in Threads, todo[t] = <<>>, NEW program \in Program,
         todo' = [todo EXCEPT ![t] = program],
         UNCHANGED <<owner, memory, heard, passed>>,
         Free(n, p, program) \/ Asking(n, p, program),
         Rests(n, program)
  PROVE  AloneInv(n, p, depth)'
<1>1. todo'[t] = program /\ \A s \in Threads \ {t} : todo'[s] = todo[s]
  BY DEF AloneInv, TypeInv
<1>2. Len(<<>>) = 0 /\ Len(program) \in Nat
  BY EmptySeq, LenProperties DEF Program
<1>3. ASSUME NEW s \in Threads
      PROVE  LockPhase(n, p, todo'[s], owner'[ObserversMutex(p)] = s)
  <2>1. LockPhase(n, p, todo[s], owner[ObserversMutex(p)] = s)
    BY DEF AloneInv
  <2>2. CASE s = t
    <3>1. ~Owning(n, p, <<>>)
      BY <1>2 DEF Owning
    <3>2. owner[ObserversMutex(p)] # t
      BY <2>1, <2>2, <3>1 DEF LockPhase
    <3> QED
      BY <1>1, <2>2, <3>2 DEF LockPhase
  <2>3. CASE s # t
    <3>1. todo'[s] = todo[s]
      BY <1>1, <2>3
    <3> QED
      BY <2>1, <3>1
  <2> QED
    BY <2>2, <2>3
<1>4. PICK h, c, a : /\ h = heard[n] /\ c = memory[n] /\ a = passed[n]
                     /\ h = heard'[n] /\ c = memory'[n] /\ a = passed'[n]
  OBVIOUS
<1>5. ASSUME NEW s \in Threads PROVE Pending(n, depth, todo'[s], h, c, a)
  <2>1. CASE s = t
    BY <1>1, <1>2, <2>1, RestingIsPending
  <2>2. CASE s # t
    BY <1>1, <1>4, <2>2 DEF AloneInv
  <2> QED
    BY <2>1, <2>2
<1>6. (\A s \in Threads : Rests(n, todo'[s])) => Counted(h, c, a)
  <2> SUFFICES ASSUME \A s \in Threads : Rests(n, todo'[s]) PROVE Counted(h, c, a)
    OBVIOUS
  <2>1. ASSUME NEW s \in Threads PROVE Rests(n, todo[s])
    <3>1. CASE s = t
      BY <1>2, <3>1 DEF Rests
    <3>2. CASE s # t
      BY <1>1, <3>2
    <3> QED
      BY <3>1, <3>2
  <2> QED
    BY <1>4, <2>1 DEF AloneInv
<1> QED
  BY <1>3, <1>4, <1>5, <1>6 DEF AloneInv

LEMMA SingleIsFree ==
  ASSUME NEW n, NEW p, NEW s, Role(n, p, s) = "other"
  PROVE  Free(n, p, <<s>>) /\ Rests(n, <<s>>)
<1>1. Word(n, s) = "other"
  <2>1. Word(n, s) # "other" => Role(n, p, s) = "touch"
    BY RoleOfWord
  <2> QED
    BY <2>1
<1>2. \A i \in 1..Len(<<s>>) : <<s>>[i] = s
  OBVIOUS
<1> QED
  BY <1>1, <1>2 DEF Free, Rests

LEMMA WordsFree ==
  ASSUME NEW n, NEW p, NEW S, NEW program \in Seq(S), \A s \in S : Role(n, p, s) = "other"
  PROVE  Free(n, p, program) /\ Rests(n, program)
<1>1. \A i \in 1..Len(program) : Role(n, p, program[i]) = "other"
  BY ElementOfSeq
<1>2. \A s : Role(n, p, s) = "other" => Word(n, s) = "other"
  <2> TAKE s
  <2>1. Word(n, s) # "other" => Role(n, p, s) = "touch"
    BY RoleOfWord
  <2> QED
    BY <2>1
<1> QED
  BY <1>1, <1>2 DEF Free, Rests

\* connect and has_observers lock the mutex, with the GIL or without.
LEMMA LockingBinding ==
  ASSUME NEW n, NEW p, NEW program,
         LET pair == <<Lock(ObserversMutex(p)), Unlock(ObserversMutex(p))>>
         IN  program \in {pair, WithoutGil(pair)}
  PROVE  Asking(n, p, program) /\ Rests(n, program)
<1>1. PICK a, b, body : /\ a = Lock(ObserversMutex(p)) /\ b = Unlock(ObserversMutex(p))
                        /\ body = <<a, b>>
  OBVIOUS
<1>2. /\ Role(n, p, a) = "lock" /\ Word(n, a) = "other"
      /\ Role(n, p, b) = "unlock" /\ Word(n, b) = "other"
  BY <1>1, LocksAre
<1>3. Len(body) = 2 /\ body[1] = a /\ body[2] = b
  BY <1>1
<1>4. CASE program = body
  <2>0. Len(program) = 2 /\ program[1] = a /\ program[2] = b
    BY <1>3, <1>4
  <2>1. Rests(n, program)
    <3>1. \A i \in 1..Len(program) : i = 1 \/ i = 2
      BY <2>0
    <3> QED
      BY <1>2, <2>0, <3>1 DEF Rests
  <2>2. /\ 1 \in 1..2 /\ 2 \in 1..Len(program) /\ 1 < 2
        /\ \A i \in 1..Len(program) : ~(i > 2) /\ ~(1 < i /\ i < 2)
    BY <2>0
  <2>3. Asking(n, p, program)
    BY <1>2, <2>0, <2>2 DEF Asking
  <2> QED
    BY <2>1, <2>3
<1>5. CASE program = WithoutGil(body)
  <2>1. Role(n, p, TakeGil) = "other" /\ Word(n, TakeGil) = "other" /\ Word(n, GiveGil) = "other"
    BY PlainWords, OthersAre
  <2>2. /\ Len(program) = 4 /\ program[1] = GiveGil /\ program[4] = TakeGil
        /\ program[2] = a /\ program[3] = b
    <3>1. PICK g, h, S : g = GiveGil /\ h = TakeGil /\ S = {a, b, g, h}
      OBVIOUS
    <3>2. a \in S /\ b \in S /\ g \in S /\ h \in S
      BY <3>1
    <3>3. body \in Seq(S)
      <4>1. <<a, b>> \in Seq(S)
        BY <3>2, ShortPrograms
      <4> QED
        BY <1>1, <4>1
    <3>4. program = <<g>> \o body \o <<h>>
      BY <1>5, <3>1 DEF WithoutGil
    <3>5. /\ Len(program) = Len(body) + 2 /\ program[1] = g /\ program[Len(program)] = h
          /\ \A i \in 2..Len(program) - 1 : program[i] = body[i - 1]
      <4>1. LET whole == <<g>> \o body \o <<h>>
                l == Len(whole)
            IN  /\ l = Len(body) + 2 /\ whole[1] = g /\ whole[l] = h
                /\ \A i \in 2..l - 1 : whole[i] = body[i - 1]
        BY <3>2, <3>3, Between
      <4> QED
        BY <3>4, <4>1
    <3>6. 2 \in 2..Len(program) - 1 /\ 3 \in 2..Len(program) - 1 /\ Len(program) = 4
      BY <1>3, <3>5
    <3>7. program[2] = body[2 - 1] /\ program[3] = body[3 - 1]
      BY <3>5, <3>6
    <3> QED
      BY <1>3, <3>1, <3>5, <3>6, <3>7
  <2>3. \A i \in 1..Len(program) : i \in {1, 2, 3, 4}
    BY <2>2
  <2>4. Rests(n, program)
    BY <1>2, <2>1, <2>2, <2>3 DEF Rests
  <2>5. /\ 2 \in 1..2 /\ 3 \in 1..Len(program) /\ 2 < 3
        /\ \A i \in 1..Len(program) : (i > 3 => i = 4) /\ ~(2 < i /\ i < 3)
    BY <2>2
  <2>6. Asking(n, p, program)
    BY <1>2, <2>1, <2>2, <2>5 DEF Asking
  <2> QED
    BY <2>4, <2>6
<1> QED
  BY <1>1, <1>4, <1>5

\* The program calls n by none of its bindings.
LEMMA BindingBeside ==
  ASSUME NEW n, NEW p, NEW depth, Fed(n, p, depth), NEW c \in Calls, NEW m \in Messages,
         NEW program, program = Binding(c[1], c[2], m)
  PROVE  (Free(n, p, program) \/ Asking(n, p, program)) /\ Rests(n, program)
<1>1. PICK call, o : call = c[1] /\ o = c[2]
  OBVIOUS
<1>2. call \in CallNames /\ o \in Nodes /\ (call = "chop" => Kind[o] = "buffer")
  BY <1>1, CallsOf
<1>3. /\ call \in Sends => o # n
      /\ call = "chop" => o # n
  <2>1. call \in Sends => o # n
    BY <1>1 DEF Fed, OnlyThrough
  <2>2. Kind[n] = "every"
    BY DEF Fed
  <2> QED
    BY <1>2, <2>1, <2>2
<1>4. program = Binding(call, o, m) /\ program \in Seq(BindingWordsOf(call, o, m))
  BY <1>1, <1>2, BindingPrograms
<1>5. CASE call \in {"connect", "has_observers", ">"} /\ o = p
  <2>1. LET pair == <<Lock(ObserversMutex(p)), Unlock(ObserversMutex(p))>>
        IN  program \in {pair, WithoutGil(pair)}
    BY <1>4, <1>5 DEF Binding
  <2> QED
    BY <2>1, LockingBinding
<1>6. CASE ~(call \in {"connect", "has_observers", ">"} /\ o = p)
  <2>1. ASSUME NEW s \in BindingWordsOf(call, o, m)
        PROVE  Role(n, p, s) = "other"
    <3>1. CASE s = GiveGil \/ s = TakeGil
      BY <3>1, PlainWords, OthersAre
    <3>2. CASE call \in Sends /\ s \notin {GiveGil, TakeGil}
      <4>1. s \in {Signal(o, FromPython(m)), Receive(o, FromPython(m))}
        BY <2>1, <3>2 DEF BindingWordsOf, Sends
      <4> QED
        BY <1>3, <3>2, <4>1, CallsAre
    <3>3. CASE call \in {"connect", "has_observers", ">"} /\ s \notin {GiveGil, TakeGil}
      <4>1. s \in {Lock(ObserversMutex(o)), Unlock(ObserversMutex(o))} /\ o # p
        BY <1>6, <2>1, <3>3 DEF BindingWordsOf
      <4>2. PICK x : x = ObserversMutex(o)
        OBVIOUS
      <4>3. x # ObserversMutex(p)
        BY <4>1, <4>2, MutexNames
      <4>4. Role(n, p, Lock(x)) = "other" /\ Role(n, p, Unlock(x)) = "other"
        BY <4>3, LocksAre
      <4> QED
        BY <4>1, <4>2, <4>4
    <3>4. CASE call \in {"last_message", "chop"} /\ s \notin {GiveGil, TakeGil}
      <4>1. \/ s \in {Lock(OwnMutex(o)), Unlock(OwnMutex(o))}
            \/ s = Update(o, "chop", m) /\ o # n
        BY <1>3, <2>1, <3>4 DEF BindingWordsOf
      <4>2. PICK x : x = OwnMutex(o)
        OBVIOUS
      <4>3. x # ObserversMutex(p)
        BY <4>2, MutexNames
      <4>4. Role(n, p, Lock(x)) = "other" /\ Role(n, p, Unlock(x)) = "other"
        BY <4>3, LocksAre
      <4>5. o # n => Role(n, p, Update(o, "chop", m)) = "other"
        BY UpdatesAre DEF Update
      <4> QED
        BY <4>1, <4>2, <4>4, <4>5
    <3>5. CASE call \in {"start", "stop"} /\ s \notin {GiveGil, TakeGil}
      <4>1. s \in {Start(o), RequestStop(o), Join(o)}
        BY <2>1, <3>5 DEF BindingWordsOf
      <4>2. s[1] \in {"start", "request stop", "join"}
        BY <4>1, ThreadWords
      <4> QED
        BY <4>2, OthersAre
    <3> QED
      BY <1>2, <3>1, <3>2, <3>3, <3>4, <3>5 DEF CallNames
  <2> QED
    BY <1>4, <2>1, WordsFree
<1> QED
  BY <1>5, <1>6

-----------------------------------------------------------------------------
(* The invariant, and the theorem.                                         *)

LEMMA InitAlone ==
  ASSUME NEW n, NEW p, NEW depth, Fed(n, p, depth), Init
  PROVE  AloneInv(n, p, depth)
<1>1. n \in Nodes /\ p \in Nodes /\ Kind[n] = "every"
  BY Depths
<1>2. Len(<<>>) = 0
  BY EmptySeq
<1>3. ASSUME NEW t \in Threads
      PROVE  /\ LockPhase(n, p, todo[t], owner[ObserversMutex(p)] = t)
             /\ Pending(n, depth, todo[t], heard[n], memory[n], passed[n])
  <2>1. todo[t] = <<>> /\ owner[ObserversMutex(p)] = None
    BY <1>1, MutexesOf DEF Init
  <2>2. LockPhase(n, p, todo[t], owner[ObserversMutex(p)] = t)
    BY <1>2, <2>1, NoneIsNoThread DEF LockPhase, Free
  <2>3. Rests(n, <<>>)
    BY <1>2 DEF Rests
  <2>4. Pending(n, depth, <<>>, heard[n], memory[n], passed[n])
    BY <1>2, <2>3, RestingIsPending
  <2> QED
    BY <2>1, <2>2, <2>4
<1>4. Counted(heard[n], memory[n], passed[n])
  <2>1. heard[n] = 0 /\ memory[n] = 0 /\ passed[n] = 0
    BY <1>1 DEF Init, InitialMemory
  <2>2. 0 = 0 * Nth + 0 /\ 0 \in 0..(Nth - 1)
    BY Sizes
  <2> QED
    BY <2>1, <2>2 DEF Counted
<1> QED
  BY <1>3, <1>4, InitTyped DEF AloneInv

LEMMA NextAlone ==
  ASSUME NEW n, NEW p, NEW depth, Fed(n, p, depth), AloneInv(n, p, depth), [Next]_vars
  PROVE  AloneInv(n, p, depth)'
<1>1. TypeInv /\ TypeInv'
  BY NextTyped DEF AloneInv
<1>2. CASE \E t \in Threads : Execute(t)
  BY <1>1, <1>2, LockAlone, UnlockAlone, PlainAlone, SignalAlone, ReceiveAlone, UpdateAlone
  DEF Execute
<1>3. ASSUME NEW g \in Runnable, Trigger(g) PROVE AloneInv(n, p, depth)'
  <2>1. made' \in Nat /\ made' = made + 1
    BY <1>1, <1>3 DEF TypeInv, Trigger
  <2>2. PICK k, s : k \in Nat /\ k = made' /\ s = Signal(g, NewMessage(k))
    BY <2>1
  <2>3. g \in Nodes /\ g \in Threads /\ g # n
    BY Depths, InterpreterAssumption DEF Threads
  <2>4. s \in Statement /\ Role(n, p, s) = "other"
    <3>1. PICK m : m = NewMessage(k) /\ m \in Messages
      BY <2>2, NewMessageOK
    <3>2. Signal(g, m) \in Statement
      BY <2>3, <3>1, StatementsOf
    <3>3. Role(n, p, Signal(g, m)) = "other"
      BY <2>3, CallsAre
    <3> QED
      BY <2>2, <3>1, <3>2, <3>3
  <2>5. <<s>> \in Program
    BY <2>4, ShortPrograms DEF Program
  <2>6. Free(n, p, <<s>>) /\ Rests(n, <<s>>)
    BY <2>4, SingleIsFree
  <2>7. /\ todo[g] = <<>> /\ todo' = [todo EXCEPT ![g] = <<s>>]
        /\ UNCHANGED <<owner, memory, heard, passed>>
    BY <1>3, <2>2 DEF Trigger, locks, history
  <2> QED
    BY <1>1, <2>3, <2>5, <2>6, <2>7, StartAlone
<1>4. CASE Call
  <2>1. PICK c \in Calls :
          /\ made' = IF c[1] \in Sends THEN made + 1 ELSE made
          /\ todo' = [todo EXCEPT ![Main] = Binding(c[1], c[2], NewMessage(made'))]
    BY <1>4 DEF Call
  <2>2. PICK k, m, program :
          k \in Nat /\ k = made' /\ m = NewMessage(k) /\ program = Binding(c[1], c[2], m)
    BY <1>1 DEF TypeInv
  <2>3. m \in Messages
    BY <2>2, NewMessageOK
  <2>4. program \in Program
    BY <2>2, <2>3, BindingOK
  <2>5. (Free(n, p, program) \/ Asking(n, p, program)) /\ Rests(n, program)
    BY <2>2, <2>3, BindingBeside
  <2>6. /\ todo[Main] = <<>> /\ todo' = [todo EXCEPT ![Main] = program]
        /\ owner' = owner /\ memory' = memory /\ heard' = heard /\ passed' = passed
    BY <1>4, <2>1, <2>2 DEF Call, locks, history
  <2>7. Main \in Threads
    BY DEF Threads
  <2> QED
    BY <1>1, <2>4, <2>5, <2>6, <2>7, StartAlone
<1>5. CASE Pause
  <2>1. Role(n, p, RunPython) = "other" /\ <<RunPython>> \in Program /\ Main \in Threads
    <3>1. Role(n, p, RunPython) = "other"
      BY PlainWords, OthersAre
    <3>2. RunPython \in Statement
      BY OtherStatements
    <3>3. <<RunPython>> \in Seq(Statement)
      BY <3>2, ShortPrograms
    <3> QED
      BY <3>1, <3>3 DEF Program, Threads
  <2>2. Free(n, p, <<RunPython>>) /\ Rests(n, <<RunPython>>)
    BY <2>1, SingleIsFree
  <2>3. /\ todo[Main] = <<>> /\ todo' = [todo EXCEPT ![Main] = <<RunPython>>]
        /\ UNCHANGED <<owner, memory, heard, passed>>
    BY <1>5 DEF Pause, locks, history
  <2> QED
    BY <1>1, <2>1, <2>2, <2>3, StartAlone
<1>6. CASE UNCHANGED <<todo, owner, memory, heard, passed>>
  BY <1>1, <1>6 DEF AloneInv
<1>7. (\E g \in Runnable : LoopEnds(g)) \/ UNCHANGED vars
        => UNCHANGED <<todo, owner, memory, heard, passed>>
  BY DEF LoopEnds, vars, locks, history
<1> QED
  BY <1>2, <1>3, <1>4, <1>5, <1>6, <1>7 DEF Next

\* When no thread is inside n, none is anywhere in its receive.
LEMMA AloneCounts ==
  ASSUME NEW n, NEW p, NEW depth, Fed(n, p, depth), AloneInv(n, p, depth), ~Inside(n)
  PROVE  passed[n] = (heard[n] + Nth - 1) \div Nth
<1>1. ASSUME NEW t \in Threads PROVE Rests(n, todo[t])
  <2>1. PICK q : q = todo[t]
    OBVIOUS
  <2>2. Len(q) \in Nat /\ DOMAIN q = 1..Len(q)
    BY <2>1, LenProperties DEF AloneInv, TypeInv, Program
  <2>3. PICK k \in Nat, w \in 0..3 : Section(n, depth, q, k, w)
    BY <2>1 DEF AloneInv, Pending
  <2>4. w = 0
    <3> SUFFICES ASSUME w >= 1 PROVE FALSE
      BY <2>3
    <3>1. k + w \in 1..Len(q) /\ Word(n, q[k + w]) = "wrap"
      BY <2>2, <2>3 DEF Section
    <3>2. q[k + w][1] = "update" /\ q[k + w][2] = n
      BY <3>1 DEF Word
    <3> QED
      BY <2>1, <2>2, <3>1, <3>2 DEF Inside
  <2> QED
    BY <2>1, <2>2, <2>3, <2>4, NextWord
<1>2. Counted(heard[n], memory[n], passed[n])
  BY <1>1 DEF AloneInv
<1> QED
  BY <1>2, CountedDivides

\* EveryNthIsSignalled, in a graph without cycles in which every EveryN
\* observes one node and the program sends it nothing: all its calls come under
\* one mutex, and so count, which has no lock of its own, is right.
THEOREM SignalsEveryNth ==
  ASSUME NEW depth, LeadsDown(depth),
         \A n \in Nodes : Kind[n] = "every" => \E p \in Nodes : OnlyThrough(n, p)
  PROVE  Spec => []EveryNthIsSignalled
<1> DEFINE Counts(n) == ~Inside(n) => passed[n] = (heard[n] + Nth - 1) \div Nth
<1>1. ASSUME NEW n \in Of("every")
      PROVE  Spec => []Counts(n)
  <2>1. PICK p : Fed(n, p, depth)
    BY DEF Fed, Of
  <2>2. Init => AloneInv(n, p, depth)
    BY <2>1, InitAlone
  <2>3. AloneInv(n, p, depth) /\ [Next]_vars => AloneInv(n, p, depth)'
    BY <2>1, NextAlone
  <2>4. AloneInv(n, p, depth) => Counts(n)
    BY <2>1, AloneCounts
  <2> QED
    BY <2>2, <2>3, <2>4, PTL DEF Spec
<1>2. Spec => \A n \in Of("every") : []Counts(n)
  BY <1>1
<1>3. (\A n \in Of("every") : []Counts(n)) <=> [](\A n \in Of("every") : Counts(n))
  OBVIOUS
<1>4. (\A n \in Of("every") : Counts(n)) => EveryNthIsSignalled
  BY DEF EveryNthIsSignalled, Of
<1> QED
  BY <1>2, <1>3, <1>4, PTL

-----------------------------------------------------------------------------
(* Snapshots.  A TensorRightBuffer b locks its own mutex, adds to what it  *)
(* holds and signals that, with its count, before it unlocks; the last     *)
(* node n observes b alone and remembers what it is called with.           *)

\* What a statement is to the buffer b and to n, which remembers its snapshots.
Sense(n, b, s) ==
  IF s[1] \in {"lock", "unlock"} /\ s[2] = OwnMutex(b) THEN s[1]
  ELSE IF s[1] = "receive" /\ s[2] = b THEN "receive"
  ELSE IF s[1] = "update" /\ s[2] = b THEN s[3]
  ELSE IF s[1] = "signal" /\ s[2] = b THEN "snapshot"
  ELSE IF s[1] \in {"receive", "update"} /\ s[2] = n THEN "snapshot"
  ELSE "other"

\* the count of the message that s is about
CountIn(s) == IF s[1] = "update" THEN s[4].count ELSE s[3].count

\* s may be executed without the mutex of b.
Outside(n, b, s) == Sense(n, b, s) \in {"other", "receive"}

\* s may be executed under the mutex of b, when the snapshots under way have
\* one of the counts in X.
Within(n, b, depth, X, s) ==
  /\ Sense(n, b, s) \in {"other", "send", "chop", "snapshot"}
  /\ Sense(n, b, s) = "snapshot" => CountIn(s) \in X
  /\ Sense(n, b, s) = "other" /\ s[1] \in {"signal", "receive", "update"}
       => depth[s[2]] > depth[b]

AtRest(n, b, q) == \A i \in 1..Len(q) : Outside(n, b, q[i])

\* The thread holds the mutex of b, and has snapshots with the counts in X.
Holding(n, b, depth, X, q) ==
  \E u \in 1..Len(q) :
    /\ Sense(n, b, q[u]) = "unlock"
    /\ \A i \in 1..Len(q) : i < u => Within(n, b, depth, X, q[i])
    /\ \A i \in 1..Len(q) : i > u => Outside(n, b, q[i])

\* It has no snapshot yet.
Fresh(n, b, depth, q) ==
  \/ Holding(n, b, depth, {}, q)
  \/ q # <<>> /\ Sense(n, b, q[1]) = "add" /\ Holding(n, b, depth, {}, Tail(q))

Carries(n, b, depth, q, own, c) ==
  IF own THEN Holding(n, b, depth, {c}, q) \/ Fresh(n, b, depth, q)
  ELSE AtRest(n, b, q) \/ (q # <<>> /\ Sense(n, b, q[1]) = "lock" /\ Fresh(n, b, depth, Tail(q)))

LEMMA CallSenses ==
  ASSUME NEW n, NEW b, NEW o, NEW m
  PROVE  /\ Sense(n, b, Signal(o, m)) = IF o = b THEN "snapshot" ELSE "other"
         /\ Sense(n, b, Receive(o, m)) =
              IF o = b THEN "receive" ELSE IF o = n THEN "snapshot" ELSE "other"
         /\ Outside(n, b, Signal(o, m)) <=> o # b
         /\ Outside(n, b, Receive(o, m)) <=> o = b \/ o # n
<1>1. PICK s, r : s = Signal(o, m) /\ r = Receive(o, m)
  OBVIOUS
<1>2. s[1] = "signal" /\ s[2] = o /\ r[1] = "receive" /\ r[2] = o
  BY <1>1, SignalWords
<1>3. /\ Sense(n, b, s) = IF o = b THEN "snapshot" ELSE "other"
      /\ Sense(n, b, r) = IF o = b THEN "receive" ELSE IF o = n THEN "snapshot" ELSE "other"
  BY <1>2 DEF Sense
<1>4. (Outside(n, b, s) <=> o # b) /\ (Outside(n, b, r) <=> o = b \/ o # n)
  BY <1>3 DEF Outside
<1> QED
  BY <1>1, <1>3, <1>4

LEMMA CallsWithin ==
  ASSUME NEW n, NEW b, NEW depth, NEW X, NEW o, NEW m
  PROVE  /\ Within(n, b, depth, X, Signal(o, m)) <=>
              IF o = b THEN m.count \in X ELSE depth[o] > depth[b]
         /\ Within(n, b, depth, X, Receive(o, m)) <=>
              o # b /\ IF o = n THEN m.count \in X ELSE depth[o] > depth[b]
<1>1. PICK s, r : s = Signal(o, m) /\ r = Receive(o, m)
  OBVIOUS
<1>2. s[1] = "signal" /\ s[2] = o /\ s[3] = m /\ r[1] = "receive" /\ r[2] = o /\ r[3] = m
  BY <1>1, SignalWords
<1>3. /\ Sense(n, b, s) = IF o = b THEN "snapshot" ELSE "other"
      /\ Sense(n, b, r) = IF o = b THEN "receive" ELSE IF o = n THEN "snapshot" ELSE "other"
  BY <1>1, CallSenses
<1>4. CountIn(s) = m.count /\ CountIn(r) = m.count
  BY <1>2 DEF CountIn
<1>5. Within(n, b, depth, X, s) <=> IF o = b THEN m.count \in X ELSE depth[o] > depth[b]
  BY <1>2, <1>3, <1>4 DEF Within
<1>6. Within(n, b, depth, X, r) <=>
        o # b /\ IF o = n THEN m.count \in X ELSE depth[o] > depth[b]
  BY <1>2, <1>3, <1>4 DEF Within
<1> QED
  BY <1>1, <1>5, <1>6

Updates == {"test", "count", "wrap", "remember", "add", "send", "chop"}

LEMMA UpdateSenses ==
  ASSUME NEW n, NEW b, NEW o, NEW m, NEW how, how \in Updates
  PROVE  /\ Sense(n, b, Update(o, how, m)) =
              IF o = b THEN how ELSE IF o = n THEN "snapshot" ELSE "other"
         /\ Outside(n, b, Update(o, how, m)) <=> o # b /\ o # n
<1>1. PICK s : s = Update(o, how, m)
  OBVIOUS
<1>2. s[1] = "update" /\ s[2] = o /\ s[3] = how
  BY <1>1, UpdateWords
<1>3. Sense(n, b, s) = IF o = b THEN how ELSE IF o = n THEN "snapshot" ELSE "other"
  BY <1>2 DEF Sense
<1>4. Outside(n, b, s) <=> o # b /\ o # n
  BY <1>3 DEF Outside, Updates
<1> QED
  BY <1>1, <1>3, <1>4

LEMMA UpdatesWithin ==
  ASSUME NEW n, NEW b, NEW depth, NEW X, NEW o, NEW m, NEW how, how \in Updates
  PROVE  Within(n, b, depth, X, Update(o, how, m)) <=>
           IF o = b THEN how \in {"send", "chop"}
           ELSE IF o = n THEN m.count \in X ELSE depth[o] > depth[b]
<1>1. PICK s : s = Update(o, how, m)
  OBVIOUS
<1>2. s[1] = "update" /\ s[2] = o /\ s[4] = m
  BY <1>1, UpdateWords
<1>3. /\ Sense(n, b, s) = IF o = b THEN how ELSE IF o = n THEN "snapshot" ELSE "other"
      /\ CountIn(s) = m.count
  BY <1>1, <1>2, UpdateSenses DEF CountIn
<1>4. Within(n, b, depth, X, s) <=>
        IF o = b THEN how \in {"send", "chop"}
        ELSE IF o = n THEN m.count \in X ELSE depth[o] > depth[b]
  BY <1>2, <1>3 DEF Within, Updates
<1> QED
  BY <1>1, <1>4

LEMMA LockSenses ==
  ASSUME NEW n, NEW b, NEW x
  PROVE  /\ Sense(n, b, Lock(x)) = IF x = OwnMutex(b) THEN "lock" ELSE "other"
         /\ Sense(n, b, Unlock(x)) = IF x = OwnMutex(b) THEN "unlock" ELSE "other"
<1>1. PICK s, r : s = Lock(x) /\ r = Unlock(x)
  OBVIOUS
<1>2. s[1] = "lock" /\ s[2] = x /\ r[1] = "unlock" /\ r[2] = x
  BY <1>1, LockWords
<1>3. /\ Sense(n, b, s) = IF x = OwnMutex(b) THEN "lock" ELSE "other"
      /\ Sense(n, b, r) = IF x = OwnMutex(b) THEN "unlock" ELSE "other"
  BY <1>2 DEF Sense
<1> QED
  BY <1>1, <1>3

LEMMA LocksWithin ==
  ASSUME NEW n, NEW b, NEW depth, NEW X, NEW x, x # OwnMutex(b)
  PROVE  Within(n, b, depth, X, Lock(x)) /\ Within(n, b, depth, X, Unlock(x))
<1>1. PICK s, r : s = Lock(x) /\ r = Unlock(x)
  OBVIOUS
<1>2. s[1] = "lock" /\ r[1] = "unlock"
  BY <1>1, LockWords
<1>3. Sense(n, b, s) = "other" /\ Sense(n, b, r) = "other"
  BY <1>1, LockSenses
<1>4. Within(n, b, depth, X, s) /\ Within(n, b, depth, X, r)
  BY <1>2, <1>3 DEF Within
<1> QED
  BY <1>1, <1>4

LEMMA OtherSenses ==
  ASSUME NEW n, NEW b, NEW s, s[1] \notin {"lock", "unlock", "signal", "receive", "update"}
  PROVE  Sense(n, b, s) = "other" /\ \A depth, X : Within(n, b, depth, X, s)
BY DEF Sense, Within

-----------------------------------------------------------------------------
(* What a thread has still to execute, and how a step changes that.        *)

LEMMA HoldingMore ==
  ASSUME NEW n, NEW b, NEW depth, NEW X, NEW Y, X \subseteq Y, NEW q, Holding(n, b, depth, X, q)
  PROVE  Holding(n, b, depth, Y, q)
<1>1. \A s : Within(n, b, depth, X, s) => Within(n, b, depth, Y, s)
  BY DEF Within
<1> QED
  BY <1>1 DEF Holding

LEMMA HoldingGoesOn ==
  ASSUME NEW n, NEW b, NEW depth, NEW X, NEW q, NEW program, NEW r,
         Spliced(q, program, r), Holding(n, b, depth, X, q), Sense(n, b, q[1]) # "unlock",
         \A i \in 1..Len(program) : Within(n, b, depth, X, program[i])
  PROVE  Holding(n, b, depth, X, r)
<1> DEFINE k == Len(program)
<1>1. PICK u \in 1..Len(q) :
        /\ Sense(n, b, q[u]) = "unlock"
        /\ \A i \in 1..Len(q) : i < u => Within(n, b, depth, X, q[i])
        /\ \A i \in 1..Len(q) : i > u => Outside(n, b, q[i])
  BY DEF Holding
<1>2. /\ Len(q) \in Nat /\ Len(q) >= 1 /\ k \in Nat /\ Len(r) = k + Len(q) - 1
      /\ \A i \in 2..Len(q) : r[k + i - 1] = q[i]
  BY DEF Spliced
<1>3. u # 1
  BY <1>1
<1>4. u \in 2..Len(q)
  BY <1>1, <1>2, <1>3
<1> DEFINE v == k + u - 1
<1>5. v \in 1..Len(r) /\ r[v] = q[u] /\ k < v
  BY <1>2, <1>4
<1>6. ASSUME NEW i \in 1..Len(r)
      PROVE  /\ i < v => Within(n, b, depth, X, r[i])
             /\ i > v => Outside(n, b, r[i])
  <2>1. CASE i \in 1..k /\ r[i] = program[i]
    <3>1. ~(i > v)
      BY <1>2, <1>5, <2>1
    <3> QED
      BY <2>1, <3>1
  <2>2. CASE \E j \in 2..Len(q) : i = k + j - 1 /\ r[i] = q[j]
    <3>1. PICK j \in 2..Len(q) : i = k + j - 1 /\ r[i] = q[j]
      BY <2>2
    <3>2. j \in 1..Len(q) /\ (i < v => j < u) /\ (i > v => j > u)
      BY <1>2, <1>4, <3>1
    <3> QED
      BY <1>1, <3>1, <3>2
  <2> QED
    BY <2>1, <2>2, SplicedFrom
<1> HIDE DEF v
<1> QED
  BY <1>1, <1>5, <1>6 DEF Holding

LEMMA HoldingEnds ==
  ASSUME NEW n, NEW b, NEW depth, NEW X, NEW q, NEW program, NEW r,
         Spliced(q, program, r), Len(program) = 0,
         Holding(n, b, depth, X, q), Sense(n, b, q[1]) = "unlock"
  PROVE  AtRest(n, b, r)
<1>1. PICK u \in 1..Len(q) :
        /\ \A i \in 1..Len(q) : i < u => Within(n, b, depth, X, q[i])
        /\ \A i \in 1..Len(q) : i > u => Outside(n, b, q[i])
  BY DEF Holding
<1>2. Len(q) \in Nat /\ Len(q) >= 1 /\ 1 \in 1..Len(q)
  BY DEF Spliced
<1>3. u = 1
  <2>1. ~Within(n, b, depth, X, q[1])
    BY DEF Within
  <2> QED
    BY <1>1, <1>2, <2>1
<1> SUFFICES ASSUME NEW i \in 1..Len(r) PROVE Outside(n, b, r[i])
  BY DEF AtRest
<1>4. PICK j \in 2..Len(q) : r[i] = q[j]
  BY SplicedFrom
<1>5. j \in 1..Len(q) /\ j > u
  BY <1>2, <1>3
<1> QED
  BY <1>1, <1>4, <1>5

LEMMA HoldingHead ==
  ASSUME NEW n, NEW b, NEW depth, NEW X, NEW q, Len(q) \in Nat, Holding(n, b, depth, X, q)
  PROVE  Len(q) >= 1 /\ (Sense(n, b, q[1]) = "unlock" \/ Within(n, b, depth, X, q[1]))
<1>1. PICK u \in 1..Len(q) :
        /\ Sense(n, b, q[u]) = "unlock"
        /\ \A i \in 1..Len(q) : i < u => Within(n, b, depth, X, q[i])
  BY DEF Holding
<1>2. Len(q) >= 1 /\ 1 \in 1..Len(q) /\ (u = 1 \/ 1 < u)
  BY <1>1
<1> QED
  BY <1>1, <1>2

LEMMA RestGoesOn ==
  ASSUME NEW n, NEW b, NEW q, NEW program, NEW r, Spliced(q, program, r), AtRest(n, b, q),
         \A i \in 1..Len(program) : Outside(n, b, program[i])
  PROVE  AtRest(n, b, r)
<1> SUFFICES ASSUME NEW i \in 1..Len(r) PROVE Outside(n, b, r[i])
  BY DEF AtRest
<1>1. CASE i \in 1..Len(program) /\ r[i] = program[i]
  BY <1>1
<1>2. CASE \E j \in 2..Len(q) : i = Len(program) + j - 1 /\ r[i] = q[j]
  <2>1. PICK j \in 2..Len(q) : r[i] = q[j]
    BY <1>2
  <2>2. j \in 1..Len(q)
    BY <2>1 DEF Spliced
  <2> QED
    BY <2>1, <2>2 DEF AtRest
<1> QED
  BY <1>1, <1>2, SplicedFrom

-----------------------------------------------------------------------------
(* The words that a statement makes a thread execute.                      *)

Filled(n, b, depth) ==
  /\ n \in Nodes
  /\ RemembersBuffer(n, b)
  /\ LeadsDown(depth)

LEMMA FilledDepths ==
  ASSUME NEW n, NEW b, NEW depth, Filled(n, b, depth)
  PROVE  /\ n \in Nodes /\ b \in Nodes /\ n # b /\ Kind[n] = "last" /\ Kind[b] = "buffer"
         /\ \A o \in Nodes : depth[o] \in Nat
         /\ depth[b] < depth[n]
         /\ \A o \in Nodes : \A e \in Range(Observers[o]) : e \in Nodes /\ depth[o] < depth[e]
         /\ \A o \in Nodes : n \in Range(Observers[o]) <=> o = b
<1>1. n \in Nodes /\ b \in Nodes /\ Kind[n] = "last" /\ Kind[b] = "buffer"
      /\ \A o \in Nodes : n \in Range(Observers[o]) <=> o = b
  BY DEF Filled, RemembersBuffer, OnlyThrough
<1>2. /\ \A o \in Nodes : depth[o] \in Nat
      /\ \A o \in Nodes : \A e \in Range(Observers[o]) : depth[o] < depth[e]
  BY DEF Filled, LeadsDown
<1>3. n # b
  BY <1>1
<1>4. depth[b] < depth[n]
  BY <1>1, <1>2
<1>5. ASSUME NEW o \in Nodes, NEW e \in Range(Observers[o])
      PROVE  e \in Nodes
  <2>1. Observers[o] \in Seq(Nodes)
    BY LibraryNodesAssumption
  <2> QED
    BY <1>5, <2>1, LenProperties, ElementOfSeq DEF Range
<1> QED
  BY <1>1, <1>2, <1>3, <1>4, <1>5

\* What s brings about is allowed where s is.
Follows(n, b, depth, X, s, next) ==
  /\ Outside(n, b, s) => Outside(n, b, next)
  /\ Within(n, b, depth, X, s) => Within(n, b, depth, X, next)

LEMMA OtherFollows ==
  ASSUME NEW n, NEW b, NEW depth, NEW X, NEW s, NEW next,
         Sense(n, b, next) = "other", Within(n, b, depth, X, next)
  PROVE  Follows(n, b, depth, X, s, next)
BY DEF Follows, Outside

LEMMA SignalFollows ==
  ASSUME NEW n, NEW b, NEW depth, Filled(n, b, depth), NEW X, NEW o \in Nodes, NEW m,
         NEW next \in SignalWordsOf(o, m)
  PROVE  Follows(n, b, depth, X, Signal(o, m), next)
<1>1. CASE next = Lock(ObserversMutex(o)) \/ next = Unlock(ObserversMutex(o))
  <2>1. PICK x : x = ObserversMutex(o) /\ x # OwnMutex(b)
    BY MutexNames
  <2>2. /\ Sense(n, b, Lock(x)) = "other" /\ Sense(n, b, Unlock(x)) = "other"
        /\ Within(n, b, depth, X, Lock(x)) /\ Within(n, b, depth, X, Unlock(x))
    BY <2>1, LockSenses, LocksWithin
  <2>3. Sense(n, b, next) = "other" /\ Within(n, b, depth, X, next)
    BY <1>1, <2>1, <2>2
  <2> QED
    BY <2>3, OtherFollows
<1>2. CASE \E e \in Range(Observers[o]) : next = Receive(e, m)
  <2>1. PICK e \in Range(Observers[o]) : next = Receive(e, m)
    BY <1>2
  <2>2. /\ depth[o] \in Nat /\ depth[e] \in Nat /\ depth[b] \in Nat /\ depth[o] < depth[e]
        /\ e \in Nodes /\ (e = n => o = b)
    BY <2>1, FilledDepths
  <2>3. Outside(n, b, Signal(o, m)) <=> o # b
    BY CallSenses
  <2>4. Outside(n, b, Receive(e, m)) <=> e = b \/ e # n
    BY CallSenses
  <2>5. Within(n, b, depth, X, Signal(o, m)) <=>
          IF o = b THEN m.count \in X ELSE depth[o] > depth[b]
    BY CallsWithin
  <2>6. Within(n, b, depth, X, Receive(e, m)) <=>
          e # b /\ IF e = n THEN m.count \in X ELSE depth[e] > depth[b]
    BY CallsWithin
  <2>7. o = b => e # b
    BY <2>2
  <2>8. o # b /\ depth[o] > depth[b] => e # b /\ depth[e] > depth[b]
    BY <2>2
  <2>9. o = b => depth[e] > depth[b]
    BY <2>2
  <2> QED
    BY <2>1, <2>2, <2>3, <2>4, <2>5, <2>6, <2>7, <2>8, <2>9 DEF Follows
<1> QED
  BY <1>1, <1>2 DEF SignalWordsOf

LEMMA ReceiptFollows ==
  ASSUME NEW n, NEW b, NEW depth, Filled(n, b, depth), NEW X, NEW o \in Nodes, o # b, NEW m,
         NEW next \in ReceiptWordsOf(o, m)
  PROVE  Follows(n, b, depth, X, Receive(o, m), next)
<1>1. CASE next = Lock(OwnMutex(o)) \/ next = Unlock(OwnMutex(o))
  <2>0. OwnMutex(o) # OwnMutex(b)
    BY DEF OwnMutex
  <2>1. PICK x : x = OwnMutex(o) /\ x # OwnMutex(b)
    BY <2>0
  <2>2. /\ Sense(n, b, Lock(x)) = "other" /\ Sense(n, b, Unlock(x)) = "other"
        /\ Within(n, b, depth, X, Lock(x)) /\ Within(n, b, depth, X, Unlock(x))
    BY <2>1, LockSenses, LocksWithin
  <2>3. Sense(n, b, next) = "other" /\ Within(n, b, depth, X, next)
    BY <1>1, <2>1, <2>2
  <2> QED
    BY <2>3, OtherFollows
<1>2. CASE next[1] \notin {"lock", "unlock", "signal", "receive", "update"}
  <2>1. Sense(n, b, next) = "other" /\ Within(n, b, depth, X, next)
    BY <1>2, OtherSenses
  <2> QED
    BY <2>1, OtherFollows
<1>3. Within(n, b, depth, X, Receive(o, m)) => depth[o] > depth[b]
  <2>1. Within(n, b, depth, X, Receive(o, m)) =>
          o # b /\ IF o = n THEN m.count \in X ELSE depth[o] > depth[b]
    BY CallsWithin
  <2>2. depth[n] > depth[b]
    BY FilledDepths
  <2> QED
    BY <2>1, <2>2
<1>4. CASE \E m1 : next = Signal(o, m1)
  <2>1. PICK m1 : next = Signal(o, m1)
    BY <1>4
  <2>2. /\ Sense(n, b, Signal(o, m1)) = "other"
        /\ Within(n, b, depth, X, Signal(o, m1)) <=> depth[o] > depth[b]
    BY CallSenses, CallsWithin
  <2> QED
    BY <1>3, <2>1, <2>2 DEF Follows, Outside
<1>5. CASE \E how \in {"test", "count", "wrap", "remember", "add", "send"} : next = Update(o, how, m)
  <2>1. PICK how \in Updates : next = Update(o, how, m)
    BY <1>5 DEF Updates
  <2>2. Outside(n, b, Receive(o, m)) <=> o # n
    BY CallSenses
  <2>3. Outside(n, b, Update(o, how, m)) <=> o # n
    BY UpdateSenses
  <2>4. Within(n, b, depth, X, Receive(o, m)) <=>
          IF o = n THEN m.count \in X ELSE depth[o] > depth[b]
    BY CallsWithin
  <2>5. Within(n, b, depth, X, Update(o, how, m)) <=>
          IF o = n THEN m.count \in X ELSE depth[o] > depth[b]
    BY UpdatesWithin
  <2> QED
    BY <2>1, <2>2, <2>3, <2>4, <2>5 DEF Follows
<1>6. next \in UpdateWordsOf(o, m) =>
        \E how \in {"test", "count", "wrap", "remember", "add", "send"} : next = Update(o, how, m)
  BY DEF UpdateWordsOf
<1>7. next \in {TakeGil, GiveGil, RunPython, Release(FromPython(m))}
        => next[1] \notin {"lock", "unlock", "signal", "receive", "update"}
  BY PlainWords, ReleaseWords
<1>8. \/ next \in UpdateWordsOf(o, m)
      \/ next \in {TakeGil, GiveGil, RunPython, Release(FromPython(m))}
      \/ next = Lock(OwnMutex(o)) \/ next = Unlock(OwnMutex(o))
      \/ next = Signal(o, m) \/ next = Signal(o, FromPython(m))
  BY DEF ReceiptWordsOf
<1>9. next = Signal(o, m) \/ next = Signal(o, FromPython(m)) => \E m1 : next = Signal(o, m1)
  BY Zenon
<1> QED
  BY <1>1, <1>2, <1>4, <1>5, <1>6, <1>7, <1>8, <1>9

\* "send" makes a snapshot of what the buffer holds.
LEMMA AfterFollows ==
  ASSUME NEW n, NEW b, NEW depth, Filled(n, b, depth), NEW c, NEW o \in Nodes, NEW m, NEW was,
         o = b => was.count = c,
         NEW how \in Updates, o = b => how \in {"add", "send", "chop"},
         NEW program, program = AfterUpdate(o, was, how, m),
         NEW i \in 1..Len(program)
  PROVE  Follows(n, b, depth, {c}, Update(o, how, m), program[i])
<1>1. CASE program = <<>>
  BY <1>1
<1>2. CASE o = b
  <2>1. how # "send" => program = <<>>
    BY <1>2, AfterPrograms
  <2>2. CASE how = "send"
    <3>1. PICK m1 : m1 = Message(FALSE, was.cols, was.count)
      OBVIOUS
    <3>2. m1.count = c
      BY <1>2, <3>1 DEF Message
    <3>3. program = <<Signal(o, m1)>>
      BY <2>2, <3>1, AfterPrograms
    <3>4. PICK s : s = Signal(o, m1) /\ program = <<s>>
      BY <3>3, Zenon
    <3>5. program[i] = s
      BY <3>4
    <3>6. Within(n, b, depth, {c}, Signal(o, m1))
      <4>1. Within(n, b, depth, {c}, Signal(o, m1)) <=>
              IF o = b THEN m1.count \in {c} ELSE depth[o] > depth[b]
        BY CallsWithin
      <4> QED
        BY <1>2, <3>2, <4>1
    <3>7. ~Outside(n, b, Update(o, how, m))
      BY <1>2, UpdateSenses
    <3> QED
      BY <3>4, <3>5, <3>6, <3>7 DEF Follows
  <2> QED
    BY <1>1, <2>1, <2>2
<1>3. CASE o # b /\ program # <<>>
  <2>1. PICK m1, s : s \in {Signal(o, m1), Release(m1)} /\ program = <<s>>
    BY <1>3, AfterIs
  <2>2. program[i] = s
    BY <2>1
  <2>3. CASE s = Release(m1)
    <3>1. s[1] = "release"
      BY <2>3, ReleaseWords
    <3>2. Sense(n, b, s) = "other" /\ Within(n, b, depth, {c}, s)
      BY <3>1, OtherSenses
    <3> QED
      BY <2>2, <3>2, OtherFollows
  <2>4. CASE s = Signal(o, m1)
    <3>1. /\ Sense(n, b, Signal(o, m1)) = "other"
          /\ Within(n, b, depth, {c}, Signal(o, m1)) <=> depth[o] > depth[b]
      BY <1>3, CallSenses, CallsWithin
    <3>2. Within(n, b, depth, {c}, Update(o, how, m)) =>
            IF o = n THEN m.count \in {c} ELSE depth[o] > depth[b]
      BY <1>3, UpdatesWithin
    <3>3. depth[n] > depth[b]
      BY FilledDepths
    <3> QED
      BY <2>2, <2>4, <3>1, <3>2, <3>3 DEF Follows, Outside
  <2> QED
    BY <2>1, <2>3, <2>4
<1> QED
  BY <1>1, <1>2, <1>3

-----------------------------------------------------------------------------
(* Steps.                                                                  *)

\* A step that locks nothing, unlocks nothing and adds nothing.
LEMMA CarriesOn ==
  ASSUME NEW n, NEW b, NEW depth, NEW c, NEW own, NEW q, NEW program, NEW r,
         Spliced(q, program, r), Carries(n, b, depth, q, own, c),
         Sense(n, b, q[1]) \notin {"lock", "unlock", "add"},
         \A i \in 1..Len(program) : Follows(n, b, depth, {c}, q[1], program[i])
  PROVE  Carries(n, b, depth, r, own, c)
<1>1. Len(q) \in Nat /\ Len(q) >= 1 /\ 1 \in 1..Len(q)
  BY DEF Spliced
<1>2. CASE own
  <2>1. Holding(n, b, depth, {c}, q)
    <3>1. Fresh(n, b, depth, q) => Holding(n, b, depth, {}, q)
      BY DEF Fresh
    <3> QED
      BY <1>2, <3>1, HoldingMore DEF Carries
  <2>2. Within(n, b, depth, {c}, q[1])
    BY <1>1, <2>1, HoldingHead
  <2>3. \A i \in 1..Len(program) : Within(n, b, depth, {c}, program[i])
    BY <2>2 DEF Follows
  <2>4. Holding(n, b, depth, {c}, r)
    BY <2>1, <2>3, HoldingGoesOn
  <2> QED
    BY <1>2, <2>4 DEF Carries
<1>3. CASE ~own
  <2>1. AtRest(n, b, q)
    BY <1>3 DEF Carries
  <2>2. Outside(n, b, q[1])
    BY <1>1, <2>1 DEF AtRest
  <2>3. \A i \in 1..Len(program) : Outside(n, b, program[i])
    BY <2>2 DEF Follows
  <2>4. AtRest(n, b, r)
    BY <2>1, <2>3, RestGoesOn
  <2> QED
    BY <1>3, <2>4 DEF Carries
<1> QED
  BY <1>2, <1>3

\* What the last node remembers is no newer than what the buffer holds.
Bounded(n, b) == memory[n] # None => memory[n].count <= memory[b].count

SnapshotInv(n, b, depth) ==
  /\ TypeInv
  /\ \A t \in Threads :
       Carries(n, b, depth, todo[t], owner[OwnMutex(b)] = t, memory[b].count)
  /\ Bounded(n, b)

\* The other threads do not hold the mutex when the buffer changes.
LEMMA StepSnapshot ==
  ASSUME NEW n, NEW b, NEW depth, SnapshotInv(n, b, depth), TypeInv',
         NEW t \in Threads, NEW program, StepsTo(t, program),
         \A s \in Threads \ {t} : owner'[OwnMutex(b)] = s <=> owner[OwnMutex(b)] = s,
         memory'[b].count = memory[b].count \/ owner[OwnMutex(b)] = t,
         Carries(n, b, depth, todo'[t], owner'[OwnMutex(b)] = t, memory'[b].count),
         Bounded(n, b)'
  PROVE  SnapshotInv(n, b, depth)'
<1>1. ASSUME NEW s \in Threads
      PROVE  Carries(n, b, depth, todo'[s], owner'[OwnMutex(b)] = s, memory'[b].count)
  <2>1. CASE s = t
    BY <2>1
  <2>2. CASE s # t
    <3>1. PICK q, own, c, d : /\ q = todo[s] /\ own = (owner[OwnMutex(b)] = s)
                              /\ c = memory[b].count /\ d = memory'[b].count
      OBVIOUS
    <3>2. todo'[s] = q /\ (owner'[OwnMutex(b)] = s) = own
      BY <2>2, <3>1 DEF StepsTo
    <3>3. Carries(n, b, depth, q, own, c)
      BY <3>1 DEF SnapshotInv
    <3>4. own => c = d
      BY <2>2, <3>1
    <3>5. Carries(n, b, depth, q, own, d)
      BY <3>3, <3>4 DEF Carries
    <3> QED
      BY <3>1, <3>2, <3>5
  <2> QED
    BY <2>1, <2>2
<1> QED
  BY <1>1 DEF SnapshotInv

\* A step that is nothing to the buffer's mutex, or is made under it.
LEMMA BesideSnapshot ==
  ASSUME NEW n, NEW b, NEW depth, SnapshotInv(n, b, depth), TypeInv',
         NEW t \in Threads, NEW what, At(t, what), NEW program \in Program, Continue(t, program),
         owner'[OwnMutex(b)] = owner[OwnMutex(b)], memory'[b].count = memory[b].count,
         Bounded(n, b)',
         Sense(n, b, todo[t][1]) \notin {"lock", "unlock", "add"},
         \A i \in 1..Len(program) :
           Follows(n, b, depth, {memory[b].count}, todo[t][1], program[i])
  PROVE  SnapshotInv(n, b, depth)'
<1>1. StepsTo(t, program)
  BY ContinueSteps DEF SnapshotInv
<1>2. Carries(n, b, depth, todo'[t], owner'[OwnMutex(b)] = t, memory'[b].count)
  <2>1. PICK q, r, own, c : /\ q = todo[t] /\ r = todo'[t] /\ own = (owner[OwnMutex(b)] = t)
                            /\ c = memory[b].count
    OBVIOUS
  <2>2. Spliced(q, program, r) /\ Carries(n, b, depth, q, own, c)
    BY <1>1, <2>1 DEF StepsTo, SnapshotInv
  <2>3. Carries(n, b, depth, r, own, c)
    BY <2>1, <2>2, CarriesOn
  <2> QED
    BY <2>1, <2>3
<1> QED
  BY <1>1, <1>2, StepSnapshot

\* A statement that has nothing to do with the buffer.
LEMMA PlainSnapshot ==
  ASSUME NEW n, NEW b, NEW depth, SnapshotInv(n, b, depth), TypeInv',
         NEW t \in Threads,
         AcquireGil(t) \/ ReleaseGil(t) \/ Python(t) \/ ReleaseMessage(t)
           \/ StartThread(t) \/ AskToStop(t) \/ JoinThread(t)
  PROVE  SnapshotInv(n, b, depth)'
<1>1. PICK what, program :
        /\ program \in Seq({TakeGil, GiveGil})
        /\ At(t, what) /\ what \notin {"lock", "unlock", "signal", "receive", "update"}
        /\ Continue(t, program) /\ program \in Program
  BY PlainSteps
<1>2. UNCHANGED <<owner, memory>>
  BY PlainSteps
<1>3. PICK c, s : c = memory[b].count /\ s = todo[t][1]
  OBVIOUS
<1>4. ASSUME NEW i \in 1..Len(program) PROVE Follows(n, b, depth, {c}, s, program[i])
  <2>1. PICK next : next = program[i] /\ next \in {TakeGil, GiveGil}
    BY <1>1, ElementOfSeq
  <2>2. next[1] \in {"take gil", "give gil"}
    BY <2>1, PlainWords
  <2>3. Sense(n, b, next) = "other" /\ Within(n, b, depth, {c}, next)
    BY <2>2, OtherSenses
  <2> QED
    BY <2>1, <2>3, OtherFollows
<1>5. Sense(n, b, s) = "other"
  <2>1. s[1] = what
    BY <1>1, <1>3, FirstStatement DEF SnapshotInv
  <2> QED
    BY <1>1, <2>1, OtherSenses
<1>6. Bounded(n, b)'
  BY <1>2 DEF SnapshotInv, Bounded
<1> QED
  BY <1>1, <1>2, <1>3, <1>4, <1>5, <1>6, BesideSnapshot

LEMMA SignalSnapshot ==
  ASSUME NEW n, NEW b, NEW depth, Filled(n, b, depth), SnapshotInv(n, b, depth), TypeInv',
         NEW t \in Threads, SignalMessage(t)
  PROVE  SnapshotInv(n, b, depth)'
<1>1. PICK o, m, c, s : /\ o = Arg(t, 2) /\ m = Arg(t, 3) /\ c = memory[b].count
                        /\ s = todo[t][1]
  OBVIOUS
<1>2. TypeInv /\ At(t, "signal")
  BY DEF SnapshotInv, SignalMessage
<1>3. /\ s \in Statement /\ s[1] = "signal" /\ s[2] = o /\ s[3] = m
      /\ o \in Nodes /\ m \in Messages
  BY <1>1, <1>2, FirstStatement, StatementSays
<1>4. s = Signal(o, m)
  BY <1>3, SignalIs
<1>5. PICK program : program = SignalBody(Held(t), o, m)
  OBVIOUS
<1>6. Continue(t, program) /\ program \in Seq(SignalWordsOf(o, m)) /\ program \in Program
  <2>1. program \in Seq(SignalWordsOf(o, m)) /\ SignalWordsOf(o, m) \subseteq Statement
    BY <1>3, <1>5, SignalProgram, WordsAreStatements
  <2> QED
    BY <1>1, <1>5, <2>1, SmallerPrograms DEF SignalMessage, Program
<1>7. UNCHANGED <<owner, memory>>
  BY DEF SignalMessage, locks
<1>8. Sense(n, b, s) \notin {"lock", "unlock", "add"}
  BY <1>4, CallSenses
<1>9. ASSUME NEW i \in 1..Len(program) PROVE Follows(n, b, depth, {c}, s, program[i])
  <2>1. program[i] \in SignalWordsOf(o, m)
    BY <1>6, ElementOfSeq
  <2> QED
    BY <1>3, <1>4, <2>1, SignalFollows
<1>10. Bounded(n, b)'
  BY <1>7 DEF SnapshotInv, Bounded
<1> QED
  BY <1>1, <1>2, <1>6, <1>7, <1>8, <1>9, <1>10, BesideSnapshot

LEMMA LockSnapshot ==
  ASSUME NEW n, NEW b, NEW depth, Filled(n, b, depth), SnapshotInv(n, b, depth), TypeInv',
         NEW t \in Threads, LockMutex(t)
  PROVE  SnapshotInv(n, b, depth)'
<1>1. TypeInv /\ At(t, "lock") /\ Continue(t, <<>>) /\ <<>> \in Program /\ Len(<<>>) = 0
  BY PlainPrograms, EmptySeq DEF SnapshotInv, LockMutex
<1>2. PICK q, y, x, c : /\ q = todo[t] /\ y = Arg(t, 2) /\ x = OwnMutex(b) /\ c = memory[b].count
  OBVIOUS
<1>3. q[1] = Lock(y) /\ y \in Mutexes
  BY <1>1, <1>2, FirstStatement, StatementSays
<1>4. /\ owner[y] \in {None, t}
      /\ owner' = [owner EXCEPT ![y] = t]
      /\ UNCHANGED memory
  BY <1>2 DEF LockMutex
<1>5. Bounded(n, b)'
  BY <1>4 DEF SnapshotInv, Bounded
<1>6. CASE y # x
  <2>1. owner'[OwnMutex(b)] = owner[OwnMutex(b)]
    BY <1>1, <1>2, <1>3, <1>4, <1>6 DEF TypeInv
  <2>2. Sense(n, b, Lock(y)) = "other"
    BY <1>2, <1>6, LockSenses
  <2>3. Sense(n, b, todo[t][1]) \notin {"lock", "unlock", "add"}
    BY <1>2, <1>3, <2>2
  <2>4. \A i \in 1..Len(<<>>) : Follows(n, b, depth, {memory[b].count}, todo[t][1], <<>>[i])
    BY <1>1
  <2> QED
    BY <1>1, <1>4, <1>5, <2>1, <2>3, <2>4, BesideSnapshot
<1>7. CASE y = x
  <2>1. Sense(n, b, q[1]) = "lock"
    BY <1>2, <1>3, <1>7, LockSenses
  <2>2. StepsTo(t, <<>>)
    BY <1>1, ContinueSteps
  <2>3. PICK r : r = todo'[t]
    OBVIOUS
  <2>4. Spliced(q, <<>>, r) /\ Len(q) \in Nat /\ 1 \in 1..Len(q)
    BY <1>2, <2>2, <2>3 DEF StepsTo, Spliced
  <2>5. r = Tail(q)
    <3>1. todo[t] \in Program /\ todo[t] # <<>>
      BY <1>1, FirstStatement
    <3>2. todo'[t] = <<>> \o Tail(todo[t])
      BY <1>1, <3>1, ContinueTyped
    <3>3. Tail(q) \in Seq(Statement)
      BY <1>2, <2>4, <3>1, HeadTailProperties DEF Program
    <3>4. r = <<>> \o Tail(q)
      BY <1>2, <2>3, <3>2
    <3> QED
      BY <3>3, <3>4
  <2>6. Carries(n, b, depth, q, owner[x] = t, c)
    BY <1>2 DEF SnapshotInv
  <2>7. \A X : ~Holding(n, b, depth, X, q)
    <3>1. \A X : ~Within(n, b, depth, X, q[1])
      BY <2>1 DEF Within
    <3> QED
      BY <2>1, <2>4, <3>1, HoldingHead
  <2>8. ~Fresh(n, b, depth, q)
    BY <2>1, <2>7 DEF Fresh
  <2>9. ~AtRest(n, b, q)
    BY <2>1, <2>4 DEF AtRest, Outside
  <2>10. owner[x] # t /\ Fresh(n, b, depth, r)
    BY <2>5, <2>6, <2>7, <2>8, <2>9 DEF Carries
  <2>11. owner[x] = None /\ owner'[x] = t
    BY <1>1, <1>3, <1>4, <1>7, <2>10 DEF TypeInv
  <2>12. Carries(n, b, depth, r, TRUE, c)
    BY <2>10 DEF Carries
  <2>13. Carries(n, b, depth, todo'[t], owner'[OwnMutex(b)] = t, memory'[b].count)
    <3>1. memory'[b].count = c /\ (owner'[OwnMutex(b)] = t) = TRUE
      BY <1>2, <1>4, <2>11
    <3> QED
      BY <2>3, <2>12, <3>1
  <2>14. \A s \in Threads \ {t} : owner'[OwnMutex(b)] = s <=> owner[OwnMutex(b)] = s
    BY <1>2, <2>11, NoneIsNoThread
  <2> QED
    BY <1>1, <1>4, <1>5, <2>2, <2>13, <2>14, StepSnapshot
<1> QED
  BY <1>6, <1>7

LEMMA UnlockSnapshot ==
  ASSUME NEW n, NEW b, NEW depth, Filled(n, b, depth), SnapshotInv(n, b, depth), TypeInv',
         NEW t \in Threads, UnlockMutex(t)
  PROVE  SnapshotInv(n, b, depth)'
<1>1. TypeInv /\ At(t, "unlock") /\ Continue(t, <<>>) /\ <<>> \in Program /\ Len(<<>>) = 0
  BY PlainPrograms, EmptySeq DEF SnapshotInv, UnlockMutex
<1>2. PICK q, y, x, c : /\ q = todo[t] /\ y = Arg(t, 2) /\ x = OwnMutex(b) /\ c = memory[b].count
  OBVIOUS
<1>3. q[1][1] = "unlock" /\ q[1][2] = y /\ y \in Mutexes
  BY <1>1, <1>2, FirstStatement, StatementSays
<1>4. owner' = [owner EXCEPT ![y] = None] /\ UNCHANGED memory
  BY <1>2 DEF UnlockMutex
<1>5. Bounded(n, b)'
  BY <1>4 DEF SnapshotInv, Bounded
<1>6. CASE y # x
  <2>1. owner'[OwnMutex(b)] = owner[OwnMutex(b)]
    BY <1>1, <1>2, <1>3, <1>4, <1>6 DEF TypeInv
  <2>2. Sense(n, b, q[1]) = "other"
    BY <1>2, <1>3, <1>6 DEF Sense
  <2>3. Sense(n, b, todo[t][1]) \notin {"lock", "unlock", "add"}
    BY <1>2, <2>2
  <2>4. \A i \in 1..Len(<<>>) : Follows(n, b, depth, {memory[b].count}, todo[t][1], <<>>[i])
    BY <1>1
  <2> QED
    BY <1>1, <1>4, <1>5, <2>1, <2>3, <2>4, BesideSnapshot
<1>7. CASE y = x
  <2>1. Sense(n, b, q[1]) = "unlock"
    BY <1>2, <1>3, <1>7 DEF Sense
  <2>2. StepsTo(t, <<>>)
    BY <1>1, ContinueSteps
  <2>3. PICK r : r = todo'[t]
    OBVIOUS
  <2>4. Spliced(q, <<>>, r) /\ Len(q) \in Nat /\ 1 \in 1..Len(q)
    BY <1>2, <2>2, <2>3 DEF StepsTo, Spliced
  <2>5. Carries(n, b, depth, q, owner[x] = t, c)
    BY <1>2 DEF SnapshotInv
  <2>6. ~AtRest(n, b, q)
    BY <2>1, <2>4 DEF AtRest, Outside
  <2>7. owner[x] = t /\ \E X : Holding(n, b, depth, X, q)
    <3>1. Fresh(n, b, depth, q) => Holding(n, b, depth, {}, q)
      BY <2>1 DEF Fresh
    <3> QED
      BY <2>1, <2>5, <2>6, <3>1 DEF Carries
  <2>8. AtRest(n, b, r)
    BY <1>1, <2>1, <2>4, <2>7, HoldingEnds
  <2>9. owner'[x] = None
    BY <1>1, <1>3, <1>4, <1>7 DEF TypeInv
  <2>10. Carries(n, b, depth, todo'[t], owner'[OwnMutex(b)] = t, memory'[b].count)
    <3>1. owner'[OwnMutex(b)] # t
      BY <1>2, <2>9, NoneIsNoThread
    <3> QED
      BY <2>3, <2>8, <3>1 DEF Carries
  <2>11. \A s \in Threads \ {t} : owner'[OwnMutex(b)] = s <=> owner[OwnMutex(b)] = s
    BY <1>2, <2>7, <2>9, NoneIsNoThread
  <2> QED
    BY <1>1, <1>4, <1>5, <2>2, <2>10, <2>11, StepSnapshot
<1> QED
  BY <1>6, <1>7

\* What BufferReceive executes: the buffer is fresh until the mutex is locked.
LEMMA BufferProgram ==
  ASSUME NEW b, NEW m, NEW held, OwnMutex(b) \notin held
  PROVE  LET program == BufferReceive(held, b, m)
         IN  /\ Len(program) = 4
             /\ program[1] = Lock(OwnMutex(b)) /\ program[2] = Update(b, "add", m)
             /\ program[3] = Update(b, "send", m) /\ program[4] = Unlock(OwnMutex(b))
<1>1. PICK l, u, a, s, S : /\ l = Lock(OwnMutex(b)) /\ u = Unlock(OwnMutex(b))
                           /\ a = Update(b, "add", m) /\ s = Update(b, "send", m)
                           /\ S = {l, u, a, s}
  OBVIOUS
<1>2. PICK body : body = <<a, s>>
  OBVIOUS
<1>3. body \in Seq(S) /\ Len(body) = 2 /\ body[1] = a /\ body[2] = s /\ l \in S /\ u \in S
  BY <1>1, <1>2, ShortPrograms
<1>4. PICK program : program = <<l>> \o body \o <<u>>
  OBVIOUS
<1>5. /\ Len(program) = 2 + 2 /\ program[1] = l /\ program[Len(program)] = u
      /\ \A i \in 2..Len(program) - 1 : program[i] = body[i - 1]
  <2>1. LET whole == <<l>> \o body \o <<u>>
            k == Len(whole)
        IN  /\ k = Len(body) + 2 /\ whole[1] = l /\ whole[k] = u
            /\ \A i \in 2..k - 1 : whole[i] = body[i - 1]
    <3>1. body \in Seq(S) /\ l \in S /\ u \in S
      BY <1>3
    <3> QED
      BY <3>1, Between
  <2> QED
    BY <1>3, <1>4, <2>1
<1>6. Len(program) = 4 /\ program[4] = u /\ 2 \in 2..Len(program) - 1 /\ 3 \in 2..Len(program) - 1
  BY <1>5
<1>7. program[2] = body[2 - 1] /\ program[3] = body[3 - 1]
  BY <1>5, <1>6
<1>8. program = BufferReceive(held, b, m)
  BY <1>1, <1>2, <1>4 DEF BufferReceive, Guarded
<1> QED
  BY <1>1, <1>3, <1>5, <1>6, <1>7, <1>8

\* A thread at rest that is going to lock the mutex, to add, and to send.
LEMMA FreshReceipt ==
  ASSUME NEW n, NEW b, NEW depth, NEW S, NEW q, NEW program, NEW r \in Seq(S),
         Spliced(q, program, r), AtRest(n, b, q), Len(program) = 4,
         Sense(n, b, program[2]) = "add", Sense(n, b, program[3]) = "send",
         Sense(n, b, program[4]) = "unlock"
  PROVE  Fresh(n, b, depth, Tail(r))
<1>1. /\ Len(q) \in Nat /\ Len(q) >= 1 /\ Len(r) = 4 + Len(q) - 1
      /\ r[2] = program[2] /\ r[3] = program[3] /\ r[4] = program[4]
      /\ \A i \in 2..Len(q) : r[4 + i - 1] = q[i]
  BY DEF Spliced
<1>2. PICK w : w = Tail(r)
  OBVIOUS
<1>3. w \in Seq(S) /\ Len(w) = Len(r) - 1 /\ \A i \in 1..Len(w) : w[i] = r[i + 1]
  BY <1>1, <1>2, HeadTailProperties, EmptySeq
<1>4. PICK v : v = Tail(w)
  OBVIOUS
<1>5. Len(v) = Len(w) - 1 /\ \A i \in 1..Len(v) : v[i] = w[i + 1]
  BY <1>1, <1>3, <1>4, HeadTailProperties, EmptySeq
<1>6. Len(w) = Len(q) + 2 /\ Len(v) = Len(q) + 1
  BY <1>1, <1>3, <1>5
<1>7. \A i \in 1..Len(v) : v[i] = r[i + 2]
  <2> TAKE i \in 1..Len(v)
  <2>1. i + 1 \in 1..Len(w) /\ i + 1 + 1 = i + 2
    BY <1>1, <1>6
  <2> QED
    BY <1>3, <1>5, <2>1
<1>8. v[1] = program[3] /\ v[2] = program[4] /\ w[1] = program[2]
  <2>1. 1 \in 1..Len(v) /\ 2 \in 1..Len(v) /\ 1 \in 1..Len(w)
    BY <1>1, <1>6
  <2>2. v[1] = r[1 + 2] /\ v[2] = r[2 + 2] /\ w[1] = r[1 + 1]
    BY <1>3, <1>7, <2>1
  <2> QED
    BY <1>1, <2>2
<1>9. Holding(n, b, depth, {}, v)
  <2>1. 2 \in 1..Len(v) /\ Sense(n, b, v[2]) = "unlock"
    BY <1>1, <1>6, <1>8
  <2>2. Within(n, b, depth, {}, v[1])
    BY <1>8 DEF Within
  <2>3. ASSUME NEW i \in 1..Len(v)
        PROVE  (i < 2 => Within(n, b, depth, {}, v[i])) /\ (i > 2 => Outside(n, b, v[i]))
    <3>1. CASE i < 2
      <4>1. i = 1
        BY <1>1, <1>6, <3>1
      <4> QED
        BY <2>2, <4>1
    <3>2. CASE i = 2
      BY <3>2
    <3>3. CASE i > 2
      <4>1. i - 1 \in 2..Len(q) /\ 4 + (i - 1) - 1 = i + 2 /\ i - 1 \in 1..Len(q)
        BY <1>1, <1>6, <3>3
      <4>2. v[i] = q[i - 1]
        BY <1>1, <1>7, <4>1
      <4>3. Outside(n, b, v[i])
        BY <4>1, <4>2 DEF AtRest
      <4> QED
        BY <3>3, <4>3
    <3> QED
      BY <1>1, <1>6, <3>1, <3>2, <3>3
  <2> QED
    BY <2>1, <2>3 DEF Holding
<1>10. w # <<>>
  BY <1>1, <1>6, EmptySeq
<1> QED
  BY <1>2, <1>4, <1>8, <1>9, <1>10 DEF Fresh

LEMMA ReceiveSnapshot ==
  ASSUME NEW n, NEW b, NEW depth, Filled(n, b, depth), SnapshotInv(n, b, depth), TypeInv',
         NEW t \in Threads, ReceiveMessage(t)
  PROVE  SnapshotInv(n, b, depth)'
<1>1. PICK q, r, o, m, c, held, x, holds :
        /\ q = todo[t] /\ r = todo'[t] /\ o = Arg(t, 2) /\ m = Arg(t, 3) /\ c = memory[b].count
        /\ held = Held(t) /\ x = OwnMutex(b) /\ holds = (gil = t)
  OBVIOUS
<1>2. TypeInv /\ At(t, "receive")
  BY DEF SnapshotInv, ReceiveMessage
<1>3. /\ q[1] \in Statement /\ q[1][1] = "receive" /\ q[1][2] = o /\ q[1][3] = m
      /\ o \in Nodes /\ m \in Messages
  BY <1>1, <1>2, FirstStatement, StatementSays
<1>4. q[1] = Receive(o, m)
  BY <1>3, SignalIs
<1>5. PICK program \in Receipts(held, holds, o, m) : Continue(t, program)
  BY <1>1 DEF ReceiveMessage
<1>6. program \in Seq(ReceiptWordsOf(o, m)) /\ program \in Program
  BY <1>3, ReceiptPrograms, WordsAreStatements, SmallerPrograms DEF Program
<1>7. UNCHANGED <<owner, memory>>
  BY DEF ReceiveMessage, locks
<1>8. Bounded(n, b)'
  BY <1>7 DEF SnapshotInv, Bounded
<1>9. CASE o # b
  <2>1. Sense(n, b, todo[t][1]) \notin {"lock", "unlock", "add"}
    BY <1>1, <1>4, CallSenses
  <2>2. ASSUME NEW i \in 1..Len(program)
        PROVE  Follows(n, b, depth, {memory[b].count}, todo[t][1], program[i])
    <3>1. program[i] \in ReceiptWordsOf(o, m)
      BY <1>6, ElementOfSeq
    <3>2. Follows(n, b, depth, {c}, Receive(o, m), program[i])
      BY <1>3, <1>9, <3>1, ReceiptFollows
    <3> QED
      BY <1>1, <1>4, <3>2
  <2> QED
    BY <1>2, <1>5, <1>6, <1>7, <1>8, <2>1, <2>2, BesideSnapshot
<1>10. CASE o = b
  <2>1. Sense(n, b, q[1]) = "receive"
    BY <1>4, <1>10, CallSenses
  <2>2. StepsTo(t, program)
    BY <1>2, <1>5, <1>6, ContinueSteps
  <2>3. Spliced(q, program, r) /\ Len(q) \in Nat /\ 1 \in 1..Len(q)
    BY <1>1, <2>2 DEF StepsTo, Spliced
  <2>4. Carries(n, b, depth, q, owner[x] = t, c)
    BY <1>1 DEF SnapshotInv
  <2>5. owner[x] # t /\ AtRest(n, b, q)
    <3>1. \A X : ~Holding(n, b, depth, X, q)
      <4>1. \A X : ~Within(n, b, depth, X, q[1])
        BY <2>1 DEF Within
      <4> QED
        BY <2>1, <2>3, <4>1, HoldingHead
    <3>2. ~Fresh(n, b, depth, q)
      BY <2>1, <3>1 DEF Fresh
    <3> QED
      BY <2>1, <2>4, <3>1, <3>2 DEF Carries
  <2>6. program = BufferReceive(held, b, m) /\ x \notin held
    <3>1. Kind[b] = "buffer" /\ b \in Nodes
      BY FilledDepths
    <3>2. Receipts(held, holds, b, m) = {BufferReceive(held, b, m)}
      BY <3>1, ReceiptPrograms
    <3> QED
      BY <1>1, <1>5, <1>10, <2>5, <3>2 DEF Held
  <2>7. /\ Len(program) = 4
        /\ program[1] = Lock(x) /\ program[2] = Update(b, "add", m)
        /\ program[3] = Update(b, "send", m) /\ program[4] = Unlock(x)
    BY <1>1, <2>6, BufferProgram
  <2>8. /\ Sense(n, b, program[1]) = "lock" /\ Sense(n, b, program[2]) = "add"
        /\ Sense(n, b, program[3]) = "send" /\ Sense(n, b, program[4]) = "unlock"
    <3>1. "add" \in Updates /\ "send" \in Updates
      BY DEF Updates
    <3>2. Sense(n, b, Update(b, "add", m)) = "add" /\ Sense(n, b, Update(b, "send", m)) = "send"
      BY <3>1, UpdateSenses
    <3>3. Sense(n, b, Lock(x)) = "lock" /\ Sense(n, b, Unlock(x)) = "unlock"
      BY <1>1, LockSenses
    <3> QED
      BY <2>7, <3>2, <3>3
  <2>9. r \in Seq(Statement)
    BY <1>1 DEF TypeInv, Program
  <2>10. Fresh(n, b, depth, Tail(r))
    BY <2>3, <2>5, <2>7, <2>8, <2>9, FreshReceipt
  <2>11. r # <<>> /\ Sense(n, b, r[1]) = "lock"
    <3>1. Len(r) >= 1 /\ r[1] = program[1]
      BY <2>3, <2>7 DEF Spliced
    <3> QED
      BY <2>8, <3>1, EmptySeq
  <2>12. Carries(n, b, depth, r, FALSE, c)
    BY <2>10, <2>11 DEF Carries
  <2>13. Carries(n, b, depth, todo'[t], owner'[OwnMutex(b)] = t, memory'[b].count)
    <3>1. memory'[b].count = c /\ (owner'[OwnMutex(b)] = t) = FALSE
      BY <1>1, <1>7, <2>5
    <3> QED
      BY <1>1, <2>12, <3>1
  <2> QED
    BY <1>7, <1>8, <2>2, <2>13, StepSnapshot
<1> QED
  BY <1>9, <1>10

\* What becomes of the count of a buffer.
LEMMA CountsOf ==
  ASSUME NEW was \in Buffers, NEW m \in Messages, NEW how \in {"add", "send", "chop"}
  PROVE  /\ how = "add" => Updated(was, how, m).count = was.count + Len(m.cols)
         /\ how # "add" => Updated(was, how, m).count = was.count
         /\ was.count \in Nat /\ Len(m.cols) \in Nat
<1>1. was.count \in Nat /\ was \in [cols : Seq(Nat), count : Nat] /\ Len(m.cols) \in Nat
  BY Sizes DEF Buffers, Messages
<1>2. how = "add" => Updated(was, how, m) = [cols |-> Shifted(was.cols, m.cols),
                                             count |-> was.count + Len(m.cols)]
  BY DEF Updated
<1>3. how = "chop" => Updated(was, how, m) = [was EXCEPT !.cols = Chopped(@)]
  BY DEF Updated
<1>4. how = "send" => Updated(was, how, m) = was
  BY DEF Updated
<1> QED
  BY <1>1, <1>2, <1>3, <1>4

\* What n is given to remember has the count of the buffer.
LEMMA SnapshotCount ==
  ASSUME NEW n, NEW b, NEW depth, NEW q, NEW own, NEW c, Carries(n, b, depth, q, own, c),
         Len(q) \in Nat, 1 \in 1..Len(q), Sense(n, b, q[1]) = "snapshot"
  PROVE  CountIn(q[1]) = c
<1>1. ~AtRest(n, b, q)
  BY DEF AtRest, Outside
<1>2. ~Fresh(n, b, depth, q)
  <2>1. ~Within(n, b, depth, {}, q[1])
    BY DEF Within
  <2>2. ~Holding(n, b, depth, {}, q)
    BY <2>1, HoldingHead
  <2> QED
    BY <2>2 DEF Fresh
<1>3. Holding(n, b, depth, {c}, q)
  BY <1>1, <1>2 DEF Carries
<1>4. Within(n, b, depth, {c}, q[1])
  BY <1>3, HoldingHead
<1> QED
  BY <1>4 DEF Within

\* The update that t makes.
LEMMA UpdateIs ==
  ASSUME TypeInv, NEW t \in Threads, UpdateMemory(t), NEW o, NEW how, NEW m,
         o = Arg(t, 2), how = Arg(t, 3), m = Arg(t, 4)
  PROVE  /\ o \in Nodes /\ m \in Messages /\ memory[o] \in MemoryOf(Kind[o])
         /\ \/ Kind[o] = "every" /\ how \in {"test", "count", "wrap"}
            \/ Kind[o] = "last" /\ how = "remember"
            \/ Kind[o] = "buffer" /\ how \in {"add", "send", "chop"}
         /\ how \in Updates
         /\ todo[t][1] = Update(o, how, m) /\ Len(todo[t]) \in Nat /\ 1 \in 1..Len(todo[t])
         /\ Continue(t, AfterUpdate(o, memory[o], how, m))
         /\ AfterUpdate(o, memory[o], how, m) \in Program
         /\ memory'[o] = Updated(memory[o], how, m)
         /\ \A x \in Nodes \ {o} : memory'[x] = memory[x]
         /\ owner' = owner
<1>1. PICK q : q = todo[t]
  OBVIOUS
<1>2. q # <<>> /\ q \in Seq(Statement) /\ q[1] \in Statement /\ q[1][1] = "update"
      /\ q[1][2] = o /\ q[1][3] = how /\ q[1][4] = m
  BY <1>1, FirstStatement DEF UpdateMemory, Program
<1>3. /\ o \in Nodes /\ m \in Messages
      /\ \/ Kind[o] = "every" /\ how \in {"test", "count", "wrap"}
         \/ Kind[o] = "last" /\ how = "remember"
         \/ Kind[o] = "buffer" /\ how \in {"add", "send", "chop"}
  BY <1>2, StatementSays
<1>4. q[1] = Update(o, how, m)
  BY <1>2, SignalIs
<1>5. Len(q) \in Nat /\ 1 \in 1..Len(q)
  <2>1. Len(q) \in Nat /\ Len(q) >= 1
    BY <1>2, EmptySeq, LenProperties
  <2> QED
    BY <2>1
<1>6. memory[o] \in MemoryOf(Kind[o])
  BY <1>3 DEF TypeInv
<1>7. AfterUpdate(o, memory[o], how, m) \in Program
  BY <1>3, <1>6, AfterUpdateOK
<1>8. /\ Continue(t, AfterUpdate(o, memory[o], how, m))
      /\ memory' = [memory EXCEPT ![o] = Updated(memory[o], how, m)]
      /\ owner' = owner
  BY DEF UpdateMemory, locks
<1>9. memory'[o] = Updated(memory[o], how, m) /\ \A x \in Nodes \ {o} : memory'[x] = memory[x]
  BY <1>3, <1>8 DEF TypeInv
<1>10. how \in Updates
  BY <1>3 DEF Updates
<1> QED
  BY <1>1, <1>3, <1>4, <1>5, <1>6, <1>7, <1>8, <1>9, <1>10

LEMMA UpdateSnapshot ==
  ASSUME NEW n, NEW b, NEW depth, Filled(n, b, depth), SnapshotInv(n, b, depth), TypeInv',
         NEW t \in Threads, UpdateMemory(t)
  PROVE  /\ SnapshotInv(n, b, depth)'
         /\ memory[n] # None => memory'[n].count >= memory[n].count
<1>1. PICK o, how, m, was, c, q, own, program :
        /\ o = Arg(t, 2) /\ how = Arg(t, 3) /\ m = Arg(t, 4) /\ was = memory[o]
        /\ c = memory[b].count /\ q = todo[t] /\ own = (owner[OwnMutex(b)] = t)
        /\ program = AfterUpdate(o, was, how, m)
  OBVIOUS
<1>2. TypeInv /\ At(t, "update")
  BY DEF SnapshotInv, UpdateMemory
<1>3. /\ o \in Nodes /\ m \in Messages
      /\ \/ Kind[o] = "every" /\ how \in {"test", "count", "wrap"}
         \/ Kind[o] = "last" /\ how = "remember"
         \/ Kind[o] = "buffer" /\ how \in {"add", "send", "chop"}
      /\ how \in Updates
      /\ q[1] = Update(o, how, m) /\ Len(q) \in Nat /\ 1 \in 1..Len(q)
      /\ Continue(t, program) /\ program \in Program
      /\ memory'[o] = Updated(was, how, m)
      /\ \A x \in Nodes \ {o} : memory'[x] = memory[x]
      /\ owner' = owner
  BY <1>1, <1>2, UpdateIs
<1>4. n \in Nodes /\ b \in Nodes /\ n # b /\ Kind[n] = "last" /\ Kind[b] = "buffer"
  BY FilledDepths
<1>5. Carries(n, b, depth, q, own, c)
  BY <1>1 DEF SnapshotInv
<1>6. Sense(n, b, q[1]) = IF o = b THEN how ELSE IF o = n THEN "snapshot" ELSE "other"
  BY <1>3, UpdateSenses
<1>7. memory[b] \in Buffers /\ (memory[n] # None => memory[n] \in Messages /\ memory[n].count \in Nat)
  BY <1>2, <1>4 DEF TypeInv, MemoryOf, Messages
<1>8. c \in Nat /\ (memory[n] # None => memory[n].count <= c)
  BY <1>1, <1>7 DEF Buffers, SnapshotInv, Bounded
<1>9. ASSUME memory'[b].count = c, Bounded(n, b)', ~(o = b /\ how = "add")
      PROVE  SnapshotInv(n, b, depth)'
  <2>1. Sense(n, b, todo[t][1]) \notin {"lock", "unlock", "add"}
    BY <1>1, <1>3, <1>6, <1>9 DEF Updates
  <2>2. ASSUME NEW i \in 1..Len(program)
        PROVE  Follows(n, b, depth, {memory[b].count}, todo[t][1], program[i])
    <3>1. o = b => was.count = c /\ how \in {"add", "send", "chop"}
      BY <1>1, <1>3, <1>4
    <3>2. program = AfterUpdate(o, was, how, m) /\ o \in Nodes /\ how \in Updates
      BY <1>1, <1>3
    <3>3. Follows(n, b, depth, {c}, Update(o, how, m), program[i])
      BY <3>1, <3>2, AfterFollows
    <3> QED
      BY <1>1, <1>3, <3>3
  <2>3. owner'[OwnMutex(b)] = owner[OwnMutex(b)] /\ memory'[b].count = memory[b].count
    BY <1>1, <1>3, <1>9
  <2> QED
    BY <1>2, <1>3, <1>9, <2>1, <2>2, <2>3, BesideSnapshot
<1>10. CASE o # b /\ o # n
  <2>1. memory'[b] = memory[b] /\ memory'[n] = memory[n]
    BY <1>3, <1>4, <1>10
  <2>2. Bounded(n, b)'
    BY <2>1 DEF SnapshotInv, Bounded
  <2> QED
    BY <1>1, <1>7, <1>9, <1>10, <2>1, <2>2
<1>11. CASE o = n
  <2>1. Sense(n, b, q[1]) = "snapshot" /\ how = "remember"
    BY <1>3, <1>4, <1>6, <1>11
  <2>2. m.count = c
    <3>1. CountIn(q[1]) = c
      BY <1>3, <1>5, <2>1, SnapshotCount
    <3>2. CountIn(Update(o, how, m)) = m.count
      BY DEF CountIn, Update
    <3> QED
      BY <1>3, <3>1, <3>2
  <2>3. memory'[n] = m /\ memory'[b] = memory[b]
    BY <1>3, <1>4, <1>11, <2>1 DEF Updated
  <2>4. Bounded(n, b)'
    BY <1>1, <1>8, <2>2, <2>3 DEF Bounded
  <2> QED
    BY <1>1, <1>4, <1>8, <1>9, <1>11, <2>2, <2>3, <2>4
<1>12. CASE o = b
  <2>1. how \in {"add", "send", "chop"} /\ memory'[b] = Updated(was, how, m) /\ was \in Buffers
        /\ memory'[n] = memory[n]
    BY <1>1, <1>3, <1>4, <1>7, <1>12
  <2>2. /\ how = "add" => memory'[b].count = c + Len(m.cols)
        /\ how # "add" => memory'[b].count = c
        /\ Len(m.cols) \in Nat
    BY <1>1, <1>3, <1>12, <2>1, CountsOf
  <2>3. c <= memory'[b].count /\ memory'[b].count \in Nat
    BY <1>8, <2>2
  <2>4. Bounded(n, b)'
    <3>1. memory'[n] # None => memory'[n].count <= memory'[b].count
      BY <1>7, <1>8, <2>1, <2>3
    <3> QED
      BY <3>1 DEF Bounded
  <2>5. CASE how # "add"
    BY <1>1, <1>7, <1>9, <2>1, <2>2, <2>4, <2>5
  <2>6. CASE how = "add"
    <3>1. Sense(n, b, q[1]) = "add"
      BY <1>6, <1>12, <2>6
    <3>2. \A X : ~Holding(n, b, depth, X, q)
      <4>1. \A X : ~Within(n, b, depth, X, q[1])
        BY <3>1 DEF Within
      <4> QED
        BY <1>3, <3>1, <4>1, HoldingHead
    <3>3. own /\ Holding(n, b, depth, {}, Tail(q))
      <4>1. ~AtRest(n, b, q)
        BY <1>3, <3>1 DEF AtRest, Outside
      <4> QED
        BY <1>5, <3>1, <3>2, <4>1 DEF Carries, Fresh
    <3>4. StepsTo(t, program)
      BY <1>2, <1>3, ContinueSteps
    <3>5. todo'[t] = Tail(q)
      <4>1. program = <<>>
        BY <1>1, <2>6, AfterPrograms
      <4>2. todo[t] # <<>> /\ todo[t] \in Program
        BY <1>2, FirstStatement
      <4>3. todo'[t] = program \o Tail(todo[t])
        BY <1>2, <1>3, <4>2, ContinueTyped
      <4>4. Tail(q) \in Seq(Statement)
        BY <1>1, <1>3, <4>2, HeadTailProperties DEF Program
      <4> QED
        BY <1>1, <4>1, <4>3, <4>4
    <3>6. PICK d : d = memory'[b].count
      OBVIOUS
    <3>7. Carries(n, b, depth, Tail(q), TRUE, d)
      <4>1. Holding(n, b, depth, {d}, Tail(q))
        BY <3>3, HoldingMore
      <4> QED
        BY <4>1 DEF Carries
    <3>8. Carries(n, b, depth, todo'[t], owner'[OwnMutex(b)] = t, memory'[b].count)
      <4>1. (owner'[OwnMutex(b)] = t) = TRUE
        BY <1>1, <1>3, <3>3
      <4> QED
        BY <3>5, <3>6, <3>7, <4>1
    <3>9. SnapshotInv(n, b, depth)'
      BY <1>1, <1>3, <2>4, <3>3, <3>4, <3>8, StepSnapshot
    <3> QED
      BY <1>7, <2>1, <3>9
  <2> QED
    BY <2>5, <2>6
<1> QED
  BY <1>10, <1>11, <1>12

\* A thread that has nothing to do goes on with program.
LEMMA StartSnapshot ==
  ASSUME NEW n, NEW b, NEW depth, SnapshotInv(n, b, depth), TypeInv',
         NEW t \in Threads, todo[t] = <<>>, NEW program,
         todo' = [todo EXCEPT ![t] = program],
         UNCHANGED <<owner, memory>>,
         \/ AtRest(n, b, program)
         \/ program # <<>> /\ Sense(n, b, program[1]) = "lock" /\ Fresh(n, b, depth, Tail(program))
  PROVE  SnapshotInv(n, b, depth)'
<1>1. todo'[t] = program /\ \A s \in Threads \ {t} : todo'[s] = todo[s]
  BY DEF SnapshotInv, TypeInv
<1>2. owner[OwnMutex(b)] # t
  <2>1. \A X : ~Holding(n, b, depth, X, <<>>)
    <3>1. Len(<<>>) = 0
      BY EmptySeq
    <3> QED
      BY <3>1 DEF Holding
  <2>2. ~Fresh(n, b, depth, <<>>)
    BY <2>1 DEF Fresh
  <2>3. Carries(n, b, depth, <<>>, owner[OwnMutex(b)] = t, memory[b].count)
    BY DEF SnapshotInv
  <2> QED
    BY <2>1, <2>2, <2>3 DEF Carries
<1>3. ASSUME NEW s \in Threads
      PROVE  Carries(n, b, depth, todo'[s], owner'[OwnMutex(b)] = s, memory'[b].count)
  <2>1. CASE s = t
    BY <1>1, <1>2, <2>1 DEF Carries
  <2>2. CASE s # t
    <3>1. Carries(n, b, depth, todo[s], owner[OwnMutex(b)] = s, memory[b].count)
      BY DEF SnapshotInv
    <3> QED
      BY <1>1, <2>2, <3>1
  <2> QED
    BY <2>1, <2>2
<1>4. Bounded(n, b)'
  BY DEF SnapshotInv, Bounded
<1> QED
  BY <1>3, <1>4 DEF SnapshotInv

\* chop locks the mutex of the buffer, and sends nothing.
LEMMA ChopIsFresh ==
  ASSUME NEW n, NEW b, NEW depth, NEW m, NEW program, program = Binding("chop", b, m)
  PROVE  program # <<>> /\ Sense(n, b, program[1]) = "lock" /\ Fresh(n, b, depth, Tail(program))
<1>1. PICK l, u, p, S : /\ l = Lock(OwnMutex(b)) /\ u = Unlock(OwnMutex(b))
                        /\ p = Update(b, "chop", m) /\ S = {l, u, p}
  OBVIOUS
<1>2. /\ Sense(n, b, l) = "lock" /\ Sense(n, b, u) = "unlock" /\ Sense(n, b, p) = "chop"
      /\ l \in S /\ u \in S /\ p \in S
  <2>1. "chop" \in Updates
    BY DEF Updates
  <2> QED
    BY <1>1, <2>1, LockSenses, UpdateSenses
<1>3. program = <<l, p, u>>
  BY <1>1 DEF Binding
<1>4. program \in Seq(S) /\ Len(program) = 3 /\ program[1] = l /\ program[2] = p /\ program[3] = u
  <2>1. l \in S /\ u \in S /\ p \in S
    BY <1>2
  <2>2. /\ <<l, p, u>> \in Seq(S) /\ Len(<<l, p, u>>) = 3
        /\ <<l, p, u>>[1] = l /\ <<l, p, u>>[2] = p /\ <<l, p, u>>[3] = u
    BY <2>1, ShortPrograms
  <2> QED
    BY <1>3, <2>2
<1>5. PICK w : w = Tail(program)
  OBVIOUS
<1>6. Len(w) = 2 /\ \A i \in 1..2 : w[i] = program[i + 1]
  BY <1>4, <1>5, HeadTailProperties, EmptySeq
<1>7. w[1] = p /\ w[2] = u
  <2>1. w[1] = program[1 + 1] /\ w[2] = program[2 + 1]
    BY <1>6
  <2> QED
    BY <1>4, <2>1
<1>8. Within(n, b, depth, {}, p)
  BY <1>2 DEF Within
<1>9. Holding(n, b, depth, {}, w)
  <2>1. \A i \in 1..2 : (i < 2 => i = 1) /\ ~(i > 2)
    OBVIOUS
  <2> QED
    BY <1>2, <1>6, <1>7, <1>8, <2>1 DEF Holding
<1> QED
  BY <1>2, <1>4, <1>5, <1>9, EmptySeq DEF Fresh

\* What the program calls is done at rest, or is chop.
LEMMA BindingRests ==
  ASSUME NEW n, NEW b, NEW depth, Filled(n, b, depth), NEW c \in Calls, NEW m,
         NEW program, program = Binding(c[1], c[2], m)
  PROVE  \/ AtRest(n, b, program)
         \/ program # <<>> /\ Sense(n, b, program[1]) = "lock" /\ Fresh(n, b, depth, Tail(program))
<1>1. PICK call, o : call = c[1] /\ o = c[2]
  OBVIOUS
<1>2. /\ call \in CallNames /\ o \in Nodes
      /\ call = "chop" => Kind[o] = "buffer"
      /\ call = "last_message" => Kind[o] = "last"
  BY <1>1, CallsOf
<1>3. Kind[n] = "last" /\ Kind[b] = "buffer"
  BY FilledDepths
<1>4. /\ call \in {"signal", "signal object"} => o # b
      /\ call = "receive" => o # n
  BY <1>1 DEF Filled, RemembersBuffer, OnlyThrough, Sends
<1>5. program = Binding(call, o, m) /\ program \in Seq(BindingWordsOf(call, o, m))
  BY <1>1, <1>2, BindingPrograms
<1>6. CASE call = "chop" /\ o = b
  BY <1>5, <1>6, ChopIsFresh
<1>7. CASE ~(call = "chop" /\ o = b)
  <2>1. ASSUME NEW s \in BindingWordsOf(call, o, m)
        PROVE  Outside(n, b, s)
    <3>1. CASE s = GiveGil \/ s = TakeGil
      <4>1. s[1] \in {"give gil", "take gil"}
        BY <3>1, PlainWords
      <4>2. Sense(n, b, s) = "other"
        BY <4>1, OtherSenses
      <4> QED
        BY <4>2 DEF Outside
    <3>2. CASE call \in Sends /\ s \notin {GiveGil, TakeGil}
      <4>1. \/ call \in {"signal", "signal object"} /\ s = Signal(o, FromPython(m))
            \/ call = "receive" /\ s = Receive(o, FromPython(m))
        BY <2>1, <3>2 DEF BindingWordsOf, Sends
      <4>2. Outside(n, b, Signal(o, FromPython(m))) <=> o # b
        BY CallSenses
      <4>3. Outside(n, b, Receive(o, FromPython(m))) <=> o = b \/ o # n
        BY CallSenses
      <4> QED
        BY <1>4, <4>1, <4>2, <4>3
    <3>3. CASE call \in {"connect", "has_observers", ">"} /\ s \notin {GiveGil, TakeGil}
      <4>1. s \in {Lock(ObserversMutex(o)), Unlock(ObserversMutex(o))}
        BY <2>1, <3>3 DEF BindingWordsOf
      <4>2. PICK x : x = ObserversMutex(o) /\ x # OwnMutex(b)
        BY MutexNames
      <4>3. Sense(n, b, Lock(x)) = "other" /\ Sense(n, b, Unlock(x)) = "other"
        BY <4>2, LockSenses
      <4> QED
        BY <4>1, <4>2, <4>3 DEF Outside
    <3>4. CASE call \in {"last_message", "chop"} /\ s \notin {GiveGil, TakeGil}
      <4>1. \/ s \in {Lock(OwnMutex(o)), Unlock(OwnMutex(o))}
            \/ call = "chop" /\ s = Update(o, "chop", m)
        BY <2>1, <3>4 DEF BindingWordsOf
      <4>2. o # b
        <5>1. call = "last_message" => Kind[o] # "buffer"
          BY <1>2
        <5> QED
          BY <1>3, <1>7, <3>4, <5>1
      <4>3. PICK x : x = OwnMutex(o) /\ x # OwnMutex(b)
        <5>1. OwnMutex(o) # OwnMutex(b)
          BY <4>2 DEF OwnMutex
        <5> QED
          BY <5>1
      <4>4. Sense(n, b, Lock(x)) = "other" /\ Sense(n, b, Unlock(x)) = "other"
        BY <4>3, LockSenses
      <4>5. call = "chop" => Outside(n, b, Update(o, "chop", m))
        <5>1. "chop" \in Updates
          BY DEF Updates
        <5> QED
          BY <1>2, <1>3, <4>2, <5>1, UpdateSenses
      <4> QED
        BY <4>1, <4>3, <4>4, <4>5 DEF Outside
    <3>5. CASE call \in {"start", "stop"} /\ s \notin {GiveGil, TakeGil}
      <4>1. s \in {Start(o), RequestStop(o), Join(o)}
        BY <2>1, <3>5 DEF BindingWordsOf
      <4>2. s[1] \in {"start", "request stop", "join"}
        BY <4>1, ThreadWords
      <4>3. Sense(n, b, s) = "other"
        BY <4>2, OtherSenses
      <4> QED
        BY <4>3 DEF Outside
    <3> QED
      BY <1>2, <3>1, <3>2, <3>3, <3>4, <3>5 DEF CallNames
  <2>2. \A i \in 1..Len(program) : program[i] \in BindingWordsOf(call, o, m)
    BY <1>5, ElementOfSeq
  <2> QED
    BY <2>1, <2>2 DEF AtRest
<1> QED
  BY <1>6, <1>7

LEMMA InitSnapshot ==
  ASSUME NEW n, NEW b, NEW depth, Filled(n, b, depth), Init
  PROVE  SnapshotInv(n, b, depth)
<1>1. n \in Nodes /\ b \in Nodes /\ Kind[n] = "last" /\ TypeInv
  BY FilledDepths, InitTyped
<1>2. Len(<<>>) = 0
  BY EmptySeq
<1>3. ASSUME NEW t \in Threads
      PROVE  Carries(n, b, depth, todo[t], owner[OwnMutex(b)] = t, memory[b].count)
  <2>1. todo[t] = <<>> /\ owner[OwnMutex(b)] # t
    BY <1>1, MutexesOf, NoneIsNoThread DEF Init
  <2>2. AtRest(n, b, <<>>)
    BY <1>2 DEF AtRest
  <2> QED
    BY <2>1, <2>2 DEF Carries
<1>4. Bounded(n, b)
  BY <1>1 DEF Init, InitialMemory, Bounded
<1> QED
  BY <1>1, <1>3, <1>4 DEF SnapshotInv

LEMMA NextSnapshot ==
  ASSUME NEW n, NEW b, NEW depth, Filled(n, b, depth), SnapshotInv(n, b, depth), [Next]_vars
  PROVE  /\ SnapshotInv(n, b, depth)'
         /\ memory[n] # None => memory'[n].count >= memory[n].count
<1> DEFINE Grows == memory[n] # None => memory'[n].count >= memory[n].count
<1>1. TypeInv /\ TypeInv'
  BY NextTyped DEF SnapshotInv
<1>2. memory' = memory => Grows
  <2>1. memory[n] # None => memory[n].count \in Nat
    <3>1. n \in Nodes /\ Kind[n] = "last"
      BY FilledDepths
    <3> QED
      BY <1>1, <3>1 DEF TypeInv, MemoryOf, Messages
  <2> QED
    BY <2>1
<1>3. CASE \E t \in Threads : Execute(t)
  <2>1. PICK t \in Threads : Execute(t)
    BY <1>3
  <2>2. CASE UpdateMemory(t)
    BY <1>1, <2>2, UpdateSnapshot
  <2>3. CASE ~UpdateMemory(t)
    <3>1. UNCHANGED memory
      BY <2>1, <2>3 DEF Execute, LockMutex, UnlockMutex, AcquireGil, ReleaseGil, Python,
                        SignalMessage, ReceiveMessage, ReleaseMessage, StartThread, AskToStop,
                        JoinThread
    <3>2. SnapshotInv(n, b, depth)'
      BY <1>1, <2>1, <2>3, LockSnapshot, UnlockSnapshot, PlainSnapshot, SignalSnapshot,
         ReceiveSnapshot DEF Execute
    <3> QED
      BY <1>2, <3>1, <3>2
  <2> QED
    BY <2>2, <2>3
<1>4. ASSUME NEW t \in Threads, todo[t] = <<>>, NEW s, Outside(n, b, s),
             todo' = [todo EXCEPT ![t] = <<s>>], UNCHANGED <<owner, memory>>
      PROVE  SnapshotInv(n, b, depth)' /\ Grows
  <2>1. AtRest(n, b, <<s>>)
    <3>1. \A i \in 1..Len(<<s>>) : <<s>>[i] = s
      OBVIOUS
    <3> QED
      BY <1>4, <3>1 DEF AtRest
  <2> QED
    BY <1>1, <1>2, <1>4, <2>1, StartSnapshot
<1>5. ASSUME NEW g \in Runnable, Trigger(g) PROVE SnapshotInv(n, b, depth)' /\ Grows
  <2>1. PICK m, s : m = NewMessage(made') /\ s = Signal(g, m)
    OBVIOUS
  <2>2. g \in Threads /\ g # b
    BY FilledDepths, InterpreterAssumption DEF Threads
  <2>3. Outside(n, b, s)
    BY <2>1, <2>2, CallSenses
  <2>4. /\ todo[g] = <<>> /\ todo' = [todo EXCEPT ![g] = <<s>>]
        /\ UNCHANGED <<owner, memory>>
    BY <1>5, <2>1 DEF Trigger, locks
  <2> QED
    BY <1>4, <2>2, <2>3, <2>4
<1>6. CASE Call
  <2>1. PICK c \in Calls : todo' = [todo EXCEPT ![Main] = Binding(c[1], c[2], NewMessage(made'))]
    BY <1>6 DEF Call
  <2>2. PICK m, program : m = NewMessage(made') /\ program = Binding(c[1], c[2], m)
    OBVIOUS
  <2>3. \/ AtRest(n, b, program)
        \/ program # <<>> /\ Sense(n, b, program[1]) = "lock" /\ Fresh(n, b, depth, Tail(program))
    BY <2>2, BindingRests
  <2>4. /\ todo[Main] = <<>> /\ todo' = [todo EXCEPT ![Main] = program]
        /\ UNCHANGED <<owner, memory>> /\ Main \in Threads
    BY <1>6, <2>1, <2>2 DEF Call, locks, Threads
  <2>5. SnapshotInv(n, b, depth)'
    BY <1>1, <2>3, <2>4, StartSnapshot
  <2> QED
    BY <1>2, <2>4, <2>5
<1>7. CASE Pause
  <2>1. Outside(n, b, RunPython)
    <3>1. Sense(n, b, RunPython) = "other"
      BY PlainWords, OtherSenses
    <3> QED
      BY <3>1 DEF Outside
  <2>2. /\ todo[Main] = <<>> /\ todo' = [todo EXCEPT ![Main] = <<RunPython>>]
        /\ UNCHANGED <<owner, memory>> /\ Main \in Threads
    BY <1>7 DEF Pause, locks, Threads
  <2> QED
    BY <1>4, <2>1, <2>2
<1>8. CASE UNCHANGED <<todo, owner, memory>>
  <2>1. SnapshotInv(n, b, depth)'
    BY <1>1, <1>8 DEF SnapshotInv, Bounded
  <2> QED
    BY <1>2, <1>8, <2>1
<1>9. (\E g \in Runnable : LoopEnds(g)) \/ UNCHANGED vars => UNCHANGED <<todo, owner, memory>>
  BY DEF LoopEnds, vars, locks
<1> QED
  BY <1>3, <1>5, <1>6, <1>7, <1>8, <1>9 DEF Next

-----------------------------------------------------------------------------
(* A graph without a buffer: no message has counted anything.              *)

Uncounted(above, s) ==
  s[1] \in {"signal", "receive", "update"} /\ s[2] \in above => CountIn(s) = 0

LEMMA UncountedCalls ==
  ASSUME NEW above, NEW o, NEW m, NEW how
  PROVE  /\ Uncounted(above, Signal(o, m)) <=> (o \in above => m.count = 0)
         /\ Uncounted(above, Receive(o, m)) <=> (o \in above => m.count = 0)
         /\ Uncounted(above, Update(o, how, m)) <=> (o \in above => m.count = 0)
<1>1. PICK s, r, u : s = Signal(o, m) /\ r = Receive(o, m) /\ u = Update(o, how, m)
  OBVIOUS
<1>2. /\ s[1] = "signal" /\ s[2] = o /\ s[3] = m
      /\ r[1] = "receive" /\ r[2] = o /\ r[3] = m
      /\ u[1] = "update" /\ u[2] = o /\ u[4] = m
  BY <1>1, SignalWords, UpdateWords
<1>3. CountIn(s) = m.count /\ CountIn(r) = m.count /\ CountIn(u) = m.count
  BY <1>2 DEF CountIn
<1>4. /\ Uncounted(above, s) <=> (o \in above => m.count = 0)
      /\ Uncounted(above, r) <=> (o \in above => m.count = 0)
      /\ Uncounted(above, u) <=> (o \in above => m.count = 0)
  BY <1>2, <1>3 DEF Uncounted
<1> QED
  BY <1>1, <1>4

LEMMA UncountedOthers ==
  ASSUME NEW above
  PROVE  /\ \A s : s[1] \notin {"signal", "receive", "update"} => Uncounted(above, s)
         /\ \A x : Uncounted(above, Lock(x)) /\ Uncounted(above, Unlock(x))
         /\ \A m : Uncounted(above, Release(m))
         /\ Uncounted(above, TakeGil) /\ Uncounted(above, GiveGil) /\ Uncounted(above, RunPython)
         /\ \A o : /\ Uncounted(above, Start(o)) /\ Uncounted(above, RequestStop(o))
                   /\ Uncounted(above, Join(o))
<1>1. \A s : s[1] \notin {"signal", "receive", "update"} => Uncounted(above, s)
  BY DEF Uncounted
<1>2. \A x : Uncounted(above, Lock(x)) /\ Uncounted(above, Unlock(x))
  BY <1>1, LockWords
<1>3. \A m : Uncounted(above, Release(m))
  BY <1>1, ReleaseWords
<1>4. Uncounted(above, TakeGil) /\ Uncounted(above, GiveGil) /\ Uncounted(above, RunPython)
  BY <1>1, PlainWords
<1>5. \A o : /\ Uncounted(above, Start(o)) /\ Uncounted(above, RequestStop(o))
             /\ Uncounted(above, Join(o))
  BY <1>1, ThreadWords
<1> QED
  BY <1>1, <1>2, <1>3, <1>4, <1>5

UncountedInv(above) ==
  /\ TypeInv
  /\ \A t \in Threads : \A i \in 1..Len(todo[t]) : Uncounted(above, todo[t][i])
  /\ \A n \in above : Kind[n] = "last" /\ memory[n] # None => memory[n].count = 0

\* A statement goes on with statements that are no worse.
LEMMA StepUncounted ==
  ASSUME NEW above, UncountedInv(above), TypeInv', NEW t \in Threads, NEW what, At(t, what),
         NEW program \in Program, Continue(t, program),
         Uncounted(above, todo[t][1]) => \A i \in 1..Len(program) : Uncounted(above, program[i]),
         \A n \in above : Kind[n] = "last" /\ memory'[n] # None => memory'[n].count = 0
  PROVE  UncountedInv(above)'
<1>1. StepsTo(t, program)
  BY ContinueSteps DEF UncountedInv
<1>2. PICK q, r : q = todo[t] /\ r = todo'[t]
  OBVIOUS
<1>3. Spliced(q, program, r) /\ \A i \in 1..Len(q) : Uncounted(above, q[i])
  BY <1>1, <1>2 DEF StepsTo, UncountedInv
<1>4. Len(q) \in Nat /\ 1 \in 1..Len(q)
  BY <1>3 DEF Spliced
<1>5. ASSUME NEW i \in 1..Len(r) PROVE Uncounted(above, r[i])
  <2>1. CASE i \in 1..Len(program) /\ r[i] = program[i]
    BY <1>2, <1>3, <1>4, <2>1
  <2>2. CASE \E j \in 2..Len(q) : i = Len(program) + j - 1 /\ r[i] = q[j]
    <3>1. PICK j \in 2..Len(q) : r[i] = q[j]
      BY <2>2
    <3>2. j \in 1..Len(q)
      BY <1>4
    <3> QED
      BY <1>3, <3>1, <3>2
  <2> QED
    BY <1>3, <2>1, <2>2, SplicedFrom
<1>6. ASSUME NEW s \in Threads PROVE \A i \in 1..Len(todo'[s]) : Uncounted(above, todo'[s][i])
  <2>1. CASE s = t
    BY <1>2, <1>5, <2>1
  <2>2. CASE s # t
    <3>1. todo'[s] = todo[s]
      BY <1>1, <2>2 DEF StepsTo
    <3> QED
      BY <3>1 DEF UncountedInv
  <2> QED
    BY <2>1, <2>2
<1> QED
  BY <1>6 DEF UncountedInv

LEMMA StartUncounted ==
  ASSUME NEW above, UncountedInv(above), TypeInv', NEW t \in Threads, NEW program,
         todo' = [todo EXCEPT ![t] = program], UNCHANGED memory,
         \A i \in 1..Len(program) : Uncounted(above, program[i])
  PROVE  UncountedInv(above)'
<1>1. todo'[t] = program /\ \A s \in Threads \ {t} : todo'[s] = todo[s]
  BY DEF UncountedInv, TypeInv
<1>2. ASSUME NEW s \in Threads PROVE \A i \in 1..Len(todo'[s]) : Uncounted(above, todo'[s][i])
  <2>1. CASE s = t
    BY <1>1, <2>1
  <2>2. CASE s # t
    <3>1. todo'[s] = todo[s]
      BY <1>1, <2>2
    <3> QED
      BY <3>1 DEF UncountedInv
  <2> QED
    BY <2>1, <2>2
<1> QED
  BY <1>2 DEF UncountedInv

LEMMA FromPythonCounts ==
  ASSUME NEW m \in Messages
  PROVE  FromPython(m).count = m.count
BY DEF FromPython, Messages

\* What a signal and a receive bring about.
LEMMA CallsUncounted ==
  ASSUME NEW n, NEW above, BelowNoBuffer(n, above), NEW o \in Nodes, NEW m \in Messages, NEW next
  PROVE  /\ next \in SignalWordsOf(o, m) /\ Uncounted(above, Signal(o, m)) => Uncounted(above, next)
         /\ next \in ReceiptWordsOf(o, m) /\ Uncounted(above, Receive(o, m))
              => Uncounted(above, next)
<1>1. ASSUME next \in SignalWordsOf(o, m), Uncounted(above, Signal(o, m))
      PROVE  Uncounted(above, next)
  <2>1. CASE next = Lock(ObserversMutex(o)) \/ next = Unlock(ObserversMutex(o))
    BY <2>1, UncountedOthers
  <2>2. CASE \E e \in Range(Observers[o]) : next = Receive(e, m)
    <3>1. PICK e \in Range(Observers[o]) : next = Receive(e, m)
      BY <2>2
    <3>2. e \in above => o \in above
      <4>1. e \in above => Range(Observers[o]) \cap above # {}
        OBVIOUS
      <4> QED
        BY <4>1 DEF BelowNoBuffer
    <3>3. o \in above => m.count = 0
      BY <1>1, UncountedCalls
    <3> QED
      BY <3>1, <3>2, <3>3, UncountedCalls
  <2> QED
    BY <1>1, <2>1, <2>2 DEF SignalWordsOf
<1>2. ASSUME next \in ReceiptWordsOf(o, m), Uncounted(above, Receive(o, m))
      PROVE  Uncounted(above, next)
  <2>1. o \in above => m.count = 0 /\ FromPython(m).count = 0
    BY <1>2, UncountedCalls, FromPythonCounts
  <2>2. CASE next \in {Lock(OwnMutex(o)), Unlock(OwnMutex(o)), TakeGil, GiveGil, RunPython,
                       Release(FromPython(m))}
    BY <2>2, UncountedOthers
  <2>3. CASE next = Signal(o, m) \/ next = Signal(o, FromPython(m))
    BY <2>1, <2>3, UncountedCalls
  <2>4. CASE next \in UpdateWordsOf(o, m)
    <3>1. \E how : next = Update(o, how, m)
      BY <2>4 DEF UpdateWordsOf
    <3> QED
      BY <2>1, <3>1, UncountedCalls
  <2> QED
    BY <1>2, <2>2, <2>3, <2>4 DEF ReceiptWordsOf
<1> QED
  BY <1>1, <1>2

LEMMA UpdateUncounted ==
  ASSUME NEW n, NEW above, BelowNoBuffer(n, above), UncountedInv(above), TypeInv',
         NEW t \in Threads, UpdateMemory(t)
  PROVE  UncountedInv(above)'
<1>1. PICK o, how, m, was, program :
        /\ o = Arg(t, 2) /\ how = Arg(t, 3) /\ m = Arg(t, 4) /\ was = memory[o]
        /\ program = AfterUpdate(o, was, how, m)
  OBVIOUS
<1>2. TypeInv /\ At(t, "update")
  BY DEF UncountedInv, UpdateMemory
<1>3. /\ o \in Nodes /\ m \in Messages /\ was \in MemoryOf(Kind[o])
      /\ \/ Kind[o] = "every" /\ how \in {"test", "count", "wrap"}
         \/ Kind[o] = "last" /\ how = "remember"
         \/ Kind[o] = "buffer" /\ how \in {"add", "send", "chop"}
      /\ todo[t][1] = Update(o, how, m) /\ 1 \in 1..Len(todo[t])
      /\ Continue(t, program) /\ program \in Program
      /\ memory'[o] = Updated(was, how, m)
      /\ \A x \in Nodes \ {o} : memory'[x] = memory[x]
  BY <1>1, <1>2, UpdateIs
<1>4. Uncounted(above, Update(o, how, m))
  BY <1>3 DEF UncountedInv
<1>5. o \in above => m.count = 0 /\ Kind[o] # "buffer"
  BY <1>4, UncountedCalls DEF BelowNoBuffer
<1>6. ASSUME NEW i \in 1..Len(program) PROVE Uncounted(above, program[i])
  <2>0. program = AfterUpdate(o, was, how, m)
    BY <1>1
  <2>1. CASE how = "test"
    <3>1. program = <<Signal(o, m)>> \/ program = <<>>
      BY <2>0, <2>1 DEF AfterUpdate
    <3>2. PICK s : s = Signal(o, m)
      OBVIOUS
    <3>3. Uncounted(above, s)
      BY <1>5, <3>2, UncountedCalls
    <3> QED
      BY <3>1, <3>2, <3>3
  <2>2. CASE how = "remember"
    <3>1. program = <<Release(was)>> \/ program = <<>>
      BY <2>0, <2>2 DEF AfterUpdate
    <3>2. PICK s : s = Release(was)
      OBVIOUS
    <3>3. Uncounted(above, s)
      BY <3>2, UncountedOthers
    <3> QED
      BY <3>1, <3>2, <3>3
  <2>3. CASE how = "send"
    <3>1. o \notin above
      BY <1>3, <1>5, <2>3
    <3>2. PICK m1, s : m1 = Message(FALSE, was.cols, was.count) /\ s = Signal(o, m1)
      OBVIOUS
    <3>3. program = <<s>>
      BY <2>0, <2>3, <3>2, AfterPrograms
    <3>4. Uncounted(above, s)
      BY <3>1, <3>2, UncountedCalls
    <3> QED
      BY <3>3, <3>4
  <2>4. CASE how \in {"count", "wrap", "add", "chop"}
    <3>1. program = <<>>
      BY <2>0, <2>4, AfterPrograms
    <3> QED
      BY <3>1
  <2> QED
    BY <1>3, <2>1, <2>2, <2>3, <2>4
<1>7. ASSUME NEW x \in above, Kind[x] = "last", memory'[x] # None PROVE memory'[x].count = 0
  <2>0. x \in Nodes
    BY DEF BelowNoBuffer
  <2>1. CASE x = o
    <3>1. memory'[x] = m
      BY <1>3, <1>7, <2>1 DEF Updated
    <3> QED
      BY <1>5, <2>1, <3>1
  <2>2. CASE x # o
    BY <1>3, <1>7, <2>0, <2>2 DEF UncountedInv
  <2> QED
    BY <2>1, <2>2
<1> QED
  BY <1>2, <1>3, <1>6, <1>7, StepUncounted

LEMMA ExecuteUncounted ==
  ASSUME NEW n, NEW above, BelowNoBuffer(n, above), UncountedInv(above), TypeInv',
         NEW t \in Threads, Execute(t)
  PROVE  UncountedInv(above)'
<1>1. TypeInv
  BY DEF UncountedInv
<1>2. memory' = memory => \A x \in above :
                            Kind[x] = "last" /\ memory'[x] # None => memory'[x].count = 0
  BY DEF UncountedInv
<1>3. CASE LockMutex(t) \/ UnlockMutex(t)
  <2>1. PICK what : At(t, what)
    BY <1>3 DEF LockMutex, UnlockMutex
  <2>2. memory' = memory /\ Continue(t, <<>>) /\ <<>> \in Program /\ Len(<<>>) = 0
    BY <1>3, PlainPrograms, EmptySeq DEF LockMutex, UnlockMutex
  <2>3. \A i \in 1..Len(<<>>) : Uncounted(above, <<>>[i])
    BY <2>2
  <2> QED
    BY <1>2, <2>1, <2>2, <2>3, StepUncounted
<1>4. CASE AcquireGil(t) \/ ReleaseGil(t) \/ Python(t) \/ ReleaseMessage(t)
             \/ StartThread(t) \/ AskToStop(t) \/ JoinThread(t)
  <2>1. PICK what, program :
          /\ program \in Seq({TakeGil, GiveGil})
          /\ At(t, what) /\ Continue(t, program) /\ program \in Program
    BY <1>4, PlainSteps
  <2>2. ASSUME NEW i \in 1..Len(program) PROVE Uncounted(above, program[i])
    <3>1. program[i] \in {TakeGil, GiveGil}
      BY <2>1, ElementOfSeq
    <3> QED
      BY <3>1, UncountedOthers
  <2>3. memory' = memory
    BY <1>4, PlainSteps
  <2> QED
    BY <1>2, <2>1, <2>2, <2>3, StepUncounted
<1>5. CASE SignalMessage(t)
  <2>1. PICK o, m, s : o = Arg(t, 2) /\ m = Arg(t, 3) /\ s = todo[t][1]
    OBVIOUS
  <2>2. At(t, "signal") /\ Continue(t, SignalBody(Held(t), o, m)) /\ memory' = memory
    BY <1>5, <2>1 DEF SignalMessage
  <2>3. /\ s \in Statement /\ s[1] = "signal" /\ s[2] = o /\ s[3] = m
        /\ o \in Nodes /\ m \in Messages
    BY <1>1, <2>1, <2>2, FirstStatement, StatementSays
  <2>4. s = Signal(o, m)
    BY <2>3, SignalIs
  <2>5. PICK program : program = SignalBody(Held(t), o, m)
    OBVIOUS
  <2>6. program \in Seq(SignalWordsOf(o, m)) /\ SignalWordsOf(o, m) \subseteq Statement
    BY <2>3, <2>5, SignalProgram, WordsAreStatements
  <2>7. program \in Program
    BY <2>6, SmallerPrograms DEF Program
  <2>8. ASSUME Uncounted(above, s), NEW i \in 1..Len(program)
        PROVE  Uncounted(above, program[i])
    <3>1. program[i] \in SignalWordsOf(o, m)
      BY <2>6, ElementOfSeq
    <3> QED
      BY <2>3, <2>4, <2>8, <3>1, CallsUncounted
  <2>9. Uncounted(above, todo[t][1]) => \A i \in 1..Len(program) : Uncounted(above, program[i])
    BY <2>1, <2>8
  <2> QED
    BY <1>2, <2>2, <2>5, <2>7, <2>9, StepUncounted
<1>6. CASE ReceiveMessage(t)
  <2>1. PICK o, m, s, held, holds :
          o = Arg(t, 2) /\ m = Arg(t, 3) /\ s = todo[t][1] /\ held = Held(t) /\ holds = (gil = t)
    OBVIOUS
  <2>2. At(t, "receive") /\ memory' = memory
    BY <1>6 DEF ReceiveMessage
  <2>3. /\ s \in Statement /\ s[1] = "receive" /\ s[2] = o /\ s[3] = m
        /\ o \in Nodes /\ m \in Messages
    BY <1>1, <2>1, <2>2, FirstStatement, StatementSays
  <2>4. s = Receive(o, m)
    BY <2>3, SignalIs
  <2>5. PICK program \in Receipts(held, holds, o, m) : Continue(t, program)
    BY <1>6, <2>1 DEF ReceiveMessage
  <2>6. program \in Seq(ReceiptWordsOf(o, m)) /\ program \in Program
    BY <2>3, ReceiptPrograms, WordsAreStatements, SmallerPrograms DEF Program
  <2>7. ASSUME Uncounted(above, s), NEW i \in 1..Len(program)
        PROVE  Uncounted(above, program[i])
    <3>1. program[i] \in ReceiptWordsOf(o, m)
      BY <2>6, ElementOfSeq
    <3> QED
      BY <2>3, <2>4, <2>7, <3>1, CallsUncounted
  <2>8. Uncounted(above, todo[t][1]) => \A i \in 1..Len(program) : Uncounted(above, program[i])
    BY <2>1, <2>7
  <2> QED
    BY <1>2, <2>2, <2>5, <2>6, <2>8, StepUncounted
<1>7. CASE UpdateMemory(t)
  BY <1>7, UpdateUncounted
<1> QED
  BY <1>3, <1>4, <1>5, <1>6, <1>7 DEF Execute

LEMMA NextUncounted ==
  ASSUME NEW n, NEW above, BelowNoBuffer(n, above), UncountedInv(above), [Next]_vars
  PROVE  UncountedInv(above)'
<1>1. TypeInv /\ TypeInv'
  BY NextTyped DEF UncountedInv
<1>2. CASE \E t \in Threads : Execute(t)
  BY <1>1, <1>2, ExecuteUncounted
<1>3. \A k : NewMessage(k).count = 0
  BY DEF NewMessage, Message
<1>4. ASSUME NEW g \in Runnable, Trigger(g) PROVE UncountedInv(above)'
  <2>1. PICK m, s : m = NewMessage(made') /\ s = Signal(g, m)
    OBVIOUS
  <2>2. Uncounted(above, s)
    BY <1>3, <2>1, UncountedCalls
  <2>3. \A i \in 1..Len(<<s>>) : Uncounted(above, <<s>>[i])
    BY <2>2
  <2>4. todo' = [todo EXCEPT ![g] = <<s>>] /\ UNCHANGED memory /\ g \in Threads
    BY <1>4, <2>1 DEF Trigger, Threads
  <2> QED
    BY <1>1, <2>3, <2>4, StartUncounted
<1>5. CASE Call
  <2>1. PICK c \in Calls : todo' = [todo EXCEPT ![Main] = Binding(c[1], c[2], NewMessage(made'))]
    BY <1>5 DEF Call
  <2>2. PICK k, m, call, o, program :
          /\ k = made' /\ m = NewMessage(k) /\ call = c[1] /\ o = c[2]
          /\ program = Binding(call, o, m)
    OBVIOUS
  <2>3. call \in CallNames /\ m \in Messages /\ m.count = 0 /\ FromPython(m).count = 0
    <3>1. k \in Nat
      BY <1>1, <2>2 DEF TypeInv
    <3>2. m \in Messages /\ m.count = 0
      BY <1>3, <2>2, <3>1, NewMessageOK
    <3> QED
      BY <2>2, <3>2, CallsOf, FromPythonCounts
  <2>4. ASSUME NEW s \in BindingWordsOf(call, o, m) PROVE Uncounted(above, s)
    <3>1. \/ s \in {GiveGil, TakeGil}
          \/ s \in {Signal(o, FromPython(m)), Receive(o, FromPython(m)), Update(o, "chop", m)}
          \/ s \in {Lock(ObserversMutex(o)), Unlock(ObserversMutex(o)),
                    Lock(OwnMutex(o)), Unlock(OwnMutex(o))}
          \/ s \in {Start(o), RequestStop(o), Join(o)}
      BY <2>3, <2>4 DEF BindingWordsOf, CallNames, Sends
    <3>2. s \in {Signal(o, FromPython(m)), Receive(o, FromPython(m)), Update(o, "chop", m)}
            => Uncounted(above, s)
      BY <2>3, UncountedCalls
    <3> QED
      BY <3>1, <3>2, UncountedOthers
  <2>5. \A i \in 1..Len(program) : Uncounted(above, program[i])
    <3>1. program \in Seq(BindingWordsOf(call, o, m))
      BY <2>2, <2>3, BindingPrograms
    <3> QED
      BY <2>4, <3>1, ElementOfSeq
  <2>6. todo' = [todo EXCEPT ![Main] = program] /\ UNCHANGED memory /\ Main \in Threads
    BY <1>5, <2>1, <2>2 DEF Call, Threads
  <2> QED
    BY <1>1, <2>5, <2>6, StartUncounted
<1>6. CASE Pause
  <2>1. \A i \in 1..Len(<<RunPython>>) : Uncounted(above, <<RunPython>>[i])
    BY UncountedOthers
  <2>2. todo' = [todo EXCEPT ![Main] = <<RunPython>>] /\ UNCHANGED memory /\ Main \in Threads
    BY <1>6 DEF Pause, Threads
  <2> QED
    BY <1>1, <2>1, <2>2, StartUncounted
<1>7. CASE UNCHANGED <<todo, memory>>
  BY <1>1, <1>7 DEF UncountedInv
<1>8. (\E g \in Runnable : LoopEnds(g)) \/ UNCHANGED vars => UNCHANGED <<todo, memory>>
  BY DEF LoopEnds, vars
<1> QED
  BY <1>2, <1>4, <1>5, <1>6, <1>7, <1>8 DEF Next

LEMMA RemembersUncounted ==
  ASSUME NEW above, NEW n \in above, Kind[n] = "last", BelowNoBuffer(n, above),
         UncountedInv(above), [Next]_vars
  PROVE  memory'[n] = memory[n] \/ memory'[n].count = 0
<1>1. CASE \E t \in Threads : UpdateMemory(t)
  <2>1. PICK t \in Threads : UpdateMemory(t)
    BY <1>1
  <2>2. PICK o, how, m : o = Arg(t, 2) /\ how = Arg(t, 3) /\ m = Arg(t, 4)
    OBVIOUS
  <2>3. TypeInv /\ n \in Nodes
    BY DEF UncountedInv, BelowNoBuffer
  <2>4. /\ \/ Kind[o] = "every" \/ Kind[o] = "buffer"
           \/ Kind[o] = "last" /\ how = "remember"
        /\ todo[t][1] = Update(o, how, m) /\ 1 \in 1..Len(todo[t])
        /\ memory'[o] = Updated(memory[o], how, m)
        /\ \A x \in Nodes \ {o} : memory'[x] = memory[x]
    BY <2>1, <2>2, <2>3, UpdateIs
  <2>5. CASE o = n
    <3>1. memory'[n] = m
      BY <2>4, <2>5 DEF Updated
    <3>2. Uncounted(above, Update(o, how, m))
      BY <2>4 DEF UncountedInv
    <3>3. m.count = 0
      BY <2>5, <3>2, UncountedCalls
    <3> QED
      BY <3>1, <3>3
  <2>6. CASE o # n
    BY <2>3, <2>4, <2>6
  <2> QED
    BY <2>5, <2>6
<1>2. ASSUME NEW t \in Threads, Execute(t), ~UpdateMemory(t) PROVE UNCHANGED memory
  BY <1>2 DEF Execute, LockMutex, UnlockMutex, AcquireGil, ReleaseGil, Python, SignalMessage,
              ReceiveMessage, ReleaseMessage, StartThread, AskToStop, JoinThread
<1>3. ASSUME \/ \E g \in Runnable : Trigger(g) \/ LoopEnds(g)
             \/ Call \/ Pause \/ UNCHANGED vars
      PROVE  UNCHANGED memory
  BY <1>3 DEF Trigger, LoopEnds, Call, Pause, vars
<1> QED
  BY <1>1, <1>2, <1>3 DEF Next

LEMMA InitUncounted ==
  ASSUME NEW n, NEW above, BelowNoBuffer(n, above), Init
  PROVE  UncountedInv(above)
<1>1. TypeInv /\ Len(<<>>) = 0
  BY InitTyped, EmptySeq
<1>2. \A t \in Threads : \A i \in 1..Len(todo[t]) : Uncounted(above, todo[t][i])
  BY <1>1 DEF Init
<1>3. \A x \in above : Kind[x] = "last" => memory[x] = None
  BY DEF BelowNoBuffer, Init, InitialMemory
<1> QED
  BY <1>1, <1>2, <1>3 DEF UncountedInv

-----------------------------------------------------------------------------
(* The invariant of all last nodes, and the theorem.                       *)

OrderInv(depth) ==
  /\ TypeInv
  /\ \A n \in Of("last") :
       \/ \E b : Filled(n, b, depth) /\ SnapshotInv(n, b, depth)
       \/ \E above : BelowNoBuffer(n, above) /\ UncountedInv(above)

LEMMA NextInOrder ==
  ASSUME NEW depth, OrderInv(depth), [Next]_vars
  PROVE  /\ OrderInv(depth)'
         /\ \A n \in Of("last") : memory[n] # None => memory'[n].count >= memory[n].count
<1>1. TypeInv'
  BY NextTyped DEF OrderInv
<1>2. ASSUME NEW n \in Of("last")
      PROVE  /\ \/ \E b : Filled(n, b, depth) /\ SnapshotInv(n, b, depth)'
                \/ \E above : BelowNoBuffer(n, above) /\ UncountedInv(above)'
             /\ memory[n] # None => memory'[n].count >= memory[n].count
  <2>1. CASE \E b : Filled(n, b, depth) /\ SnapshotInv(n, b, depth)
    BY <2>1, NextSnapshot
  <2>2. CASE \E above : BelowNoBuffer(n, above) /\ UncountedInv(above)
    <3>1. PICK above : BelowNoBuffer(n, above) /\ UncountedInv(above)
      BY <2>2
    <3>2. UncountedInv(above)'
      BY <3>1, NextUncounted
    <3>3. n \in above /\ Kind[n] = "last"
      BY <3>1 DEF BelowNoBuffer, Of
    <3>4. memory[n] # None => memory[n].count = 0
      BY <3>1, <3>3 DEF UncountedInv
    <3>5. memory'[n] = memory[n] \/ memory'[n].count = 0
      BY <3>1, <3>3, RemembersUncounted
    <3> QED
      BY <3>1, <3>2, <3>4, <3>5
  <2> QED
    BY <2>1, <2>2 DEF OrderInv
<1> QED
  BY <1>1, <1>2 DEF OrderInv

\* SnapshotsInOrder, in a graph without cycles in which every last node
\* observes one buffer and nothing else sends to it, or is below no buffer: a
\* buffer signals under its own mutex, and so what the last node is called with
\* is what the buffer holds then.
THEOREM SnapshotsStayInOrder ==
  ASSUME NEW depth, LeadsDown(depth),
         \A n \in Nodes : Kind[n] = "last" =>
           \/ \E b \in Nodes : RemembersBuffer(n, b)
           \/ \E above \in SUBSET Nodes : BelowNoBuffer(n, above)
  PROVE  Spec => SnapshotsInOrder
<1>1. Init => OrderInv(depth)
  <2> SUFFICES ASSUME Init, NEW n \in Of("last")
               PROVE  \/ \E b : Filled(n, b, depth) /\ SnapshotInv(n, b, depth)
                      \/ \E above : BelowNoBuffer(n, above) /\ UncountedInv(above)
    BY InitTyped DEF OrderInv
  <2>1. n \in Nodes /\ Kind[n] = "last"
    BY DEF Of
  <2>2. ASSUME NEW b, RemembersBuffer(n, b) PROVE Filled(n, b, depth) /\ SnapshotInv(n, b, depth)
    <3>1. Filled(n, b, depth)
      BY <2>1, <2>2 DEF Filled
    <3> QED
      BY <3>1, InitSnapshot
  <2>3. \A above : BelowNoBuffer(n, above) => UncountedInv(above)
    BY InitUncounted
  <2> QED
    BY <2>1, <2>2, <2>3
<1>2. OrderInv(depth) /\ [Next]_vars => OrderInv(depth)'
  BY NextInOrder
<1>3. OrderInv(depth) /\ [Next]_vars =>
        [\A n \in Nodes :
           Kind[n] = "last" /\ memory[n] # None => memory'[n].count >= memory[n].count]_vars
  BY NextInOrder DEF Of
<1> QED
  BY <1>1, <1>2, <1>3, PTL DEF Spec, SnapshotsInOrder

=============================================================================
