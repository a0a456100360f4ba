--------------------------- MODULE DataFileProofs ---------------------------
(***************************************************************************)
(* Proofs about DataFile: the types of its variables, WholeRecords, and    *)
(* what the player makes of the files: PlaysIntact and SkipsNothing.       *)
(***************************************************************************)
EXTENDS DataFile, SequenceTheorems, WellFoundedInduction, TLAPS

-----------------------------------------------------------------------------
(* The inductive invariant.                                                *)

SaverTypeOK ==
  /\ disk \in [Files -> Seq(Unit)]
  /\ path \in Files \cup {NoFile}
  /\ buffer \in Seq(Unit)
  /\ receiving \in [Threads -> Messages \cup {NoMessage}]
  /\ next \in [Threads -> {"idle", "size", "data", "signal"}]
  /\ tears \in [Files -> SUBSET Nat]

\* One thread at a time is in receive, with a message, and a file is open.
OneRecords ==
  \A s \in Threads : next[s] # "idle" =>
    /\ path # NoFile
    /\ receiving[s] \in Messages
    /\ \A t \in Threads : next[t] # "idle" => t = s

\* A file is torn only where it is written down.
TearsInside == \A f \in Files : \A k \in tears[f] : k <= Len(disk[f])

\* the next unit of c is the first one of a record
EndsWell(c, torn) == c = <<>> \/ Len(c) \in torn \/ ~Torn(c)

\* c ends in the size of a record of m
EndsInSize(c, torn, m) ==
  /\ c # <<>> /\ Len(c) \notin torn
  /\ c[Len(c)] = [of |-> m, at |-> SizeUnits]

\* Every file ends with a record, or where it is torn, but for the file that
\* waits for the data of a record.
Ends ==
  \A f \in Files :
    \/ /\ EndsWell(Content(f), tears[f])
       /\ \A t \in Threads : next[t] = "data" => f # path
    \/ \E t \in Threads : /\ next[t] = "data" /\ f = path
                          /\ EndsInSize(Content(f), tears[f], receiving[t])

\* What is on the disk is whole as well: it is what a crash leaves.
Inv == SaverTypeOK /\ OneRecords /\ TearsInside /\ Ends /\ WholeRecords

-----------------------------------------------------------------------------
(* Sequences of units.                                                     *)

LEMMA LengthIsNat ==
  ASSUME NEW m \in Messages
  PROVE  Length(m) \in Nat /\ Length(m) >= SizeUnits + 1
BY DataFileAssumption DEF Length, SizeUnits

\* The parts of a record that are written are consecutive units.
LEMMA PartIsConsecutive ==
  ASSUME NEW m \in Messages, NEW from \in Nat \ {0}, NEW to \in Nat, from <= to,
         to <= Length(m), NEW p, p = Part(m, from, to)
  PROVE  /\ p \in Seq(Unit)
         /\ Len(p) = to + 1 - from
         /\ p[1] = [of |-> m, at |-> from]
         /\ p[Len(p)] = [of |-> m, at |-> to]
         /\ \A i \in 2..Len(p) : Follows(p[i - 1], p[i])
<1> DEFINE n == to + 1 - from
<1>1. n \in Nat /\ 1 <= n
  OBVIOUS
<1>2. \A i \in 1..n : p[i] = [of |-> m, at |-> from + i - 1] /\ p[i] \in Unit
  BY <1>1 DEF Part, Unit
<1>3. p \in Seq(Unit) /\ Len(p) = n
  <2>1. p \in [1..n -> Unit]
    BY <1>1, <1>2 DEF Part
  <2>2. p \in Seq(Unit)
    BY <1>1, <2>1, SeqDef
  <2>3. 1..Len(p) = 1..n
    BY <2>1, <2>2, LenProperties
  <2> QED
    BY <1>1, <2>2, <2>3, LenProperties
<1>4. \A i \in 2..n : Follows(p[i - 1], p[i])
  <2> TAKE i \in 2..n
  <2>1. p[i] = [of |-> m, at |-> from + i - 1] /\ p[i - 1] = [of |-> m, at |-> from + i - 2]
    BY <1>1, <1>2
  <2>2. from + i - 2 < Length(m) /\ from + i - 2 + 1 = from + i - 1
    BY <1>1, LengthIsNat
  <2> QED
    BY <2>1, <2>2 DEF Follows
<1>5. p[1] = [of |-> m, at |-> from] /\ p[n] = [of |-> m, at |-> to]
  BY <1>1, <1>2
<1> QED
  BY <1>1, <1>3, <1>4, <1>5

LEMMA UnitsAssociate ==
  ASSUME NEW s \in Seq(Unit), NEW t \in Seq(Unit), NEW u \in Seq(Unit)
  PROVE  (s \o t) \o u = s \o (t \o u)
BY ConcatAssociative

\* The last unit of c is in front of the first one of p.
Joins(c, torn, p) ==
  IF c = <<>> \/ Len(c) \in torn THEN p[1].at = 1 ELSE Follows(c[Len(c)], p[1])

\* A file that is whole stays so when units are added that follow.
LEMMA WholeGrows ==
  ASSUME NEW c \in Seq(Unit), NEW p \in Seq(Unit), NEW torn \in SUBSET Nat,
         Whole(c, torn), \A k \in torn : k <= Len(c), Len(p) >= 1,
         Joins(c, torn, p),
         \A i \in 2..Len(p) : Follows(p[i - 1], p[i])
  PROVE  Whole(c \o p, torn)
<1> DEFINE d == c \o p
<1>1. /\ d \in Seq(Unit) /\ Len(d) = Len(c) + Len(p)
      /\ \A i \in 1..(Len(c) + Len(p)) : d[i] = IF i <= Len(c) THEN c[i] ELSE p[i - Len(c)]
  BY ConcatProperties
<1>2. Len(c) \in Nat /\ Len(p) \in Nat /\ (c = <<>> <=> Len(c) = 0)
  BY LenProperties, EmptySeq
<1> HIDE DEF d
<1> SUFFICES ASSUME NEW i \in 1..Len(d)
             PROVE  IF i = 1 \/ i - 1 \in torn THEN d[i].at = 1 ELSE Follows(d[i - 1], d[i])
  BY DEF Whole, d
<1>3. CASE i <= Len(c)
  <2>1. d[i] = c[i] /\ (i # 1 => d[i - 1] = c[i - 1])
    BY <1>1, <1>2, <1>3
  <2> QED
    BY <1>2, <1>3, <2>1 DEF Whole
<1>4. CASE i = Len(c) + 1
  <2>1. d[i] = p[1] /\ (i # 1 => d[i - 1] = c[Len(c)])
    BY <1>1, <1>2, <1>4
  <2>2. (i = 1 \/ i - 1 \in torn) <=> (c = <<>> \/ Len(c) \in torn)
    BY <1>2, <1>4
  <2> QED
    BY <1>2, <1>4, <2>1, <2>2 DEF Joins
<1>5. CASE i > Len(c) + 1
  <2> DEFINE j == i - 1
  <2>1. /\ i \in 1..(Len(c) + Len(p)) /\ ~(i <= Len(c))
        /\ j \in 1..(Len(c) + Len(p)) /\ ~(j <= Len(c)) /\ j - Len(c) = i - Len(c) - 1
    BY <1>1, <1>2, <1>5
  <2> HIDE DEF j
  <2>2. d[i] = p[i - Len(c)] /\ d[j] = p[j - Len(c)]
    BY <1>1, <2>1
  <2>3. d[i] = p[i - Len(c)] /\ d[i - 1] = p[i - Len(c) - 1]
    BY <2>1, <2>2 DEF j
  <2>4. i - Len(c) \in 2..Len(p) /\ i # 1 /\ i - 1 \notin torn
    BY <1>1, <1>2, <1>5
  <2> QED
    BY <2>3, <2>4
<1>6. i <= Len(c) \/ i = Len(c) + 1 \/ i > Len(c) + 1
  BY <1>1, <1>2
<1> QED
  BY <1>3, <1>4, <1>5, <1>6

\* and when units are cut off at its end.
LEMMA WholeShrinks ==
  ASSUME NEW c \in Seq(Unit), NEW p \in Seq(Unit), NEW torn, Whole(c \o p, torn)
  PROVE  Whole(c, torn)
<1>1. /\ Len(c) \in Nat /\ Len(p) \in Nat /\ Len(c \o p) = Len(c) + Len(p)
      /\ \A i \in 1..(Len(c) + Len(p)) : (c \o p)[i] = IF i <= Len(c) THEN c[i] ELSE p[i - Len(c)]
  BY ConcatProperties, LenProperties
<1> SUFFICES ASSUME NEW i \in 1..Len(c)
             PROVE  IF i = 1 \/ i - 1 \in torn THEN c[i].at = 1 ELSE Follows(c[i - 1], c[i])
  BY DEF Whole
<1>2. i \in 1..Len(c \o p) /\ (c \o p)[i] = c[i] /\ (i # 1 => (c \o p)[i - 1] = c[i - 1])
  BY <1>1
<1> QED
  BY <1>2 DEF Whole

\* A place beyond the end of c may be torn for all that c says.
LEMMA WholeElsewhere ==
  ASSUME NEW c \in Seq(Unit), NEW torn, Whole(c, torn)
  PROVE  Whole(c, torn \cup {Len(c)})
<1>1. Len(c) \in Nat /\ \A i \in 1..Len(c) : i - 1 # Len(c)
  BY LenProperties
<1> QED
  BY <1>1 DEF Whole

-----------------------------------------------------------------------------
(* What each action does to the files.                                     *)

LEMMA ContentOK ==
  ASSUME SaverTypeOK, NEW f \in Files
  PROVE  /\ Content(f) \in Seq(Unit)
         /\ disk[f] \in Seq(Unit)
         /\ Len(disk[f]) \in Nat /\ Len(Content(f)) \in Nat
         /\ Len(disk[f]) <= Len(Content(f))
<1>1. disk[f] \in Seq(Unit) /\ buffer \in Seq(Unit)
  BY DEF SaverTypeOK
<1>2. Len(disk[f]) \in Nat /\ Len(buffer) \in Nat
  BY <1>1, LenProperties
<1>3. disk[f] \o buffer \in Seq(Unit) /\ Len(disk[f] \o buffer) = Len(disk[f]) + Len(buffer)
  BY <1>1, ConcatProperties
<1> QED
  BY <1>1, <1>2, <1>3 DEF Content

Idle == \A t \in Threads : next[t] = "idle"

LEMMA IdleEnds ==
  ASSUME Inv, Idle, NEW f \in Files
  PROVE  EndsWell(Content(f), tears[f])
BY DEF Inv, Ends, Idle

\* Closing the stream leaves every file with its content.
LEMMA ClosedOK ==
  ASSUME SaverTypeOK
  PROVE  /\ Closed \in [Files -> Seq(Unit)]
         /\ \A f \in Files : Closed[f] = Content(f)
<1>1. CASE path = NoFile
  BY <1>1, DataFileAssumption DEF Closed, Content, SaverTypeOK
<1>2. CASE path # NoFile
  <2>1. disk[path] \o buffer \in Seq(Unit)
    BY <1>2, ContentOK DEF Content, SaverTypeOK
  <2> QED
    BY <1>2, <2>1 DEF Closed, Content, SaverTypeOK
<1> QED
  BY <1>1, <1>2

LEMMA OpenKeepsInv ==
  ASSUME Inv, Idle, NEW d \in [Files -> Seq(Unit)], \A g \in Files : d[g] = Content(g),
         NEW f \in Files, NEW append \in BOOLEAN, OpenTo(d, f, append)
  PROVE  Inv'
<1>1. /\ disk' = [d EXCEPT ![f] = IF append THEN @ ELSE <<>>]
      /\ tears' = [tears EXCEPT ![f] = IF append THEN @ ELSE {}]
      /\ path' = f /\ buffer' = <<>> /\ receiving' = receiving /\ next' = next
  BY DEF OpenTo, Opened, Inv, SaverTypeOK
<1>2. SaverTypeOK'
  <2>1. <<>> \in Seq(Unit)
    BY EmptySeq
  <2> QED
    BY <1>1, <2>1 DEF Inv, SaverTypeOK
<1>3. \A g \in Files : disk'[g] = IF g = f /\ ~append THEN <<>> ELSE Content(g)
  BY <1>1
<1>4. \A g \in Files : Content(g)' = disk'[g]
  <2>1. \A g \in Files : disk'[g] \in Seq(Unit)
    BY <1>2 DEF SaverTypeOK
  <2> QED
    BY <1>1, <2>1, ConcatEmptySeq DEF Content
<1>5. OneRecords' /\ Idle'
  BY <1>1 DEF OneRecords, Idle
<1>6. TearsInside'
  BY <1>1, <1>3, ContentOK DEF Inv, TearsInside, SaverTypeOK
<1>7. Ends'
  <2> SUFFICES ASSUME NEW g \in Files PROVE EndsWell(Content(g)', tears'[g])
    BY <1>5 DEF Ends, Idle
  <2>1. CASE g = f /\ ~append
    BY <1>3, <1>4, <2>1 DEF EndsWell
  <2>2. CASE ~(g = f /\ ~append)
    <3>1. tears'[g] = tears[g] /\ Content(g)' = Content(g)
      BY <1>1, <1>3, <1>4, <2>2 DEF Inv, SaverTypeOK
    <3> QED
      BY <3>1, IdleEnds
  <2> QED
    BY <2>1, <2>2
<1>8. WholeRecords'
  <2> SUFFICES ASSUME NEW g \in Files PROVE Whole(Content(g)', tears'[g])
    BY DEF WholeRecords
  <2>1. CASE g = f /\ ~append
    <3>1. Content(g)' = <<>>
      BY <1>3, <1>4, <2>1
    <3> QED
      BY <3>1, EmptySeq DEF Whole
  <2>2. CASE ~(g = f /\ ~append)
    <3>1. tears'[g] = tears[g] /\ Content(g)' = Content(g)
      BY <1>1, <1>3, <1>4, <2>2 DEF Inv, SaverTypeOK
    <3> QED
      BY <3>1 DEF Inv, WholeRecords
  <2> QED
    BY <2>1, <2>2
<1> QED
  BY <1>2, <1>5, <1>6, <1>7, <1>8 DEF Inv

LEMMA CloseKeepsInv ==
  ASSUME Inv, Close
  PROVE  Inv'
<1>1. /\ disk' = Closed /\ path' = NoFile /\ buffer' = <<>>
      /\ receiving' = receiving /\ next' = next /\ tears' = tears /\ Idle
  BY DEF Close, MayLock, Idle
<1>2. SaverTypeOK'
  <2>1. <<>> \in Seq(Unit)
    BY EmptySeq
  <2> QED
    BY <1>1, <2>1, ClosedOK DEF Inv, SaverTypeOK
<1>3. \A f \in Files : Content(f)' = Content(f) /\ disk'[f] = Content(f)
  BY <1>1, ClosedOK, DataFileAssumption DEF Content, Inv
<1>4. OneRecords' /\ Idle'
  BY <1>1 DEF OneRecords, Idle
<1>5. TearsInside'
  BY <1>1, <1>3, ContentOK DEF Inv, TearsInside, SaverTypeOK
<1>6. Ends'
  BY <1>1, <1>3, <1>4, IdleEnds DEF Ends, Idle
<1>7. WholeRecords'
  BY <1>1, <1>3 DEF Inv, WholeRecords
<1> QED
  BY <1>2, <1>4, <1>5, <1>6, <1>7 DEF Inv

\* A hand-over changes no file's content.
LEMMA FlushKeepsInv ==
  ASSUME Inv, NEW k \in 1..Len(buffer), Flush(k)
  PROVE  Inv'
<1> DEFINE first == SubSeq(buffer, 1, k)
           rest == SubSeq(buffer, k + 1, Len(buffer))
<1>1. buffer \in Seq(Unit) /\ Len(buffer) \in Nat
  BY LenProperties DEF Inv, SaverTypeOK
<1>2. path \in Files /\ disk[path] \in Seq(Unit)
  BY DEF Inv, SaverTypeOK, Flush
<1>3. first \in Seq(Unit) /\ rest \in Seq(Unit)
  BY <1>1, SubSeqProperties, ElementOfSeq
<1>4. first \o rest = buffer
  BY <1>1, ConcatAdjacentSubSeq, SubSeqFull
<1> HIDE DEF first, rest
<1>5. /\ disk' = [disk EXCEPT ![path] = @ \o first] /\ buffer' = rest
      /\ UNCHANGED <<path, receiving, next, tears>>
  BY DEF Flush, first, rest
<1>6. disk[path] \o first \in Seq(Unit) /\ Len(disk[path] \o first) >= Len(disk[path])
  <2>1. Len(disk[path]) \in Nat /\ Len(first) \in Nat
    BY <1>2, <1>3, LenProperties
  <2> QED
    BY <1>2, <1>3, <2>1, ConcatProperties
<1>7. SaverTypeOK'
  BY <1>2, <1>3, <1>5, <1>6 DEF Inv, SaverTypeOK
<1>8. \A f \in Files : Content(f)' = Content(f)
  <2>1. (disk[path] \o first) \o rest = disk[path] \o buffer
    <3>1. (disk[path] \o first) \o rest = disk[path] \o (first \o rest)
      BY <1>2, <1>3, UnitsAssociate
    <3> QED
      BY <1>4, <3>1
  <2>2. disk'[path] = disk[path] \o first
    BY <1>2, <1>5 DEF Inv, SaverTypeOK
  <2>3. \A f \in Files : f # path => disk'[f] = disk[f]
    BY <1>5 DEF Inv, SaverTypeOK
  <2> QED
    BY <1>5, <2>1, <2>2, <2>3 DEF Content
<1>9. OneRecords'
  BY <1>5 DEF Inv, OneRecords
<1>10. TearsInside'
  <2> SUFFICES ASSUME NEW f \in Files, NEW k_1 \in tears[f] PROVE k_1 <= Len(disk'[f])
    BY <1>5 DEF TearsInside
  <2>1. k_1 \in Nat /\ k_1 <= Len(disk[f]) /\ Len(disk[f]) \in Nat
    BY ContentOK DEF Inv, TearsInside, SaverTypeOK
  <2>2. Len(disk'[f]) >= Len(disk[f]) /\ Len(disk'[f]) \in Nat
    BY <1>2, <1>5, <1>6, <2>1, LenProperties DEF Inv, SaverTypeOK
  <2> QED
    BY <2>1, <2>2
<1>11. Ends'
  BY <1>5, <1>8 DEF Inv, Ends
<1>12. WholeRecords'
  BY <1>5, <1>8 DEF Inv, WholeRecords
<1> QED
  BY <1>7, <1>9, <1>10, <1>11, <1>12 DEF Inv

\* The files stay as they are, and so does who waits for the data of a record.
LEMMA SameContentKeepsInv ==
  ASSUME Inv, UNCHANGED <<disk, path, buffer, tears>>, SaverTypeOK', OneRecords',
         \A t \in Threads : (next'[t] = "data" <=> next[t] = "data")
                            /\ (next[t] = "data" => receiving'[t] = receiving[t])
  PROVE  Inv'
<1>1. \A f \in Files : Content(f)' = Content(f)
  BY DEF Content
<1>2. TearsInside'
  BY DEF Inv, TearsInside
<1>3. Ends'
  BY <1>1 DEF Inv, Ends
<1>4. WholeRecords'
  BY <1>1 DEF Inv, WholeRecords
<1> QED
  BY <1>2, <1>3, <1>4 DEF Inv

LEMMA ReceiveKeepsInv ==
  ASSUME Inv, NEW t \in Threads, NEW m \in Messages, Receive(t, m)
  PROVE  Inv'
<1>1. /\ path # NoFile /\ Idle
      /\ receiving' = [receiving EXCEPT ![t] = m] /\ next' = [next EXCEPT ![t] = "size"]
      /\ UNCHANGED <<disk, path, buffer, tears>>
  BY DEF Receive, MayLock, Idle
<1>2. SaverTypeOK'
  BY <1>1 DEF Inv, SaverTypeOK
<1>3. OneRecords'
  BY <1>1 DEF Inv, SaverTypeOK, OneRecords, Idle
<1>4. \A s \in Threads : next[s] # "data" /\ next'[s] # "data"
  BY <1>1 DEF Inv, SaverTypeOK, Idle
<1> QED
  BY <1>1, <1>2, <1>3, <1>4, SameContentKeepsInv

LEMMA SignalKeepsInv ==
  ASSUME Inv, NEW t \in Threads, SignalOn(t)
  PROVE  Inv'
<1>1. /\ next[t] = "signal"
      /\ receiving' = [receiving EXCEPT ![t] = NoMessage] /\ next' = [next EXCEPT ![t] = "idle"]
      /\ UNCHANGED <<disk, path, buffer, tears>>
  BY DEF SignalOn
<1>2. SaverTypeOK'
  BY <1>1 DEF Inv, SaverTypeOK
<1>3. OneRecords'
  BY <1>1 DEF Inv, SaverTypeOK, OneRecords
<1>4. \A s \in Threads : (next'[s] = "data" <=> next[s] = "data")
                          /\ (next[s] = "data" => receiving'[s] = receiving[s])
  BY <1>1 DEF Inv, SaverTypeOK
<1> QED
  BY <1>1, <1>2, <1>3, <1>4, SameContentKeepsInv

\* What a thread adds to the open file: the rest of the invariant follows from
\* how the file ends then.
LEMMA WriteKeepsInv ==
  ASSUME Inv, NEW t \in Threads, NEW at, NEW part \in Seq(Unit),
         NEW then \in {"data", "signal"}, at # "idle", Write(t, at, part, then),
         Len(part) >= 1,
         Joins(Content(path), tears[path], part),
         \A i \in 2..Len(part) : Follows(part[i - 1], part[i]),
         IF then = "data" THEN part[Len(part)] = [of |-> receiving[t], at |-> SizeUnits]
                          ELSE part[Len(part)].at >= Length(part[Len(part)].of)
  PROVE  Inv'
<1>1. /\ next[t] = at /\ buffer' = buffer \o part /\ next' = [next EXCEPT ![t] = then]
      /\ UNCHANGED <<disk, path, receiving, tears>>
  BY DEF Write
<1>2. path \in Files /\ \A s \in Threads : s # t => next[s] = "idle"
  BY <1>1 DEF Inv, SaverTypeOK, OneRecords
<1>3. buffer \in Seq(Unit) /\ disk[path] \in Seq(Unit) /\ Content(path) \in Seq(Unit)
  BY <1>2, ContentOK DEF Inv, SaverTypeOK
<1>4. SaverTypeOK'
  <2>1. buffer \o part \in Seq(Unit)
    BY <1>3, ConcatProperties
  <2> QED
    BY <1>1, <2>1 DEF Inv, SaverTypeOK
<1>5. OneRecords'
  BY <1>1, <1>2 DEF Inv, SaverTypeOK, OneRecords
<1>6. TearsInside'
  BY <1>1 DEF Inv, TearsInside
<1>7. \A f \in Files : f = path => Content(f)' = Content(path) \o part
  <2>1. (disk[path] \o buffer) \o part = disk[path] \o (buffer \o part)
    BY <1>3, UnitsAssociate
  <2> QED
    BY <1>1, <2>1 DEF Content
<1>8. \A f \in Files : f # path => Content(f)' = Content(f)
  BY <1>1 DEF Content
<1>9. \A k \in tears[path] : k \in Nat /\ k <= Len(Content(path))
  BY <1>2, ContentOK DEF Inv, TearsInside, SaverTypeOK
<1> DEFINE c == Content(path)
           d == c \o part
<1>10. /\ Len(c) \in Nat /\ Len(part) \in Nat /\ Len(d) = Len(c) + Len(part)
       /\ d[Len(d)] = part[Len(part)]
  BY <1>3, ConcatProperties, LenProperties
<1>11. d # <<>> /\ Len(d) \notin tears[path]
  BY <1>9, <1>10, EmptySeq
<1>12. Ends'
  <2> SUFFICES ASSUME NEW f \in Files
               PROVE  \/ /\ EndsWell(Content(f)', tears[f])
                         /\ \A s \in Threads : next'[s] = "data" => f # path
                      \/ \E s \in Threads : /\ next'[s] = "data" /\ f = path
                                            /\ EndsInSize(Content(f)', tears[f], receiving[s])
    BY <1>1 DEF Ends
  <2>1. CASE f # path
    <3>1. EndsWell(Content(f), tears[f])
      BY <2>1 DEF Inv, Ends
    <3> QED
      BY <1>8, <2>1, <3>1
  <2>2. CASE f = path /\ then = "data"
    <3>1. next'[t] = "data"
      BY <1>1, <2>2 DEF Inv, SaverTypeOK
    <3>2. EndsInSize(d, tears[path], receiving[t])
      BY <1>10, <1>11, <2>2 DEF EndsInSize
    <3>3. Content(f)' = d
      BY <1>7, <2>2
    <3> HIDE DEF d
    <3> QED
      BY <2>2, <3>1, <3>2, <3>3
  <2>3. CASE f = path /\ then = "signal"
    <3>1. ~Torn(d)
      <4>1. part[Len(part)] \in Unit
        BY <1>10, ElementOfSeq
      <4>2. part[Len(part)].at \in Nat /\ Length(part[Len(part)].of) \in Nat
        BY <4>1, LengthIsNat DEF Unit
      <4> HIDE DEF d
      <4> QED
        BY <1>10, <2>3, <4>2 DEF Torn
    <3>2. \A s \in Threads : next'[s] # "data"
      BY <1>1, <1>2, <2>3 DEF Inv, SaverTypeOK
    <3>3. Content(f)' = d
      BY <1>7, <2>3
    <3> HIDE DEF d
    <3> QED
      BY <2>3, <3>1, <3>2, <3>3 DEF EndsWell
  <2> QED
    BY <2>1, <2>2, <2>3
<1>13. WholeRecords'
  <2>1. Whole(d, tears[path])
    BY <1>2, <1>3, <1>9, WholeGrows DEF Inv, WholeRecords, SaverTypeOK
  <2> QED
    BY <1>1, <1>7, <1>8, <2>1 DEF Inv, WholeRecords
<1> QED
  BY <1>4, <1>5, <1>6, <1>12, <1>13 DEF Inv

\* The size goes behind a record, and the data behind its size.
LEMMA RecordKeepsInv ==
  ASSUME Inv, NEW t \in Threads, WriteSize(t) \/ WriteData(t)
  PROVE  Inv'
<1> DEFINE m == receiving[t]
<1>1. next[t] # "idle" /\ m \in Messages /\ path \in Files
  BY DEF Inv, SaverTypeOK, OneRecords, WriteSize, WriteData, Write
<1>2. Length(m) \in Nat /\ Length(m) >= SizeUnits + 1
  BY <1>1, LengthIsNat
<1>3. CASE WriteSize(t)
  <2> DEFINE p == Part(m, 1, SizeUnits)
  <2>1. /\ p \in Seq(Unit) /\ Len(p) = SizeUnits
        /\ p[1] = [of |-> m, at |-> 1] /\ p[Len(p)] = [of |-> m, at |-> SizeUnits]
        /\ \A i \in 2..Len(p) : Follows(p[i - 1], p[i])
    <3> DEFINE one == 1
    <3>1. one \in Nat \ {0} /\ SizeUnits \in Nat /\ one <= SizeUnits /\ SizeUnits <= Length(m)
      BY <1>2 DEF SizeUnits
    <3>2. SizeUnits + 1 - one = SizeUnits
      BY DEF SizeUnits
    <3>3. p = Part(m, one, SizeUnits) /\ one = 1
      OBVIOUS
    <3> HIDE DEF m, p, one
    <3>4. /\ p \in Seq(Unit) /\ Len(p) = SizeUnits + 1 - one
          /\ p[1] = [of |-> m, at |-> one] /\ p[Len(p)] = [of |-> m, at |-> SizeUnits]
          /\ \A i \in 2..Len(p) : Follows(p[i - 1], p[i])
      BY <1>1, <3>1, <3>3, PartIsConsecutive
    <3> QED
      BY <3>2, <3>3, <3>4
  <2>2. EndsWell(Content(path), tears[path])
    <3>1. \A s \in Threads : next[s] # "data"
      BY <1>1, <1>3 DEF Inv, OneRecords, WriteSize, Write
    <3> QED
      BY <1>1, <3>1 DEF Inv, Ends
  <2>3. Joins(Content(path), tears[path], p)
    BY <2>1, <2>2 DEF Joins, EndsWell, Torn, Follows
  <2>4. Write(t, "size", p, "data")
    BY <1>3 DEF WriteSize
  <2>5. Len(p) >= 1
    BY <2>1 DEF SizeUnits
  <2> HIDE DEF p
  <2> QED
    BY <2>1, <2>3, <2>4, <2>5, WriteKeepsInv
<1>4. CASE WriteData(t)
  <2> DEFINE p == Part(m, SizeUnits + 1, Length(m))
  <2>1. /\ p \in Seq(Unit) /\ Len(p) >= 1
        /\ p[1] = [of |-> m, at |-> SizeUnits + 1] /\ p[Len(p)] = [of |-> m, at |-> Length(m)]
        /\ \A i \in 2..Len(p) : Follows(p[i - 1], p[i])
    <3> DEFINE from == SizeUnits + 1
               to == Length(m)
    <3>1. from \in Nat \ {0} /\ to \in Nat /\ from <= to /\ to <= Length(m) /\ to + 1 - from >= 1
      BY <1>2 DEF SizeUnits
    <3>2. p = Part(m, from, to) /\ from = SizeUnits + 1 /\ to = Length(m)
      OBVIOUS
    <3> HIDE DEF m, p, from, to
    <3>3. /\ p \in Seq(Unit) /\ Len(p) = to + 1 - from
          /\ p[1] = [of |-> m, at |-> from] /\ p[Len(p)] = [of |-> m, at |-> to]
          /\ \A i \in 2..Len(p) : Follows(p[i - 1], p[i])
      BY <1>1, <3>1, <3>2, PartIsConsecutive
    <3> QED
      BY <3>1, <3>2, <3>3
  <2>2. EndsInSize(Content(path), tears[path], m)
    <3>1. next[t] = "data" /\ \A s \in Threads : next[s] = "data" => s = t
      BY <1>1, <1>4 DEF Inv, OneRecords, WriteData, Write
    <3> QED
      BY <1>1, <3>1 DEF Inv, Ends
  <2>3. Joins(Content(path), tears[path], p)
    BY <1>2, <2>1, <2>2 DEF Joins, EndsInSize, Follows, SizeUnits
  <2>4. Write(t, "data", p, "signal")
    BY <1>4 DEF WriteData
  <2>5. p[Len(p)].at >= Length(p[Len(p)].of)
    BY <1>2, <2>1
  <2> HIDE DEF p
  <2> QED
    BY <2>1, <2>3, <2>4, <2>5, WriteKeepsInv
<1> QED
  BY <1>3, <1>4

\* What a crash leaves is torn there, or ends with a record.
LEMMA CrashKeepsInv ==
  ASSUME Inv, path # NoFile, Dies
  PROVE  Inv'
<1>1. /\ path \in Files /\ path' = NoFile /\ buffer' = <<>> /\ disk' = disk
      /\ receiving' = [t \in Threads |-> NoMessage] /\ next' = [t \in Threads |-> "idle"]
      /\ tears' = IF Torn(disk[path]) THEN [tears EXCEPT ![path] = @ \cup {Len(disk[path])}]
                                     ELSE tears
  BY DEF Dies, Inv, SaverTypeOK
<1>2. disk[path] \in Seq(Unit) /\ Len(disk[path]) \in Nat /\ buffer \in Seq(Unit)
  BY <1>1, ContentOK DEF Inv, SaverTypeOK
<1>3. SaverTypeOK'
  <2>1. <<>> \in Seq(Unit)
    BY EmptySeq
  <2>2. tears' \in [Files -> SUBSET Nat]
    BY <1>1, <1>2 DEF Inv, SaverTypeOK
  <2> QED
    BY <1>1, <2>1, <2>2 DEF Inv, SaverTypeOK
<1>4. \A f \in Files :
        tears'[f] = IF f = path /\ Torn(disk[path]) THEN tears[f] \cup {Len(disk[f])} ELSE tears[f]
  BY <1>1 DEF Inv, SaverTypeOK
<1>5. \A f \in Files : Content(f)' = disk[f]
  BY <1>1, DataFileAssumption DEF Content
<1>6. OneRecords' /\ Idle'
  BY <1>1 DEF OneRecords, Idle
<1>7. TearsInside'
  BY <1>1, <1>2, <1>4 DEF Inv, TearsInside
<1>8. Ends'
  <2> SUFFICES ASSUME NEW f \in Files PROVE EndsWell(disk[f], tears'[f])
    BY <1>5, <1>6 DEF Ends, Idle
  <2>1. CASE f = path
    BY <1>4, <2>1 DEF EndsWell
  <2>2. CASE f # path
    <3>1. EndsWell(Content(f), tears[f])
      BY <2>2 DEF Inv, Ends
    <3> QED
      BY <1>4, <2>2, <3>1 DEF Content
  <2> QED
    BY <2>1, <2>2
<1>9. WholeRecords'
  <2> SUFFICES ASSUME NEW f \in Files PROVE Whole(disk[f], tears'[f])
    BY <1>5 DEF WholeRecords
  <2>1. CASE f = path
    <3>1. Whole(disk[path] \o buffer, tears[path])
      BY <1>1 DEF Inv, WholeRecords, Content
    <3>2. Whole(disk[path], tears[path])
      BY <1>2, <3>1, WholeShrinks
    <3> QED
      BY <1>2, <1>4, <2>1, <3>2, WholeElsewhere
  <2>2. CASE f # path
    BY <1>4, <2>2 DEF Inv, WholeRecords, Content
  <2> QED
    BY <2>1, <2>2
<1> QED
  BY <1>3, <1>6, <1>7, <1>8, <1>9 DEF Inv

\* With no file open the saver is idle, and its death changes nothing.
LEMMA IdleDeathKeepsInv ==
  ASSUME Inv, path = NoFile, Dies
  PROVE  Inv'
<1>1. Idle
  BY DEF Inv, OneRecords, Idle
<1>2. /\ path' = path /\ buffer' = <<>> /\ disk' = disk /\ tears' = tears
      /\ receiving' = [t \in Threads |-> NoMessage] /\ next' = [t \in Threads |-> "idle"]
  BY DEF Dies
<1>3. <<>> \in Seq(Unit)
  BY EmptySeq
<1>4. SaverTypeOK' /\ OneRecords'
  BY <1>2, <1>3 DEF Inv, SaverTypeOK, OneRecords
<1>5. \A f \in Files : Content(f)' = Content(f)
  BY <1>2, DataFileAssumption DEF Content
<1>6. TearsInside'
  BY <1>2 DEF Inv, TearsInside
<1>7. Ends'
  BY <1>1, <1>2, <1>5 DEF Inv, Ends, Idle
<1>8. WholeRecords'
  BY <1>2, <1>5 DEF Inv, WholeRecords
<1> QED
  BY <1>4, <1>6, <1>7, <1>8 DEF Inv

LEMMA SameFilesKeepsInv ==
  ASSUME Inv, SameFiles
  PROVE  Inv'
<1>1. UNCHANGED <<disk, path, buffer, receiving, next, tears>>
  BY DEF SameFiles, saver
<1>2. SaverTypeOK' /\ OneRecords'
  BY <1>1 DEF Inv, SaverTypeOK, OneRecords
<1> QED
  BY <1>1, <1>2, SameContentKeepsInv

-----------------------------------------------------------------------------
(* The theorem.                                                            *)

LEMMA InitInv == Init => Inv
<1> SUFFICES ASSUME Init PROVE Inv
  OBVIOUS
<1>1. <<>> \in Seq(Unit) /\ Len(<<>>) = 0
  BY EmptySeq
<1>2. SaverTypeOK
  BY <1>1 DEF Init, SaverTypeOK
<1>3. \A f \in Files : Content(f) = <<>> /\ tears[f] = {}
  BY DataFileAssumption DEF Init, Content
<1>4. OneRecords /\ TearsInside
  BY <1>3 DEF Init, OneRecords, TearsInside
<1>5. Ends
  BY <1>3 DEF Init, Ends, EndsWell
<1>6. WholeRecords
  BY <1>1, <1>3 DEF WholeRecords, Whole
<1> QED
  BY <1>2, <1>4, <1>5, <1>6 DEF Inv

LEMMA NextKeepsInv == Inv /\ [Next]_vars => Inv'
<1> SUFFICES ASSUME Inv, [Next]_vars PROVE Inv'
  OBVIOUS
<1>1. CASE \E f \in Files, append \in BOOLEAN : Open(f, append) \/ SetFilePath(f, append)
  <2> PICK f \in Files, append \in BOOLEAN : Open(f, append) \/ SetFilePath(f, append)
    BY <1>1
  <2>1. CASE Open(f, append)
    <3>1. Idle
      BY <2>1 DEF Open, Inv, OneRecords, Idle
    <3>2. disk \in [Files -> Seq(Unit)] /\ \A g \in Files : disk[g] = Content(g)
      BY <2>1, DataFileAssumption DEF Open, Inv, SaverTypeOK, Content
    <3> QED
      BY <2>1, <3>1, <3>2, OpenKeepsInv DEF Open
  <2>2. CASE SetFilePath(f, append)
    <3>1. Idle
      BY <2>2 DEF SetFilePath, MayLock, Idle
    <3> QED
      BY <2>2, <3>1, ClosedOK, OpenKeepsInv DEF SetFilePath, Inv
  <2> QED
    BY <2>1, <2>2
<1>2. CASE \E k \in 1..Len(buffer) : Flush(k)
  BY <1>2, FlushKeepsInv
<1>3. CASE \E t \in Threads : Recording(t) \/ \E m \in Messages : Receive(t, m)
  BY <1>3, RecordKeepsInv, SignalKeepsInv, ReceiveKeepsInv DEF Recording
<1>4. CASE Close
  BY <1>4, CloseKeepsInv
<1>5. CASE Crash \/ DiesOfGarbage
  BY <1>5, CrashKeepsInv, IdleDeathKeepsInv DEF Crash, DiesOfGarbage
<1>6. CASE \/ \E f \in Files, forever \in BOOLEAN : OpenPlayer(f, forever)
           \/ ClosePlayer \/ Start \/ RequestStop \/ Playing \/ Produce
  <2>1. SameFiles
    BY <1>6 DEF OpenPlayer, ClosePlayer, Start, RequestStop, Playing, PlayNext, RunOut, Produce
  <2> QED
    BY <2>1, SameFilesKeepsInv
<1>7. CASE UNCHANGED vars
  BY <1>7, SameFilesKeepsInv DEF vars, SameFiles
<1> QED
  BY <1>1, <1>2, <1>3, <1>4, <1>5, <1>6, <1>7 DEF Next

\* The saver's variables and the files keep their types.
THEOREM SaverTypeCorrect == Spec => []SaverTypeOK
<1>1. Inv => SaverTypeOK
  BY DEF Inv
<1> QED
  BY <1>1, InitInv, NextKeepsInv, PTL DEF Spec

\* Whatever the threads record, whenever the path changes and wherever the
\* process dies, a file holds whole records but for the places of crashes.
THEOREM RecordsAreWhole == Spec => []WholeRecords
<1>1. Inv => WholeRecords
  BY DEF Inv
<1> QED
  BY <1>1, InitInv, NextKeepsInv, PTL DEF Spec


-----------------------------------------------------------------------------
(* What the player reads.                                                  *)

\* Every set of numbers has a least one: the way to an induction.
LEMMA LeastNumber ==
  ASSUME NEW T, T \subseteq Nat, T # {}
  PROVE  \E x \in T : \A y \in T : x <= y
<1>1. IsWellFoundedOn(OpToRel(<, Nat), Nat)
  BY NatLessThanWellFounded
<1>2. PICK x \in T : \A y \in T : ~ (<<y, x>> \in OpToRel(<, Nat))
  BY <1>1, WFMin
<1>3. \A y \in T : ~ (y < x)
  BY <1>2 DEF OpToRel
<1> QED
  BY <1>3

\* the n units of f after place pos are the first ones of the record of m
Begins(f, pos, m, n) == \A i \in 1..n : f[pos + i] = [of |-> m, at |-> i]

\* no record is cut off between the n units of f after pos
Untorn(torn, pos, n) == \A k \in torn : ~(pos < k /\ k < pos + n)

\* Where a record begins its units follow, as long as nothing is torn.
LEMMA UnitsOfRecord ==
  ASSUME NEW f \in Seq(Unit), NEW torn \in SUBSET Nat, Whole(f, torn),
         NEW pos \in Nat, pos < Len(f), f[pos + 1].at = 1,
         NEW m, m = f[pos + 1].of, NEW n \in Nat,
         n <= Length(m), pos + n <= Len(f), Untorn(torn, pos, n)
  PROVE  Begins(f, pos, m, n)
<1>1. Len(f) \in Nat
  BY LenProperties
<1>2. pos + 1 \in 1..Len(f)
  BY <1>1
<1>3. f[pos + 1] \in Unit
  BY <1>2, ElementOfSeq
<1>4. m \in Messages /\ f[pos + 1] = [of |-> m, at |-> 1] /\ Length(m) \in Nat
  BY <1>3, LengthIsNat DEF Unit
<1> SUFFICES ASSUME ~Begins(f, pos, m, n) PROVE FALSE
  OBVIOUS
<1> DEFINE Bad == {i \in 1..n : f[pos + i] # [of |-> m, at |-> i]}
<1>5. Bad \subseteq Nat /\ Bad # {}
  BY DEF Begins
<1>6. PICK i \in Bad : \A j \in Bad : i <= j
  <2> HIDE DEF Bad
  <2> QED
    BY <1>5, LeastNumber
<1>7. i \in 1..n /\ i # 1
  BY <1>4, <1>6
<1>8. f[pos + (i - 1)] = [of |-> m, at |-> i - 1]
  <2>1. i - 1 \in 1..n /\ ~(i <= i - 1)
    BY <1>7
  <2>2. i - 1 \notin Bad
    BY <1>6, <2>1
  <2> QED
    BY <2>1, <2>2
<1> DEFINE p == pos + i
<1>9. p \in 1..Len(f) /\ p # 1 /\ p - 1 \notin torn /\ p - 1 = pos + (i - 1)
  BY <1>1, <1>7 DEF Untorn
<1>10. Follows(f[p - 1], f[p])
  <2> HIDE DEF p
  <2> QED
    BY <1>9 DEF Whole
<1>11. f[p] = [of |-> m, at |-> i]
  <2>1. i - 1 < Length(m) /\ (i - 1) + 1 = i
    BY <1>4, <1>7
  <2> HIDE DEF p
  <2> QED
    BY <1>8, <1>9, <1>10, <2>1 DEF Follows
<1> QED
  BY <1>6, <1>11

LEMMA UnitsAre ==
  ASSUME NEW f \in Seq(Unit), NEW pos \in Nat, NEW n \in Nat, pos + n <= Len(f),
         NEW m \in Messages, Begins(f, pos, m, n)
  PROVE  /\ Units(f, pos, n) = Part(m, 1, n)
         /\ SubSeq(f, pos + 1, pos + n) = Part(m, 1, n)
<1>1. Len(f) \in Nat
  BY LenProperties
<1> DEFINE first == pos + 1
           last == pos + n
<1>2. first \in Int /\ last \in Int /\ last - first + 1 = n
      /\ \A i \in 1..n : first + i - 1 = pos + i
  OBVIOUS
<1>3. \A i \in first..last : f[i] \in Unit
  <2> SUFFICES ASSUME NEW i \in first..last PROVE f[i] \in Unit
    OBVIOUS
  <2>1. i \in 1..Len(f)
    BY <1>1
  <2> QED
    BY <2>1, ElementOfSeq
<1> DEFINE s == SubSeq(f, first, last)
<1>4. s \in Seq(Unit) /\ Len(s) = n /\ \A i \in 1..n : s[i] = f[pos + i]
  <2>1. /\ s \in Seq(Unit)
        /\ Len(s) = IF first <= last THEN last - first + 1 ELSE 0
        /\ \A i \in 1..last - first + 1 : s[i] = f[first + i - 1]
    <3> HIDE DEF first, last
    <3> QED
      BY <1>2, <1>3, SubSeqProperties
  <2>2. first <= last \/ n = 0
    OBVIOUS
  <2> QED
    BY <1>2, <2>1, <2>2
<1>5. s = [i \in 1..n |-> [of |-> m, at |-> i]]
  <2>1. s \in [1..n -> Unit]
    BY <1>4, LenProperties
  <2>2. \A i \in 1..n : s[i] = [of |-> m, at |-> i]
    BY <1>4 DEF Begins
  <2> HIDE DEF s
  <2> QED
    BY <2>1, <2>2
<1>6. s = Part(m, 1, n)
  <2>1. \A i \in 1..n : 1 + i - 1 = i
    OBVIOUS
  <2>2. n + 1 - 1 = n
    OBVIOUS
  <2>3. Part(m, 1, n) = [i \in 1..n |-> [of |-> m, at |-> i]]
    BY <2>1, <2>2 DEF Part
  <2> QED
    BY <1>5, <2>3
<1>7. ~(pos + n > Len(f))
  BY <1>1
<1> QED
  BY <1>6, <1>7, Zenon DEF Units

\* Records of two messages differ from the first unit on.
LEMMA PartsDiffer ==
  ASSUME NEW m, NEW k, NEW n \in Nat, n >= 1, Part(m, 1, n) = Part(k, 1, n)
  PROVE  m = k
<1>1. 1 \in 1..(n + 1 - 1)
  OBVIOUS
<1>2. Part(m, 1, n)[1].of = m /\ Part(k, 1, n)[1].of = k
  BY <1>1 DEF Part
<1> QED
  BY <1>2

LEMMA SizeIsRead ==
  ASSUME NEW f, NEW pos, NEW m \in Messages,
         Units(f, pos, SizeUnits) = Part(m, 1, SizeUnits)
  PROVE  SizesAt(f, pos) = {Size[m]}
<1>1. \A k \in Messages : Part(k, 1, SizeUnits) = Part(m, 1, SizeUnits) => k = m
  BY PartsDiffer DEF SizeUnits
<1>2. {k \in Messages : Units(f, pos, SizeUnits) = Part(k, 1, SizeUnits)} = {m}
  BY <1>1
<1>3. {Size[k] : k \in {m}} = {Size[m]}
  OBVIOUS
<1> QED
  BY <1>2, <1>3 DEF SizesAt

LEMMA MessageIsRead ==
  ASSUME NEW f, NEW pos, NEW m \in Messages,
         Units(f, pos, SizeUnits + Size[m]) = Record(m)
  PROVE  MessageAt(f, pos, Size[m]) = m
<1>1. \A k \in Messages : Record(k) = Record(m) => k = m
  <2> SUFFICES ASSUME NEW k \in Messages, Record(k) = Record(m) PROVE k = m
    OBVIOUS
  <2>1. Length(k) \in Nat /\ Length(k) >= 1 /\ Length(m) \in Nat /\ Length(m) >= 1
    BY LengthIsNat DEF SizeUnits
  <2>2. Record(k)[1].of = k /\ Record(m)[1].of = m
    BY <2>1 DEF Record, Part
  <2> QED
    BY <2>2
<1>2. {k \in Messages : Units(f, pos, SizeUnits + Size[m]) = Record(k)} = {m}
  BY <1>1
<1> QED
  BY <1>2 DEF MessageAt

\* The player may go on at place pos: a record begins there, unless the file
\* ends there or was torn before.
AtRecord(f, torn, pos) ==
  /\ pos \in 0..Len(f)
  /\ pos < Len(f) /\ (\A k \in torn : pos < k) => f[pos + 1].at = 1

\* How far a read of size gets.
ReadTo(f, pos, size) ==
  IF pos + SizeUnits + size > Len(f) THEN Len(f) ELSE pos + SizeUnits + size

LEMMA SizesAreNumbers ==
  ASSUME NEW f, NEW pos
  PROVE  SizesAt(f, pos) \subseteq Nat
BY DataFileAssumption DEF SizesAt

\* Between two records, and not torn as far as it gets, a read gets a record.
LEMMA ReadsRecord ==
  ASSUME NEW f \in Seq(Unit), NEW torn \in SUBSET Nat, Whole(f, torn), EndsWell(f, torn),
         NEW pos, AtRecord(f, torn, pos), pos < Len(f),
         NEW size \in SizesAt(f, pos), NEW to, to = ReadTo(f, pos, size),
         \A k \in torn : to < k
  PROVE  /\ MessageAt(f, pos, size) \in Messages
         /\ SubSeq(f, pos + 1, to) = Record(MessageAt(f, pos, size))
         /\ to < Len(f) => f[to + 1].at = 1
<1> DEFINE m == f[pos + 1].of
           end == pos + SizeUnits + size
<1>1. /\ Len(f) \in Nat /\ pos \in Nat /\ size \in Nat
      /\ to \in Nat /\ pos <= to /\ to <= Len(f)
  BY LenProperties, SizesAreNumbers DEF AtRecord, ReadTo, SizeUnits
<1>2. f[pos + 1] \in Unit
  <2>1. pos + 1 \in 1..Len(f)
    BY <1>1
  <2> QED
    BY <2>1, ElementOfSeq
<1>3. m \in Messages /\ Length(m) \in Nat /\ Length(m) >= SizeUnits + 1
      /\ Length(m) = SizeUnits + Size[m]
  BY <1>2, LengthIsNat DEF Unit, Length
<1>4. f[pos + 1].at = 1 /\ m = f[pos + 1].of
  BY <1>1 DEF AtRecord
<1> HIDE DEF m
<1>5. to = Len(f) => ~Torn(f)
  <2>1. f # <<>>
    BY <1>1, EmptySeq
  <2> QED
    BY <1>1, <2>1 DEF EndsWell
<1>6. ASSUME NEW n \in Nat, n <= Length(m), pos + n <= to
      PROVE  Begins(f, pos, m, n)
  <2>1. Untorn(torn, pos, n) /\ pos + n <= Len(f)
    BY <1>1, <1>6 DEF Untorn
  <2> QED
    BY <1>1, <1>4, <1>6, <2>1, UnitsOfRecord
<1>7. ASSUME NEW n \in Nat, n >= 1, n < Length(m), to = pos + n, to = Len(f)
      PROVE  FALSE
  <2>1. f[pos + n] = [of |-> m, at |-> n]
    <3>1. Begins(f, pos, m, n) /\ n \in 1..n
      BY <1>1, <1>3, <1>6, <1>7
    <3> QED
      BY <3>1 DEF Begins
  <2>2. Torn(f)
    BY <1>1, <1>7, <2>1, EmptySeq DEF Torn
  <2> QED
    BY <1>5, <1>7, <2>2
<1>8. size = Size[m] /\ end = pos + Length(m)
  <2>1. pos + SizeUnits <= to
    <3>1. CASE pos + SizeUnits > Len(f)
      <4>1. to = Len(f) /\ to = pos + 1
        BY <1>1, <3>1 DEF ReadTo, SizeUnits
      <4> QED
        BY <1>3, <1>7, <4>1 DEF SizeUnits
    <3>2. CASE pos + SizeUnits <= Len(f)
      BY <1>1, <3>2 DEF ReadTo, SizeUnits
    <3> QED
      BY <1>1, <3>1, <3>2 DEF SizeUnits
  <2>2. SizeUnits \in Nat /\ SizeUnits <= Length(m) /\ pos + SizeUnits <= Len(f)
    BY <1>1, <1>3, <2>1 DEF SizeUnits
  <2>3. Units(f, pos, SizeUnits) = Part(m, 1, SizeUnits)
    BY <1>1, <1>3, <1>6, <2>1, <2>2, UnitsAre
  <2>4. SizesAt(f, pos) = {Size[m]}
    BY <1>3, <2>3, SizeIsRead
  <2>5. size = Size[m]
    BY <2>4
  <2> QED
    BY <1>1, <1>3, <2>5 DEF SizeUnits
<1>9. end <= Len(f)
  <2> SUFFICES ASSUME ~(end <= Len(f)) PROVE FALSE
    OBVIOUS
  <2> DEFINE n == Len(f) - pos
  <2>1. to = Len(f)
    BY <1>1, <1>8 DEF ReadTo, SizeUnits
  <2>2. n \in Nat /\ n >= 1 /\ n < Length(m) /\ to = pos + n
    BY <1>1, <1>3, <1>8, <2>1
  <2> HIDE DEF n
  <2> QED
    BY <1>7, <2>1, <2>2
<1>10. to = pos + Length(m) /\ to = end
  BY <1>1, <1>3, <1>8, <1>9 DEF ReadTo, SizeUnits
<1>11. Begins(f, pos, m, Length(m))
  BY <1>1, <1>3, <1>6, <1>10
<1>12. /\ Units(f, pos, Length(m)) = Part(m, 1, Length(m))
       /\ SubSeq(f, pos + 1, to) = Part(m, 1, Length(m))
  BY <1>1, <1>3, <1>10, <1>11, UnitsAre
<1>13. Units(f, pos, SizeUnits + Size[m]) = Record(m)
  BY <1>3, <1>12 DEF Record
<1>14. MessageAt(f, pos, size) = m
  BY <1>3, <1>8, <1>13, MessageIsRead
<1>15. to < Len(f) => f[to + 1].at = 1
  <2> SUFFICES ASSUME to < Len(f) PROVE f[to + 1].at = 1
    OBVIOUS
  <2>1. f[to] = [of |-> m, at |-> Length(m)]
    <3>1. Length(m) \in 1..Length(m)
      BY <1>3 DEF SizeUnits
    <3> QED
      BY <1>10, <1>11, <3>1 DEF Begins
  <2> DEFINE p == to + 1
  <2>2. p \in 1..Len(f) /\ p # 1 /\ p - 1 \notin torn /\ p - 1 = to
    BY <1>1, <1>3, <1>10 DEF SizeUnits
  <2>3. Follows(f[p - 1], f[p])
    <3> HIDE DEF p
    <3> QED
      BY <2>2 DEF Whole
  <2>4. ~(Length(m) < Length(m))
    BY <1>3
  <2> HIDE DEF p
  <2>5. f[p].at = 1
    BY <2>1, <2>2, <2>3, <2>4 DEF Follows
  <2> QED
    BY <2>5 DEF p
<1> QED
  BY <1>3, <1>12, <1>14, <1>15 DEF Record

\* Wherever a read gets, the player may go on.
LEMMA ReadsToRecord ==
  ASSUME NEW f \in Seq(Unit), NEW torn \in SUBSET Nat, Whole(f, torn), EndsWell(f, torn),
         NEW pos, AtRecord(f, torn, pos), NEW size \in SizesAt(f, pos)
  PROVE  AtRecord(f, torn, ReadTo(f, pos, size)) /\ ReadTo(f, pos, size) \in Nat
<1> DEFINE to == ReadTo(f, pos, size)
<1>1. /\ Len(f) \in Nat /\ pos \in Nat /\ pos <= Len(f) /\ size \in Nat
      /\ to \in 0..Len(f) /\ (pos = Len(f) => to = Len(f))
  BY LenProperties, SizesAreNumbers DEF AtRecord, ReadTo, SizeUnits
<1>2. CASE pos < Len(f) /\ \A k \in torn : to < k
  <2>1. to < Len(f) => f[to + 1].at = 1
    <3> HIDE DEF to
    <3>1. to = ReadTo(f, pos, size)
      BY DEF to
    <3> QED
      BY <1>2, <3>1, ReadsRecord
  <2> HIDE DEF to
  <2>2. AtRecord(f, torn, to) /\ to \in Nat
    BY <1>1, <2>1 DEF AtRecord
  <2> QED
    BY <2>2 DEF to
<1>3. CASE ~(pos < Len(f) /\ \A k \in torn : to < k)
  <2> HIDE DEF to
  <2>1. AtRecord(f, torn, to) /\ to \in Nat
    BY <1>1, <1>3 DEF AtRecord
  <2> QED
    BY <2>1 DEF to
<1> QED
  BY <1>2, <1>3

-----------------------------------------------------------------------------
(* The invariant of the player.                                            *)

Player ==
  [file : Files \cup {NoFile}, forever : BOOLEAN, pos : Nat, eof : BOOLEAN,
   fail : BOOLEAN, running : BOOLEAN, stop : BOOLEAN, asked : BOOLEAN]

\* Nobody writes the file that is played.
Undisturbed == reader.file # NoFile => reader.file # path

\* Without a player nothing is played.
OnlyAPlayerPlays == reader.file = NoFile => reader = NoPlayer /\ played = Nothing

\* The player stands where a record begins.
InPlace ==
  reader.file # NoFile => AtRecord(disk[reader.file], tears[reader.file], reader.pos)

\* It goes on where it ended, or has gone back to the beginning.
GoesOn == reader.pos = played.to \/ (reader.pos = 0 /\ reader.forever)

PlayerInv ==
  /\ reader \in Player
  /\ Undisturbed /\ OnlyAPlayerPlays /\ InPlace /\ GoesOn
  /\ PlaysIntact

\* What WholeRecords and its invariant say of the file that is played.
LEMMA FileIsSound ==
  ASSUME Inv, PlayerInv, NEW f, f = reader.file, f # NoFile
  PROVE  /\ f \in Files /\ f # path
         /\ disk[f] \in Seq(Unit) /\ tears[f] \in SUBSET Nat
         /\ Content(f) = disk[f]
         /\ Whole(disk[f], tears[f]) /\ EndsWell(disk[f], tears[f])
<1>1. f \in Files /\ f # path
  BY DEF PlayerInv, Player, Undisturbed
<1>2. disk[f] \in Seq(Unit) /\ tears[f] \in SUBSET Nat
  BY <1>1 DEF Inv, SaverTypeOK
<1>3. Content(f) = disk[f]
  BY <1>1 DEF Content
<1>4. Whole(Content(f), tears[f])
  BY <1>1 DEF Inv, WholeRecords
<1>5. EndsWell(Content(f), tears[f])
  BY <1>1 DEF Inv, Ends
<1> QED
  BY <1>1, <1>2, <1>3, <1>4, <1>5

LEMMA BeginsWithRecord ==
  ASSUME NEW f \in Seq(Unit), NEW torn, Whole(f, torn)
  PROVE  AtRecord(f, torn, 0)
<1>1. Len(f) \in Nat /\ (0 < Len(f) => 1 \in 1..Len(f))
  BY LenProperties
<1> QED
  BY <1>1 DEF AtRecord, Whole

\* The steps of others leave the file that is played alone.
LEMMA OthersKeepPlayerInv ==
  ASSUME PlayerInv, UNCHANGED player,
         \A f \in Files : f = reader.file =>
           disk'[f] = disk[f] /\ tears'[f] = tears[f] /\ path' # f
  PROVE  PlayerInv'
<1>1. reader' = reader /\ played' = played
  BY DEF player
<1>2. reader.file \in Files \cup {NoFile}
  BY DEF PlayerInv, Player
<1>3. (reader \in Player)' /\ Undisturbed' /\ OnlyAPlayerPlays' /\ GoesOn'
  BY <1>1, <1>2 DEF PlayerInv, Undisturbed, OnlyAPlayerPlays, GoesOn, Player, NoPlayer, Nothing
<1>4. InPlace'
  BY <1>1, <1>2 DEF PlayerInv, InPlace
<1>5. PlaysIntact'
  BY <1>1, <1>2 DEF PlayerInv, PlaysIntact, File, Nothing
<1> QED
  BY <1>3, <1>4, <1>5 DEF PlayerInv

\* The player starts, stops or goes back, and plays nothing.
LEMMA MovesKeepPlayerInv ==
  ASSUME Inv, PlayerInv, SameFiles, played' = played,
         NEW r \in Player, reader' = r, r.file = reader.file, r.file # NoFile,
         r.forever = reader.forever,
         r.pos = reader.pos \/ (r.pos = 0 /\ r.forever)
  PROVE  PlayerInv'
<1>1. disk' = disk /\ tears' = tears /\ path' = path
  BY DEF SameFiles, saver
<1>2. (reader \in Player)' /\ Undisturbed' /\ OnlyAPlayerPlays'
  BY <1>1 DEF PlayerInv, Undisturbed, OnlyAPlayerPlays
<1>3. AtRecord(disk[r.file], tears[r.file], r.pos)
  BY FileIsSound, BeginsWithRecord DEF PlayerInv, InPlace
<1>4. InPlace'
  BY <1>1, <1>3 DEF InPlace
<1>5. GoesOn'
  BY DEF PlayerInv, GoesOn
<1>6. PlaysIntact'
  BY <1>1 DEF PlayerInv, PlaysIntact, File, Nothing
<1> QED
  BY <1>2, <1>4, <1>5, <1>6 DEF PlayerInv

\* It plays the record in front of which r stands.
LEMMA ReadKeepsPlayerInv ==
  ASSUME Inv, PlayerInv, SameFiles,
         NEW r \in Player, r.file = reader.file, r.file # NoFile,
         AtRecord(disk[r.file], tears[r.file], r.pos),
         r.pos = Len(disk[r.file]) => r.pos = 0,
         ReadAndSignal(r)
  PROVE  PlayerInv' /\ played'.from = r.pos
<1> DEFINE f == disk[r.file]
           torn == tears[r.file]
<1>1. /\ r.file \in Files /\ r.file # path
      /\ f \in Seq(Unit) /\ torn \in SUBSET Nat /\ Whole(f, torn) /\ EndsWell(f, torn)
  BY FileIsSound
<1>2. AtRecord(f, torn, r.pos) /\ (r.pos = Len(f) => r.pos = 0) /\ File(r) = f
  BY DEF File
<1> HIDE DEF f, torn
<1>3. Len(f) \in Nat
  BY <1>1, LenProperties
<1>4. PICK size \in SizesAt(f, r.pos) :
        /\ reader' = [r EXCEPT !.pos = ReadTo(f, r.pos, size),
                               !.eof = r.pos + SizeUnits + size > Len(f),
                               !.fail = r.pos + SizeUnits + size > Len(f)]
        /\ played' = [from |-> r.pos, to |-> ReadTo(f, r.pos, size),
                      message |-> MessageAt(f, r.pos, size)]
  BY <1>2 DEF ReadAndSignal, ReadTo
<1> DEFINE to == ReadTo(f, r.pos, size)
<1>5. AtRecord(f, torn, to) /\ to \in Nat
  BY <1>1, <1>2, ReadsToRecord
<1> HIDE DEF to
<1>6. disk' = disk /\ tears' = tears /\ path' = path
  BY DEF SameFiles, saver
<1>7. reader' \in Player /\ reader'.file = r.file /\ reader'.pos = to
  <2>1. (r.pos + SizeUnits + size > Len(f)) \in BOOLEAN
    OBVIOUS
  <2> QED
    BY <1>4, <1>5, <2>1 DEF Player, to
<1>8. played'.from = r.pos /\ played'.to = to /\ played'.message = MessageAt(f, r.pos, size)
  BY <1>4 DEF to
<1>9. Undisturbed' /\ OnlyAPlayerPlays' /\ GoesOn'
  BY <1>1, <1>6, <1>7, <1>8 DEF Undisturbed, OnlyAPlayerPlays, GoesOn
<1>10. InPlace'
  BY <1>5, <1>6, <1>7 DEF InPlace, f, torn
<1>11. PlaysIntact'
  <2> SUFFICES ASSUME Len(f) > 0, \A k \in torn : to < k
               PROVE  /\ MessageAt(f, r.pos, size) \in Messages
                      /\ SubSeq(f, r.pos + 1, to) = Record(MessageAt(f, r.pos, size))
    BY <1>6, <1>7, <1>8 DEF PlaysIntact, File, f, torn
  <2>1. r.pos < Len(f)
    BY <1>2, <1>3 DEF AtRecord
  <2>2. to = ReadTo(f, r.pos, size)
    BY DEF to
  <2> QED
    BY <1>1, <1>2, <2>1, <2>2, ReadsRecord
<1> QED
  BY <1>7, <1>8, <1>9, <1>10, <1>11 DEF PlayerInv

-----------------------------------------------------------------------------
(* The saver's steps and the player's.                                     *)

LEMMA SaverKeepsPlayerInv ==
  ASSUME Inv, PlayerInv,
         \/ \E f \in Files, append \in BOOLEAN : Open(f, append) \/ SetFilePath(f, append)
         \/ \E k \in 1..Len(buffer) : Flush(k)
         \/ \E t \in Threads : Recording(t) \/ \E m \in Messages : Receive(t, m)
         \/ Close
  PROVE  PlayerInv' /\ played' = played
<1>1. \A f \in Files : f = reader.file => f # path /\ Content(f) = disk[f]
  BY FileIsSound, DataFileAssumption
<1>2. path # NoFile => path \in Files
  BY DEF Inv, SaverTypeOK
<1>3. disk \in [Files -> Seq(Unit)] /\ tears \in [Files -> SUBSET Nat]
  BY DEF Inv, SaverTypeOK
<1>4. ASSUME NEW d \in [Files -> Seq(Unit)], \A g \in Files : d[g] = Content(g),
             NEW f \in Files, NEW append \in BOOLEAN, OpenTo(d, f, append)
      PROVE  PlayerInv' /\ played' = played
  <2>1. /\ f # reader.file /\ path' = f /\ UNCHANGED player
        /\ disk' = [d EXCEPT ![f] = IF append THEN @ ELSE <<>>]
        /\ tears' = [tears EXCEPT ![f] = IF append THEN @ ELSE {}]
    BY <1>3, <1>4 DEF OpenTo, Opened
  <2>2. \A g \in Files : g = reader.file => disk'[g] = disk[g] /\ tears'[g] = tears[g] /\ path' # g
    BY <1>1, <1>3, <1>4, <2>1
  <2> QED
    BY <2>1, <2>2, OthersKeepPlayerInv DEF player
<1>5. CASE \E f \in Files, append \in BOOLEAN : Open(f, append) \/ SetFilePath(f, append)
  <2> PICK f \in Files, append \in BOOLEAN : Open(f, append) \/ SetFilePath(f, append)
    BY <1>5
  <2>1. CASE Open(f, append)
    <3>1. \A g \in Files : disk[g] = Content(g)
      BY <2>1, DataFileAssumption DEF Open, Content
    <3> QED
      BY <1>3, <1>4, <2>1, <3>1 DEF Open
  <2>2. CASE SetFilePath(f, append)
    BY <1>4, <2>2, ClosedOK DEF SetFilePath, Inv
  <2> QED
    BY <2>1, <2>2
<1>6. CASE (\E k \in 1..Len(buffer) : Flush(k)) \/ Close
  <2>1. /\ UNCHANGED <<tears, player>> /\ path' \in {path, NoFile} /\ path # NoFile
        /\ \E c : disk' = [disk EXCEPT ![path] = c]
    BY <1>6 DEF Flush, Close, Closed
  <2>2. \A f \in Files : f = reader.file => disk'[f] = disk[f] /\ tears'[f] = tears[f] /\ path' # f
    BY <1>1, <1>3, <2>1, DataFileAssumption
  <2> QED
    BY <2>1, <2>2, OthersKeepPlayerInv DEF player
<1>7. CASE \E t \in Threads : Recording(t) \/ \E m \in Messages : Receive(t, m)
  <2>1. UNCHANGED <<disk, path, tears, player>>
    BY <1>7 DEF Recording, WriteSize, WriteData, Write, SignalOn, Receive
  <2> QED
    BY <1>1, <2>1, OthersKeepPlayerInv DEF player
<1> QED
  BY <1>5, <1>6, <1>7

LEMMA NoPlayerOK == NoPlayer \in Player
BY DEF NoPlayer, Player

LEMMA NoPlayerPlays ==
  ASSUME reader' = NoPlayer, played' = Nothing
  PROVE  PlayerInv'
<1>1. reader'.file = NoFile /\ reader'.pos = 0 /\ played'.to = 0
  BY DEF NoPlayer, Nothing
<1> QED
  BY <1>1, NoPlayerOK DEF PlayerInv, Undisturbed, OnlyAPlayerPlays, InPlace, GoesOn,
                          PlaysIntact, Nothing

\* a player that was opened
Opens == \E f \in Files, forever \in BOOLEAN : OpenPlayer(f, forever)

LEMMA OpensKeepsPlayerInv ==
  ASSUME Inv, PlayerInv, Opens
  PROVE  PlayerInv' /\ played' = played
<1> PICK f \in Files, forever \in BOOLEAN : OpenPlayer(f, forever)
  BY DEF Opens
<1>1. /\ f # path /\ played' = played /\ SameFiles /\ played = Nothing
      /\ reader' = [NoPlayer EXCEPT !.file = f, !.forever = forever]
  BY DEF OpenPlayer, PlayerInv, OnlyAPlayerPlays, NoPlayer
<1>2. disk' = disk /\ tears' = tears /\ path' = path
  BY <1>1 DEF SameFiles, saver
<1>3. reader' \in Player /\ reader'.file = f /\ reader'.pos = 0
  BY <1>1, NoPlayerOK DEF Player, NoPlayer
<1>4. AtRecord(disk[f], tears[f], 0)
  <2>1. Content(f) = disk[f] /\ disk[f] \in Seq(Unit) /\ Whole(Content(f), tears[f])
    BY <1>1 DEF Content, Inv, WholeRecords, SaverTypeOK
  <2> QED
    BY <2>1, BeginsWithRecord
<1>5. f # NoFile
  BY DataFileAssumption
<1>6. InPlace'
  BY <1>2, <1>3, <1>4 DEF InPlace
<1>7. played'.to = 0
  BY <1>1 DEF Nothing
<1> QED
  BY <1>1, <1>2, <1>3, <1>5, <1>6, <1>7
     DEF PlayerInv, Undisturbed, OnlyAPlayerPlays, GoesOn, PlaysIntact, Nothing

\* the steps that play nothing
Moves == Start \/ RequestStop \/ RunOut

LEMMA MovesKeepsPlayerInv ==
  ASSUME Inv, PlayerInv, Moves
  PROVE  PlayerInv' /\ played' = played
<1>1. reader \in Player /\ SameFiles /\ played' = played
  BY DEF PlayerInv, Moves, Start, RequestStop, RunOut
<1>2. reader # NoPlayer
  BY DEF Moves, Start, RequestStop, RunOut, NoPlayer
<1>3. reader.file # NoFile
  BY <1>2 DEF PlayerInv, OnlyAPlayerPlays
<1>4. \E r \in Player : /\ reader' = r /\ r.file = reader.file /\ r.forever = reader.forever
                        /\ r.pos = reader.pos \/ (r.pos = 0 /\ r.forever)
  <2>1. CASE Start \/ RequestStop
    BY <1>1, <2>1 DEF Start, RequestStop, Started, Player
  <2>2. CASE RunOut
    <3> DEFINE r == IF reader.stop \/ reader.fail THEN reader ELSE Peeked(reader)
               s == IF r.forever THEN Rewound(r) ELSE [r EXCEPT !.stop = TRUE]
    <3>1. r \in Player /\ r.file = reader.file /\ r.forever = reader.forever /\ r.pos = reader.pos
      BY <1>1 DEF Peeked, Player
    <3>2. reader' = [s EXCEPT !.running = ~s.stop]
      BY <2>2 DEF RunOut
    <3> HIDE DEF r
    <3>3. /\ s \in Player /\ s.file = reader.file /\ s.forever = reader.forever
          /\ s.pos = reader.pos \/ (s.pos = 0 /\ s.forever)
      BY <3>1 DEF Rewound, Player
    <3> HIDE DEF s
    <3> DEFINE running == ~s.stop
    <3>4. running \in BOOLEAN /\ reader' = [s EXCEPT !.running = running]
      BY <3>2, Zenon
    <3> HIDE DEF running
    <3>5. [s EXCEPT !.running = running] \in Player
      BY <3>3, <3>4 DEF Player
    <3> QED
      BY <3>3, <3>4, <3>5 DEF Player
  <2> QED
    BY <2>1, <2>2 DEF Moves
<1> QED
  BY <1>1, <1>3, <1>4, MovesKeepPlayerInv

\* What is played next: it goes on where the last message ended, or at the
\* beginning.
GoesOnFrom(from) == from = played.to \/ (from = 0 /\ reader.forever)

LEMMA PlaysKeepsPlayerInv ==
  ASSUME Inv, PlayerInv, PlayNext \/ Produce
  PROVE  PlayerInv' /\ (played' = played \/ GoesOnFrom(played'.from))
<1>1. reader \in Player /\ SameFiles
  BY DEF PlayerInv, PlayNext, Produce
<1>2. reader # NoPlayer
  BY DEF PlayNext, Produce, NoPlayer
<1>3. reader.file # NoFile
  BY <1>2 DEF PlayerInv, OnlyAPlayerPlays
<1>4. ASSUME ReadAndSignal(reader), ~AtEnd(reader)
      PROVE  PlayerInv' /\ GoesOnFrom(played'.from)
  <2>1. reader.pos # Len(disk[reader.file])
    BY <1>3, <1>4 DEF AtEnd, File
  <2>2. AtRecord(disk[reader.file], tears[reader.file], reader.pos)
    BY <1>3 DEF PlayerInv, InPlace
  <2>3. PlayerInv' /\ played'.from = reader.pos
    BY <1>1, <1>3, <1>4, <2>1, <2>2, ReadKeepsPlayerInv
  <2> QED
    BY <2>3 DEF PlayerInv, GoesOn, GoesOnFrom
<1>5. CASE PlayNext
  BY <1>4, <1>5 DEF PlayNext, PlayOn
<1>6. CASE Produce
  <2> DEFINE p == Peeked(reader)
  <2>1. /\ p \in Player /\ p.file = reader.file /\ p.forever = reader.forever
        /\ p.pos = reader.pos /\ (~AtEnd(reader) => p = reader)
    BY <1>1 DEF Peeked, Player
  <2>2. \/ ~AtEnd(reader) /\ ReadAndSignal(p)
        \/ AtEnd(reader) /\ reader.forever /\ ReadAndSignal(Rewound(p))
        \/ reader' = p /\ UNCHANGED played
    BY <1>6 DEF Produce
  <2> HIDE DEF p
  <2>3. CASE ~AtEnd(reader) /\ ReadAndSignal(p)
    BY <1>4, <2>1, <2>3
  <2>4. CASE AtEnd(reader) /\ reader.forever /\ ReadAndSignal(Rewound(p))
    <3> DEFINE r == Rewound(p)
    <3>1. r \in Player /\ r.file = reader.file /\ r.forever = reader.forever /\ r.pos = 0
      BY <2>1 DEF Rewound, Player
    <3> HIDE DEF r
    <3>2. AtRecord(disk[r.file], tears[r.file], r.pos)
      BY <1>3, <3>1, FileIsSound, BeginsWithRecord
    <3>3. ReadAndSignal(r)
      BY <2>4 DEF r
    <3>4. PlayerInv' /\ played'.from = r.pos
      BY <1>1, <1>3, <3>1, <3>2, <3>3, ReadKeepsPlayerInv
    <3> QED
      BY <2>4, <3>1, <3>4 DEF GoesOnFrom
  <2>5. CASE reader' = p /\ UNCHANGED played
    BY <1>1, <1>3, <2>1, <2>5, MovesKeepPlayerInv
  <2> QED
    BY <2>2, <2>3, <2>4, <2>5
<1> QED
  BY <1>5, <1>6

LEMMA PlayerInit == Init => PlayerInv
<1> SUFFICES ASSUME Init PROVE PlayerInv
  OBVIOUS
<1>1. reader = NoPlayer /\ played = Nothing
  BY DEF Init
<1>2. reader.file = NoFile /\ reader.pos = 0 /\ played.to = 0
  BY <1>1 DEF NoPlayer, Nothing
<1> QED
  BY <1>1, <1>2, NoPlayerOK DEF PlayerInv, Undisturbed, OnlyAPlayerPlays, InPlace, GoesOn,
                                PlaysIntact

LEMMA PlayerStep ==
  ASSUME Inv, PlayerInv, [Next]_vars
  PROVE  PlayerInv' /\ (played' \in {played, Nothing} \/ GoesOnFrom(played'.from))
<1>1. CASE Crash \/ DiesOfGarbage \/ ClosePlayer
  BY <1>1, NoPlayerPlays DEF Crash, DiesOfGarbage, Dies, ClosePlayer
<1>2. CASE UNCHANGED vars
  <2>1. UNCHANGED <<disk, path, tears, player>>
    BY <1>2 DEF vars, saver
  <2>2. \A f \in Files : f = reader.file => path # f
    BY DataFileAssumption DEF PlayerInv, Undisturbed
  <2> QED
    BY <2>1, <2>2, OthersKeepPlayerInv DEF player
<1> QED
  BY <1>1, <1>2, SaverKeepsPlayerInv, OpensKeepsPlayerInv, MovesKeepsPlayerInv,
     PlaysKeepsPlayerInv DEF Next, Opens, Moves, Playing

\* What the player signals is what was saved, byte for byte, up to the first place
\* where a crash cut a record off, for any sizes, files and stops.
THEOREM PlayedAsSaved == Spec => []PlaysIntact
<1>1. PlayerInv => PlaysIntact
  BY DEF PlayerInv
<1>2. Inv /\ PlayerInv /\ [Next]_vars => PlayerInv'
  BY PlayerStep
<1> QED
  BY <1>1, <1>2, InitInv, NextKeepsInv, PlayerInit, PTL DEF Spec

\* The player goes through the file without a gap and without a repetition, also
\* when it is stopped and started, unless it repeats.
THEOREM NothingSkipped == Spec => SkipsNothing
<1>1. Inv /\ PlayerInv /\ [Next]_vars
        => PlayerInv' /\ [played' \notin {played, Nothing} =>
                            \/ played'.from = played.to
                            \/ played'.from = 0 /\ reader.forever]_vars
  BY PlayerStep DEF GoesOnFrom
<1> QED
  BY <1>1, InitInv, NextKeepsInv, PlayerInit, PTL DEF Spec, SkipsNothing

=============================================================================
