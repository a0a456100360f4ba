---------------------------- MODULE GraphProofs -----------------------------
(***************************************************************************)
(* Proofs about Graph: whatever connections the program makes, a walk      *)
(* comes once to every node and every connection below the root, and the   *)
(* walk backwards comes to a node after the nodes below it; filter_nodes   *)
(* takes out what it rejects and nothing else; and profiling meters every  *)
(* connection, and its end gives the program its graph back.               *)
(***************************************************************************)
EXTENDS Graph, FiniteSetTheorems, SequenceTheorems, WellFoundedInduction, TLAPS

\* The graphs that the program can build.
Wirings == [AllNodes -> Seq(Followers)]

TypeInv == observers \in Wirings /\ metrics_instrumented \in BOOLEAN

-----------------------------------------------------------------------------
(* Numbers.                                                                *)

LEMMA LeastNumber ==
  ASSUME NEW T, T \subseteq Nat, T # {}
  PROVE  \E x \in T : \A y \in T : x <= y
<1>1. IsWellFoundedOn(OpToRel(<, Nat), Nat)
  BY NatLessThanWellFounded
<1>2. PICK x \in T : \A y \in T : ~ (<<y, x>> \in OpToRel(<, Nat))
  BY <1>1, WFMin
<1>3. \A y \in T : ~ (y < x)
  BY <1>2 DEF OpToRel
<1>. QED
  BY <1>3

\* The greatest of some of the numbers up to n.
LEMMA MaxOfSome ==
  ASSUME NEW n \in Nat, NEW S \in SUBSET (1 .. n), S # {}
  PROVE  Max(S) \in S /\ Max(S) \in 1 .. n /\ \A y \in S : Max(S) >= y
<1>. DEFINE T == {n - x : x \in S}
<1>1. T \subseteq Nat /\ T # {}
  <2>1. \A x \in S : n - x \in Nat
    OBVIOUS
  <2>. QED
    BY <2>1
<1>2. PICK d \in T : \A e \in T : d <= e
  <2>. HIDE DEF T
  <2>. QED
    BY <1>1, LeastNumber
<1>3. PICK x \in S : d = n - x
  BY <1>2
<1>4. \A y \in S : x >= y
  <2>1. ASSUME NEW y \in S PROVE x >= y
    <3>1. n - x <= n - y
      BY <1>2, <1>3
    <3>2. x \in 1 .. n /\ y \in 1 .. n
      BY <1>3
    <3>. QED
      BY <3>1, <3>2
  <2>. QED
    BY <2>1
<1>. QED
  BY <1>3, <1>4 DEF Max

\* The numbers up to n, with and without the last.
LEMMA MaxIsLast ==
  ASSUME NEW n \in Nat, NEW S \in SUBSET (1 .. n), n \in S
  PROVE  Max(S) = n
<1>1. Max(S) \in 1 .. n /\ Max(S) >= n
  BY MaxOfSome
<1>. QED
  BY <1>1

\* A function on a finite set has a bound.
LEMMA Bounded ==
  ASSUME NEW S, IsFiniteSet(S), NEW f \in [S -> Nat]
  PROVE  \E b \in Nat : \A x \in S : f[x] <= b
<1>. DEFINE Has(T) == \E b \in Nat : \A x \in T : f[x] <= b
            Bad == {k \in Nat : \E T \in SUBSET S : Cardinality(T) = k /\ ~Has(T)}
<1>1. SUFFICES ASSUME ~Has(S) PROVE FALSE
  OBVIOUS
<1>2. Bad \subseteq Nat /\ Bad # {}
  <2>1. Cardinality(S) \in Nat
    BY FS_CardinalityType
  <2>. QED
    BY <1>1, <2>1
<1>3. PICK k \in Bad : \A j \in Bad : k <= j
  <2>. HIDE DEF Bad
  <2>. QED
    BY <1>2, LeastNumber
<1>4. PICK T \in SUBSET S : Cardinality(T) = k /\ ~Has(T)
  BY <1>3
<1>5. PICK x \in T : TRUE
  <2>1. Has({})
    OBVIOUS
  <2>. QED
    BY <1>4, <2>1
<1>. DEFINE R == T \ {x}
<1>6. IsFiniteSet(T) /\ R \in SUBSET S /\ T = R \cup {x}
  BY <1>4, <1>5, FS_Subset
<1>7. Cardinality(R) = k - 1 /\ k - 1 \in Nat
  <2>1. Cardinality(R) = Cardinality(T) - 1 /\ IsFiniteSet(R)
    BY <1>5, <1>6, FS_RemoveElement
  <2>2. Cardinality(R) \in Nat
    BY <2>1, FS_CardinalityType
  <2>. QED
    BY <1>2, <1>3, <1>4, <2>1, <2>2
<1>8. Has(R)
  <2>1. k - 1 \notin Bad
    <3>. HIDE DEF Bad
    <3>. QED
      BY <1>2, <1>3, <1>7
  <2>. QED
    BY <1>6, <1>7, <2>1
<1>9. PICK b \in Nat : \A y \in R : f[y] <= b
  BY <1>8
<1>10. f[x] \in Nat
  BY <1>4, <1>5
<1>11. CASE f[x] <= b
  <2>1. \A y \in T : f[y] <= b
    BY <1>6, <1>9, <1>11
  <2>. QED
    BY <1>4, <2>1
<1>12. CASE b < f[x]
  <2>1. \A y \in R : f[y] \in Nat
    BY <1>6
  <2>2. \A y \in T : f[y] <= f[x]
    BY <1>6, <1>9, <1>10, <1>12, <2>1
  <2>. QED
    BY <1>4, <1>10, <2>2
<1>. QED
  BY <1>10, <1>11, <1>12

-----------------------------------------------------------------------------
(* FoldLeft.  What follows is about a fold whose step is the function G.   *)

\* h is the function on sets of indexes by which a fold of s is defined.
FoldsBy(G, base, s, h) ==
  \A S \in SUBSET (1 .. Len(s)) :
    h[S] = IF S = {} THEN base ELSE G[h[S \ {Max(S)}]][s[Max(S)]]

LEMMA FoldExists ==
  ASSUME NEW H, NEW T, NEW G \in [H -> [T -> H]], NEW base \in H, NEW s \in Seq(T)
  PROVE  \E h \in [SUBSET (1 .. Len(s)) -> H] : FoldsBy(G, base, s, h)
<1>. DEFINE Has(n) == \E f \in [SUBSET (1 .. n) -> H] :
              \A S \in SUBSET (1 .. n) :
                f[S] = IF S = {} THEN base ELSE G[f[S \ {Max(S)}]][s[Max(S)]]
            Bad == {n \in 0 .. Len(s) : ~Has(n)}
<1>1. Len(s) \in Nat /\ \A i \in 1 .. Len(s) : s[i] \in T
  BY LenProperties, ElementOfSeq
<1>2. Has(0)
  <2>. DEFINE f == [S \in SUBSET (1 .. 0) |-> base]
  <2>1. 1 .. 0 = {}
    OBVIOUS
  <2>2. \A S \in SUBSET (1 .. 0) : S = {} /\ f[S] = base
    BY <2>1
  <2>3. f \in [SUBSET (1 .. 0) -> H]
    OBVIOUS
  <2>. HIDE DEF f
  <2>. QED
    BY <2>2, <2>3
<1>3. ASSUME NEW n \in 1 .. Len(s), Has(n - 1) PROVE Has(n)
  <2>1. PICK f \in [SUBSET (1 .. (n - 1)) -> H] :
              \A S \in SUBSET (1 .. (n - 1)) :
                f[S] = IF S = {} THEN base ELSE G[f[S \ {Max(S)}]][s[Max(S)]]
    BY <1>3
  <2>. DEFINE g == [S \in SUBSET (1 .. n) |->
                      IF n \in S THEN G[f[S \ {n}]][s[n]] ELSE f[S]]
  <2>2. \A S \in SUBSET (1 .. n) : S \ {n} \in SUBSET (1 .. (n - 1))
    BY <1>1
  <2>3. g \in [SUBSET (1 .. n) -> H]
    <3>1. ASSUME NEW S \in SUBSET (1 .. n) PROVE g[S] \in H
      <4>1. f[S \ {n}] \in H /\ s[n] \in T
        BY <1>1, <2>2
      <4>2. CASE n \in S
        <5>1. g[S] = G[f[S \ {n}]][s[n]]
          BY <4>2
        <5>2. G[f[S \ {n}]] \in [T -> H]
          BY <4>1
        <5>3. G[f[S \ {n}]][s[n]] \in H
          BY <4>1, <5>2
        <5>. QED
          BY <5>1, <5>3
      <4>3. CASE n \notin S
        <5>1. g[S] = f[S] /\ S = S \ {n}
          BY <4>3
        <5>. QED
          BY <4>1, <5>1
      <4>. QED
        BY <4>2, <4>3
    <3>. QED
      BY <3>1
  <2>4. ASSUME NEW S \in SUBSET (1 .. n)
        PROVE  g[S] = IF S = {} THEN base ELSE G[g[S \ {Max(S)}]][s[Max(S)]]
    <3>1. CASE n \in S
      <4>1. Max(S) = n
        BY <1>1, <3>1, MaxIsLast
      <4>2. g[S \ {n}] = f[S \ {n}] /\ g[S] = G[f[S \ {n}]][s[n]]
        BY <2>2, <3>1
      <4>. QED
        BY <3>1, <4>1, <4>2
    <3>2. CASE n \notin S
      <4>1. S \in SUBSET (1 .. (n - 1)) /\ S = S \ {n}
        BY <2>2, <3>2
      <4>2. g[S] = f[S] /\ \A x : g[S \ {x}] = f[S \ {x}]
        BY <3>2, <4>1
      <4>. QED
        BY <2>1, <4>1, <4>2
    <3>. QED
      BY <3>1, <3>2
  <2>. HIDE DEF g
  <2>. QED
    BY <2>3, <2>4
<1>4. SUFFICES ASSUME ~Has(Len(s)) PROVE FALSE
  BY DEF FoldsBy
<1>. HIDE DEF Has
<1>5. Bad \subseteq 0 .. Len(s) /\ Len(s) \in Bad /\ 0 \notin Bad
  BY <1>1, <1>2, <1>4
<1>6. PICK n \in Bad : \A m \in Bad : n <= m
  <2>. HIDE DEF Bad
  <2>1. \A k \in 0 .. Len(s) : k \in Nat
    BY <1>1
  <2>2. Bad \subseteq Nat /\ Bad # {}
    BY <1>5, <2>1
  <2>. QED
    BY <2>2, LeastNumber
<1>7. n \in 1 .. Len(s) /\ n - 1 \in 0 .. Len(s) /\ n - 1 \notin Bad
  <2>. HIDE DEF Bad
  <2>1. n \in 0 .. Len(s) /\ n # 0
    BY <1>5, <1>6
  <2>2. n \in 1 .. Len(s) /\ n - 1 \in 0 .. Len(s) /\ n - 1 < n
    BY <1>1, <2>1
  <2>3. n - 1 \notin Bad
    BY <1>1, <1>6, <2>2
  <2>. QED
    BY <2>2, <2>3
<1>. QED
  BY <1>1, <1>3, <1>6, <1>7

\* From 0 up to n, step by step.
LEMMA Steps ==
  ASSUME NEW n \in Nat, NEW S, 0 \in S, \A k \in 1 .. n : k - 1 \in S => k \in S
  PROVE  \A k \in 0 .. n : k \in S
<1>. DEFINE Bad == {m \in 0 .. n : m \notin S}
<1>1. SUFFICES ASSUME Bad # {} PROVE FALSE
  OBVIOUS
<1>2. PICK k \in Bad : \A m \in Bad : k <= m
  <2>1. Bad \subseteq Nat
    OBVIOUS
  <2>. HIDE DEF Bad
  <2>. QED
    BY <1>1, <2>1, LeastNumber
<1>3. k \in 0 .. n /\ k \notin S /\ k # 0
  BY <1>2
<1>4. k \in 1 .. n /\ k - 1 \in 0 .. n /\ ~ (k <= k - 1)
  BY <1>3
<1>5. k - 1 \notin Bad
  <2>. HIDE DEF Bad
  <2>. QED
    BY <1>2, <1>4
<1>. QED
  BY <1>3, <1>4, <1>5

\* The numbers up to k, and the last of them.
LEMMA UpTo ==
  ASSUME NEW n \in Nat, NEW k \in 1 .. n
  PROVE  /\ 1 .. k \in SUBSET (1 .. n) /\ 1 .. k # {}
         /\ Max(1 .. k) = k
         /\ (1 .. k) \ {k} = 1 .. (k - 1)
<1>1. k \in Nat /\ k \in 1 .. k /\ (1 .. k) \ {k} = 1 .. (k - 1)
  OBVIOUS
<1>2. \A i \in 1 .. k : i \in 1 .. n
  OBVIOUS
<1>3. Max(1 .. k) = k
  BY <1>1, MaxIsLast
<1>. QED
  BY <1>1, <1>2, <1>3

\* What such a function is like where it has values in H.
FoldsIn(H, G, base, s, f) ==
  /\ f[{}] = base
  /\ \A S \in SUBSET (1 .. Len(s)) :
       S # {} /\ f[S \ {Max(S)}] \in H => f[S] = G[f[S \ {Max(S)}]][s[Max(S)]]

\* A fold of s, one element after the other.
BySteps(H, G, base, s, last, h) ==
  /\ h \in [0 .. Len(s) -> H]
  /\ h[0] = base
  /\ \A k \in 1 .. Len(s) : h[k] = G[h[k - 1]][s[k]]
  /\ h[Len(s)] = last

LEMMA FoldBySteps ==
  ASSUME NEW H, NEW T, NEW G \in [H -> [T -> H]], NEW base \in H, NEW s \in Seq(T), NEW f,
         FoldsIn(H, G, base, s, f)
  PROVE  \E h : BySteps(H, G, base, s, f[1 .. Len(s)], h)
<1>. DEFINE n == Len(s)
            h == [k \in 0 .. n |-> f[1 .. k]]
            S == {k \in 0 .. n : f[1 .. k] \in H}
<1>1. n \in Nat /\ \A i \in 1 .. n : s[i] \in T
  BY LenProperties, ElementOfSeq
<1>2. 1 .. 0 = {} /\ 0 \in 0 .. n /\ n \in 0 .. n
  BY <1>1
<1>3. ASSUME NEW k \in 1 .. n, f[1 .. (k - 1)] \in H
      PROVE  f[1 .. k] = G[f[1 .. (k - 1)]][s[k]]
  <2>1. /\ 1 .. k \in SUBSET (1 .. n) /\ 1 .. k # {}
        /\ Max(1 .. k) = k /\ (1 .. k) \ {k} = 1 .. (k - 1)
    BY <1>1, UpTo
  <2>. QED
    BY <1>3, <2>1 DEF FoldsIn
<1>4. 0 \in S
  BY <1>2 DEF FoldsIn
<1>5. ASSUME NEW k \in 1 .. n, k - 1 \in S PROVE k \in S
  <2>1. k \in 0 .. n /\ f[1 .. (k - 1)] \in H /\ s[k] \in T
    BY <1>1, <1>5
  <2>2. G[f[1 .. (k - 1)]] \in [T -> H]
    BY <2>1
  <2>3. G[f[1 .. (k - 1)]][s[k]] \in H
    BY <2>1, <2>2
  <2>. QED
    BY <1>3, <2>1, <2>3
<1>6. \A k \in 0 .. n : k \in S
  <2>. HIDE DEF S, n
  <2>. QED
    BY <1>1, <1>4, <1>5, Steps
<1>7. h \in [0 .. n -> H] /\ h[0] = base /\ h[n] = f[1 .. n]
  BY <1>2, <1>6 DEF FoldsIn
<1>8. ASSUME NEW k \in 1 .. n PROVE h[k] = G[h[k - 1]][s[k]]
  <2>1. k \in 0 .. n /\ k - 1 \in 0 .. n
    BY <1>1
  <2>2. h[k] = f[1 .. k] /\ h[k - 1] = f[1 .. (k - 1)] /\ f[1 .. (k - 1)] \in H
    BY <1>6, <2>1
  <2>. QED
    BY <1>3, <2>2
<1>. HIDE DEF h
<1>. QED
  BY <1>7, <1>8 DEF BySteps

-----------------------------------------------------------------------------
(* Sequences.                                                              *)

LEMMA SeqFacts ==
  ASSUME NEW S, NEW s \in Seq(S)
  PROVE  /\ Len(s) \in Nat
         /\ DOMAIN s = 1 .. Len(s)
         /\ \A i \in 1 .. Len(s) : s[i] \in S /\ s[i] \in Range(s)
         /\ \A x \in Range(s) : x \in S /\ \E i \in 1 .. Len(s) : s[i] = x
BY LenProperties, ElementOfSeq, RangeEquality

LEMMA AppendFacts ==
  ASSUME NEW S, NEW s \in Seq(S), NEW e \in S
  PROVE  /\ Append(s, e) \in Seq(S)
         /\ Len(Append(s, e)) = Len(s) + 1
         /\ DOMAIN Append(s, e) = 1 .. (Len(s) + 1)
         /\ \A i \in 1 .. Len(s) : Append(s, e)[i] = s[i]
         /\ Append(s, e)[Len(s) + 1] = e
         /\ Range(Append(s, e)) = Range(s) \cup {e}
<1>1. /\ Append(s, e) \in Seq(S)
      /\ Len(Append(s, e)) = Len(s) + 1
      /\ \A i \in 1 .. Len(s) : Append(s, e)[i] = s[i]
      /\ Append(s, e)[Len(s) + 1] = e
  BY AppendProperties
<1>2. Len(s) \in Nat /\ DOMAIN Append(s, e) = 1 .. (Len(s) + 1) /\ DOMAIN s = 1 .. Len(s)
  BY <1>1, LenProperties
<1>3. 1 .. (Len(s) + 1) = (1 .. Len(s)) \cup {Len(s) + 1}
  BY <1>2
<1>4. Range(Append(s, e)) = Range(s) \cup {e}
  <2>1. ASSUME NEW x \in Range(Append(s, e)) PROVE x \in Range(s) \cup {e}
    <3>1. PICK i \in 1 .. (Len(s) + 1) : x = Append(s, e)[i]
      BY <1>2, <2>1 DEF Range
    <3>2. i \in 1 .. Len(s) \/ i = Len(s) + 1
      BY <1>3, <3>1
    <3>. QED
      BY <1>1, <1>2, <3>1, <3>2 DEF Range
  <2>2. ASSUME NEW x \in Range(s) PROVE x \in Range(Append(s, e))
    <3>1. PICK i \in 1 .. Len(s) : x = s[i]
      BY <1>2 DEF Range
    <3>2. i \in 1 .. (Len(s) + 1) /\ x = Append(s, e)[i]
      BY <1>1, <1>2, <3>1
    <3>. QED
      BY <1>2, <3>2 DEF Range
  <2>3. e \in Range(Append(s, e))
    <3>1. Len(s) + 1 \in 1 .. (Len(s) + 1)
      BY <1>2
    <3>. QED
      BY <1>1, <1>2, <3>1 DEF Range
  <2>. QED
    BY <2>1, <2>2, <2>3
<1>. QED
  BY <1>1, <1>2, <1>4

LEMMA AppendNew ==
  ASSUME NEW S, NEW s \in Seq(S), NEW e \in S, IsInjective(s), e \notin Range(s)
  PROVE  IsInjective(Append(s, e))
<1>1. \A i \in 1 .. Len(s) : s[i] # e
  BY SeqFacts
<1>2. \A i, j \in 1 .. Len(s) : s[i] = s[j] => i = j
  BY SeqFacts DEF IsInjective
<1>3. Len(s) \in Nat /\ \A i \in 1 .. (Len(s) + 1) : i \in 1 .. Len(s) \/ i = Len(s) + 1
  BY SeqFacts
<1>4. \A i, j \in 1 .. (Len(s) + 1) : Append(s, e)[i] = Append(s, e)[j] => i = j
  BY <1>1, <1>2, <1>3, AppendFacts
<1>. QED
  BY <1>4, AppendFacts DEF IsInjective

LEMMA EmptyRange == DOMAIN << >> = {} /\ Range(<< >>) = {}
<1>1. << >> \in Seq({}) /\ Len(<< >>) = 0
  BY EmptySeq
<1>2. DOMAIN << >> = 1 .. 0 /\ 1 .. 0 = {}
  BY <1>1, LenProperties
<1>. QED
  BY <1>2 DEF Range

LEMMA AppendToConcat ==
  ASSUME NEW S, NEW s \in Seq(S), NEW t \in Seq(S), NEW e \in S
  PROVE  s \o Append(t, e) = Append(s \o t, e)
<1>1. Append(t, e) = t \o << e >> /\ << e >> \in Seq(S)
  BY AppendIsConcat
<1>2. s \o t \in Seq(S)
  BY ConcatProperties
<1>3. Append(s \o t, e) = (s \o t) \o << e >>
  BY <1>2, AppendIsConcat
<1>. QED
  BY <1>1, <1>3, ConcatAssociative

\* Induction over sequences, for a set P of them.
LEMMA AppendInduction ==
  ASSUME NEW S, NEW P \in SUBSET Seq(S), << >> \in P,
         \A s \in P, e \in S : Append(s, e) \in P
  PROVE  \A s \in Seq(S) : s \in P
<1>. SUFFICES ASSUME NEW s \in Seq(S) PROVE s \in P
  OBVIOUS
<1>. DEFINE N == {k \in 0 .. Len(s) : SubSeq(s, 1, k) \in P}
<1>1. Len(s) \in Nat /\ \A i \in 1 .. Len(s) : s[i] \in S
  BY SeqFacts
<1>2. 0 \in N
  <2>1. SubSeq(s, 1, 0) = << >>
    BY SubSeqEmpty
  <2>2. 0 \in 0 .. Len(s)
    BY <1>1
  <2>3. SubSeq(s, 1, 0) \in P
    BY <2>1
  <2>. QED
    BY <2>2, <2>3
<1>3. ASSUME NEW k \in 1 .. Len(s), k - 1 \in N PROVE k \in N
  <2>1. 1 \in 1 .. Len(s) /\ k \in 1 .. Len(s) /\ s[k] \in S
    BY <1>1
  <2>2. SubSeq(s, 1, k) = SubSeq(s, 1, k - 1) \o << s[k] >>
    BY <2>1, SubSeqRecursiveSecond
  <2>3. SubSeq(s, 1, k - 1) \in P /\ SubSeq(s, 1, k - 1) \in Seq(S)
    BY <1>3
  <2>4. SubSeq(s, 1, k) = Append(SubSeq(s, 1, k - 1), s[k])
    BY <2>1, <2>2, <2>3, AppendIsConcat
  <2>5. k \in 0 .. Len(s)
    BY <1>1
  <2>6. SubSeq(s, 1, k) \in P
    <3>1. \A t \in P : Append(t, s[k]) \in P
      BY <2>1
    <3>. QED
      BY <2>3, <2>4, <3>1
  <2>. QED
    BY <2>5, <2>6
<1>4. \A k \in 0 .. Len(s) : k \in N
  <2>. HIDE DEF N
  <2>. QED
    BY <1>1, <1>2, <1>3, Steps
<1>5. SubSeq(s, 1, Len(s)) \in P
  BY <1>1, <1>4
<1>. QED
  BY <1>5, SubSeqFull

\* Folds of the empty sequence, and of a sequence with one more element.
LEMMA FoldEmpty ==
  ASSUME NEW H, NEW G, NEW base, NEW x, NEW h, BySteps(H, G, base, << >>, x, h)
  PROVE  x = base
<1>1. Len(<< >>) = 0
  BY EmptySeq
<1>. QED
  BY <1>1 DEF BySteps

LEMMA FoldAppend ==
  ASSUME NEW H, NEW T, NEW G, NEW base, NEW s \in Seq(T), NEW e \in T,
         NEW x, NEW h, BySteps(H, G, base, s, x, h),
         NEW y, NEW k, BySteps(H, G, base, Append(s, e), y, k)
  PROVE  y = G[x][e]
<1>. DEFINE n == Len(s)
            u == Append(s, e)
            S == {i \in 0 .. n : h[i] = k[i]}
<1>1. n \in Nat /\ Len(u) = n + 1 /\ (\A i \in 1 .. n : u[i] = s[i]) /\ u[n + 1] = e
  BY SeqFacts, AppendFacts
<1>2. h[0] = base /\ h[n] = x /\ \A i \in 1 .. n : h[i] = G[h[i - 1]][s[i]]
  BY DEF BySteps
<1>. HIDE DEF u
<1>3. k[0] = base /\ k[n + 1] = y /\ \A i \in 1 .. (n + 1) : k[i] = G[k[i - 1]][u[i]]
  BY <1>1 DEF BySteps, u
<1>. HIDE DEF n
<1>4. 0 \in S
  BY <1>1, <1>2, <1>3
<1>5. ASSUME NEW i \in 1 .. n, i - 1 \in S PROVE i \in S
  BY <1>1, <1>2, <1>3, <1>5
<1>6. \A i \in 0 .. n : i \in S
  <2>. HIDE DEF S
  <2>. QED
    BY <1>1, <1>4, <1>5, Steps
<1>7. h[n] = k[n] /\ n + 1 \in 1 .. (n + 1) /\ (n + 1) - 1 = n
  BY <1>1, <1>6
<1>. QED
  BY <1>1, <1>2, <1>3, <1>7
-----------------------------------------------------------------------------
(* Types: the edits of a graph give graphs.                                *)

LEMMA AllNodesFinite ==
  /\ IsFiniteSet(AllNodes)
  /\ IsFiniteSet(Followers)
  /\ Root \in AllNodes
  /\ Followers \subseteq AllNodes
  /\ Range(MetricsNodes) \subseteq Followers
<1>1. IsFiniteSet(Nodes) /\ Root \in Nodes /\ Range(MetricsNodes) \cap Nodes = {}
  BY GraphAssumption
<1>2. IsFiniteSet(Range(MetricsNodes))
  <2>1. PICK f : f = [x \in DOMAIN MetricsNodes |-> MetricsNodes[x]]
    OBVIOUS
  <2>2. f \in Surjection(DOMAIN MetricsNodes, Range(MetricsNodes))
    BY <2>1 DEF Range, Surjection
  <2>3. IsFiniteSet(DOMAIN MetricsNodes)
    <3>1. DOMAIN MetricsNodes = 1 .. Len(MetricsNodes) /\ Len(MetricsNodes) \in Nat
      BY GraphAssumption, LenProperties
    <3>. QED
      BY <3>1, FS_Interval
  <2>. QED
    BY <2>2, <2>3, FS_Surjection
<1>. QED
  BY <1>1, <1>2, FS_Union, FS_Subset DEF AllNodes, Followers

\* The step of the fold by which Without is defined.
Keeping(S, node) == [kept \in Seq(S) |-> [o \in S |-> IF o = node THEN kept ELSE Append(kept, o)]]

LEMMA WithoutInSteps ==
  ASSUME NEW S, NEW list \in Seq(S), NEW node
  PROVE  /\ Keeping(S, node) \in [Seq(S) -> [S -> Seq(S)]]
         /\ \E h : BySteps(Seq(S), Keeping(S, node), << >>, list, Without(list, node), h)
<1>. DEFINE H == Seq(S)
            D == 1 .. Len(list)
            Keep(kept, o) == IF o = node THEN kept ELSE Append(kept, o)
            G == Keeping(S, node)
            Body(f) == [T \in SUBSET D |->
                          IF T = {} THEN << >> ELSE Keep(f[T \ {Max(T)}], list[Max(T)])]
            f == CHOOSE f : f = Body(f)
<1>1. DOMAIN list = D /\ Len(list) \in Nat /\ \A i \in D : list[i] \in S
  BY LenProperties, ElementOfSeq
<1>2. Without(list, node) = f[D]
  BY <1>1 DEF Without, FoldLeft, MapThenFoldSet
<1>3. \A T \in SUBSET D : T # {} => Max(T) \in D
  BY <1>1, MaxOfSome
<1>4. \A kept \in H, o \in S : Keep(kept, o) \in H /\ G[kept][o] = Keep(kept, o)
  BY AppendProperties DEF Keeping
<1>5. << >> \in H /\ G \in [H -> [S -> H]]
  BY <1>4, EmptySeq DEF Keeping
<1>. HIDE DEF Keep, G
<1>6. f = Body(f)
  <2>1. PICK k \in [SUBSET D -> H] : FoldsBy(G, << >>, list, k)
    <3>. HIDE DEF H
    <3>. QED
      BY <1>5, FoldExists
  <2>2. \A T \in SUBSET D : k[T] = IF T = {} THEN << >> ELSE Keep(k[T \ {Max(T)}], list[Max(T)])
    BY <1>1, <1>3, <1>4, <2>1 DEF FoldsBy
  <2>3. k = Body(k)
    BY <2>1, <2>2
  <2>. QED
    BY <2>3
<1>. HIDE DEF f
<1>7. \A T \in SUBSET D : f[T] = IF T = {} THEN << >> ELSE Keep(f[T \ {Max(T)}], list[Max(T)])
  BY <1>6
<1>. HIDE DEF H
<1>8. FoldsIn(H, G, << >>, list, f)
  BY <1>1, <1>3, <1>4, <1>7 DEF FoldsIn
<1>9. \E h : BySteps(H, G, << >>, list, f[1 .. Len(list)], h)
  BY <1>5, <1>8, FoldBySteps DEF H
<1>. QED
  BY <1>2, <1>5, <1>9 DEF H, G

LEMMA WithoutType ==
  ASSUME NEW S, NEW list \in Seq(S), NEW node
  PROVE  Without(list, node) \in Seq(S)
<1>1. Len(list) \in 0 .. Len(list)
  BY LenProperties
<1>2. \E h \in [0 .. Len(list) -> Seq(S)] : h[Len(list)] = Without(list, node)
  BY WithoutInSteps DEF BySteps
<1>. QED
  BY <1>1, <1>2

LEMMA WithoutEmpty ==
  ASSUME NEW node
  PROVE  Without(<< >>, node) = << >>
<1>1. << >> \in Seq({})
  BY EmptySeq
<1>2. PICK h : BySteps(Seq({}), Keeping({}, node), << >>, << >>, Without(<< >>, node), h)
  BY <1>1, WithoutInSteps
<1>. QED
  BY <1>2, FoldEmpty

LEMMA WithoutAppend ==
  ASSUME NEW S, NEW list \in Seq(S), NEW o \in S, NEW node
  PROVE  Without(Append(list, o), node) =
           IF o = node THEN Without(list, node) ELSE Append(Without(list, node), o)
<1>1. Append(list, o) \in Seq(S) /\ Without(list, node) \in Seq(S)
  BY AppendFacts, WithoutType
<1>2. Without(Append(list, o), node) = Keeping(S, node)[Without(list, node)][o]
  <2>1. PICK h : BySteps(Seq(S), Keeping(S, node), << >>, list, Without(list, node), h)
    BY WithoutInSteps
  <2>2. PICK k : BySteps(Seq(S), Keeping(S, node), << >>, Append(list, o),
                         Without(Append(list, o), node), k)
    BY <1>1, WithoutInSteps
  <2>. QED
    BY <2>1, <2>2, FoldAppend
<1>. QED
  BY <1>1, <1>2 DEF Keeping

LEMMA WithoutRange ==
  ASSUME NEW S, NEW list \in Seq(S), NEW node
  PROVE  Range(Without(list, node)) = Range(list) \ {node}
<1>. DEFINE P == {s \in Seq(S) : Range(Without(s, node)) = Range(s) \ {node}}
<1>1. << >> \in P
  <2>1. << >> \in Seq(S)
    BY EmptySeq
  <2>2. Range(<< >>) = {}
    BY EmptyRange
  <2>. QED
    BY <2>1, <2>2, WithoutEmpty
<1>2. ASSUME NEW s \in P, NEW o \in S PROVE Append(s, o) \in P
  <2>1. Append(s, o) \in Seq(S) /\ Range(Append(s, o)) = Range(s) \cup {o}
    BY AppendFacts
  <2>2. Without(s, node) \in Seq(S)
    BY WithoutType
  <2>3. Range(Append(Without(s, node), o)) = Range(Without(s, node)) \cup {o}
    BY <2>2, AppendFacts
  <2>4. Without(Append(s, o), node) =
           IF o = node THEN Without(s, node) ELSE Append(Without(s, node), o)
    BY WithoutAppend
  <2>. QED
    BY <2>1, <2>3, <2>4
<1>3. list \in P
  <2>. HIDE DEF P
  <2>1. P \in SUBSET Seq(S)
    BY DEF P
  <2>. QED
    BY <1>1, <1>2, <2>1, AppendInduction
<1>. QED
  BY <1>3

\* An element that is not there.
LEMMA WithoutNone ==
  ASSUME NEW S, NEW list \in Seq(S), NEW node, node \notin Range(list)
  PROVE  Without(list, node) = list
<1>. DEFINE P == {s \in Seq(S) : node \notin Range(s) => Without(s, node) = s}
<1>1. << >> \in P
  BY EmptySeq, WithoutEmpty
<1>2. ASSUME NEW s \in P, NEW o \in S PROVE Append(s, o) \in P
  <2>1. Append(s, o) \in Seq(S) /\ Range(Append(s, o)) = Range(s) \cup {o}
    BY AppendFacts
  <2>2. Without(Append(s, o), node) =
           IF o = node THEN Without(s, node) ELSE Append(Without(s, node), o)
    BY WithoutAppend
  <2>. QED
    BY <2>1, <2>2
<1>3. list \in P
  <2>. HIDE DEF P
  <2>1. P \in SUBSET Seq(S)
    BY DEF P
  <2>. QED
    BY <1>1, <1>2, <2>1, AppendInduction
<1>. QED
  BY <1>3

LEMMA WithoutConcat ==
  ASSUME NEW S, NEW front \in Seq(S), NEW back \in Seq(S), NEW node
  PROVE  Without(front \o back, node) = Without(front, node) \o Without(back, node)
<1>. DEFINE P == {s \in Seq(S) : Without(front \o s, node) = Without(front, node) \o Without(s, node)}
<1>1. Without(front, node) \in Seq(S)
  BY WithoutType
<1>2. << >> \in P
  <2>1. front \o << >> = front /\ Without(front, node) \o << >> = Without(front, node)
    BY <1>1, ConcatEmptySeq
  <2>. QED
    BY <2>1, EmptySeq, WithoutEmpty
<1>3. ASSUME NEW s \in P, NEW o \in S PROVE Append(s, o) \in P
  <2>1. Append(s, o) \in Seq(S) /\ front \o s \in Seq(S) /\ Without(s, node) \in Seq(S)
    BY AppendFacts, ConcatProperties, WithoutType
  <2>2. front \o Append(s, o) = Append(front \o s, o)
    BY AppendToConcat
  <2>3. Without(front \o Append(s, o), node) =
           IF o = node THEN Without(front \o s, node) ELSE Append(Without(front \o s, node), o)
    <3>1. Without(Append(front \o s, o), node) =
            IF o = node THEN Without(front \o s, node) ELSE Append(Without(front \o s, node), o)
      <4>. DEFINE u == front \o s
      <4>1. u \in Seq(S)
        BY <2>1
      <4>. HIDE DEF u
      <4>2. Without(Append(u, o), node) =
              IF o = node THEN Without(u, node) ELSE Append(Without(u, node), o)
        BY <4>1, WithoutAppend
      <4>. QED
        BY <4>2 DEF u
    <3>. QED
      BY <2>2, <3>1
  <2>4. Without(Append(s, o), node) =
           IF o = node THEN Without(s, node) ELSE Append(Without(s, node), o)
    BY WithoutAppend
  <2>5. Without(front, node) \o Append(Without(s, node), o)
          = Append(Without(front, node) \o Without(s, node), o)
    BY <1>1, <2>1, AppendToConcat
  <2>. QED
    BY <2>1, <2>3, <2>4, <2>5
<1>4. back \in P
  <2>. HIDE DEF P
  <2>1. P \in SUBSET Seq(S)
    BY DEF P
  <2>. QED
    BY <1>2, <1>3, <2>1, AppendInduction
<1>. QED
  BY <1>4
LEMMA ConnectedType ==
  ASSUME NEW g \in Wirings, NEW n \in AllNodes, NEW o \in Followers
  PROVE  Connected(g, n, o) \in Wirings
<1>1. Append(g[n], o) \in Seq(Followers)
  BY AppendProperties DEF Wirings
<1>. QED
  BY <1>1 DEF Wirings, Connected

LEMMA DisconnectedType ==
  ASSUME NEW g \in Wirings, NEW n \in AllNodes, NEW o
  PROVE  Disconnected(g, n, o) \in Wirings
<1>1. Without(g[n], o) \in Seq(Followers)
  BY WithoutType DEF Wirings
<1>. QED
  BY <1>1 DEF Wirings, Disconnected

LEMMA SplicedType ==
  ASSUME NEW g \in Wirings, NEW n \in AllNodes, NEW o, NEW list \in Seq(Followers)
  PROVE  Spliced(g, n, o, list) \in Wirings
<1>1. PICK h \in Wirings : h = Disconnected(g, n, o)
  BY DisconnectedType
<1>2. h[n] \o list \in Seq(Followers)
  BY ConcatProperties DEF Wirings
<1>3. [h EXCEPT ![n] = @ \o list] \in Wirings
  BY <1>2 DEF Wirings
<1>. QED
  BY <1>1, <1>3 DEF Spliced

LEMMA InsertedType ==
  ASSUME NEW g \in Wirings, NEW n \in AllNodes, NEW m \in Followers, NEW o \in Followers
  PROVE  Inserted(g, n, m, o) \in Wirings
<1>1. Disconnected(g, n, o) \in Wirings
  BY DisconnectedType
<1>2. Connected(Disconnected(g, n, o), n, m) \in Wirings
  BY <1>1, ConnectedType
<1>. QED
  BY <1>2, ConnectedType, AllNodesFinite DEF Inserted

LEMMA CollectedType ==
  ASSUME NEW g \in Wirings
  PROVE  Collected(g) \in Wirings
BY EmptySeq DEF Wirings, Collected

\* What the filter does where it enters a node.
Cut(g, Rejected, h, e) ==
  IF e.child \in Rejected THEN Spliced(h, CutFrom(e), e.child, g[e.child]) ELSE h

LEMMA CutType ==
  ASSUME NEW g \in Wirings, NEW Rejected, NEW h \in Wirings, NEW e \in Connections
  PROVE  Cut(g, Rejected, h, e) \in Wirings
<1>1. e.parent \in AllNodes /\ e.child \in Followers
  BY DEF Connections
<1>2. g[e.child] \in Seq(Followers)
  BY <1>1, AllNodesFinite DEF Wirings
<1>3. Spliced(h, e.parent, e.child, g[e.child]) \in Wirings
  BY <1>1, <1>2, SplicedType
<1>. QED
  BY <1>3 DEF Cut, CutFrom

\* The graph after the first k nodes that the filter enters.
LEMMA FilteredInSteps ==
  ASSUME NEW g \in Wirings, NEW Rejected, NEW s \in Seq(Connections), s = Traversal(g).entered
  PROVE  \E h \in [0 .. Len(s) -> Wirings] :
           /\ h[0] = g
           /\ \A k \in 1 .. Len(s) : h[k] = Cut(g, Rejected, h[k - 1], s[k])
           /\ h[Len(s)] = Filtered(g, Rejected)
<1>. DEFINE D == 1 .. Len(s)
            G == [h \in Wirings |-> [e \in Connections |-> Cut(g, Rejected, h, e)]]
            Body(f) == [T \in SUBSET D |-> IF T = {} THEN g
                                           ELSE Cut(g, Rejected, f[T \ {Max(T)}], s[Max(T)])]
            f == CHOOSE f : f = Body(f)
<1>1. DOMAIN s = D /\ Len(s) \in Nat /\ \A i \in D : s[i] \in Connections
  BY LenProperties, ElementOfSeq
<1>2. Filtered(g, Rejected) = f[D]
  BY <1>1 DEF Filtered, FoldLeft, MapThenFoldSet, Cut
<1>3. \A T \in SUBSET D : T # {} => Max(T) \in D
  BY <1>1, MaxOfSome
<1>4. G \in [Wirings -> [Connections -> Wirings]]
  BY CutType
<1>5. f = Body(f)
  <2>1. PICK k \in [SUBSET D -> Wirings] : FoldsBy(G, g, s, k)
    <3>. HIDE DEF G
    <3>. QED
      BY <1>4, FoldExists
  <2>2. \A T \in SUBSET D :
          k[T] = IF T = {} THEN g ELSE Cut(g, Rejected, k[T \ {Max(T)}], s[Max(T)])
    BY <1>1, <1>3, <2>1 DEF FoldsBy
  <2>3. k = Body(k)
    BY <2>1, <2>2
  <2>. QED
    BY <2>3
<1>. HIDE DEF f
<1>6. \A T \in SUBSET D :
        f[T] = IF T = {} THEN g ELSE Cut(g, Rejected, f[T \ {Max(T)}], s[Max(T)])
  BY <1>5
<1>7. FoldsIn(Wirings, G, g, s, f)
  BY <1>1, <1>3, <1>6 DEF FoldsIn
<1>8. PICK h : BySteps(Wirings, G, g, s, f[1 .. Len(s)], h)
  <2>. HIDE DEF G, f
  <2>. QED
    BY <1>4, <1>7, FoldBySteps
<1>9. ASSUME NEW k \in 1 .. Len(s) PROVE h[k] = Cut(g, Rejected, h[k - 1], s[k])
  <2>1. h[k - 1] \in Wirings /\ s[k] \in Connections
    BY <1>1, <1>8 DEF BySteps
  <2>. QED
    BY <1>8, <2>1 DEF BySteps
<1>. QED
  BY <1>2, <1>8, <1>9 DEF BySteps

LEMMA FilteredType ==
  ASSUME NEW g \in Wirings, NEW Rejected, Traversal(g).entered \in Seq(Connections)
  PROVE  Filtered(g, Rejected) \in Wirings
<1>. DEFINE s == Traversal(g).entered
<1>1. Len(s) \in 0 .. Len(s)
  BY LenProperties
<1>2. \E h \in [0 .. Len(s) -> Wirings] : h[Len(s)] = Filtered(g, Rejected)
  <2>. HIDE DEF s
  <2>. QED
    BY FilteredInSteps DEF s
<1>. QED
  BY <1>1, <1>2

\* The graph after the first k insertions of a walk.
LEMMA InstrumentedInSteps ==
  ASSUME NEW g \in Wirings, NEW w \in Seq(Connections), w = Walked(g),
         Len(w) <= Len(MetricsNodes)
  PROVE  \E h \in [0 .. Len(w) -> Wirings] :
           /\ h[0] = g
           /\ \A k \in 1 .. Len(w) :
                h[k] = Inserted(h[k - 1], w[k].parent, MetricsNodes[k], w[k].child)
           /\ h[Len(w)] = Instrumented(g)
<1>. DEFINE s == [k \in DOMAIN w |-> k]
            D == 1 .. Len(w)
            Ins(h, k) == Inserted(h, w[k].parent, MetricsNodes[k], w[k].child)
            G == [h \in Wirings |-> [k \in D |-> Ins(h, k)]]
            Body(f) == [T \in SUBSET D |-> IF T = {} THEN g
                                           ELSE Ins(f[T \ {Max(T)}], s[Max(T)])]
            f == CHOOSE f : f = Body(f)
<1>1. DOMAIN w = D /\ Len(w) \in Nat /\ \A i \in D : w[i] \in Connections
  BY LenProperties, ElementOfSeq
<1>2. s \in Seq(D) /\ Len(s) = Len(w) /\ DOMAIN s = D /\ \A k \in D : s[k] = k
  <2>1. \A i \in 1 .. Len(w) : i \in D
    OBVIOUS
  <2>2. [k \in 1 .. Len(w) |-> k] \in Seq(D)
    BY <1>1, <2>1, IsASeq
  <2>. QED
    BY <1>1, <2>2, LenProperties
<1>3. Instrumented(g) = f[D]
  BY <1>1, <1>2 DEF Instrumented, FoldLeft, MapThenFoldSet
<1>4. \A T \in SUBSET D : T # {} => Max(T) \in D
  BY <1>1, MaxOfSome
<1>5. ASSUME NEW h \in Wirings, NEW k \in D PROVE Ins(h, k) \in Wirings
  <2>1. w[k].parent \in AllNodes /\ w[k].child \in Followers
    BY <1>1 DEF Connections
  <2>2. MetricsNodes[k] \in Followers
    <3>1. Len(MetricsNodes) \in Nat /\ DOMAIN MetricsNodes = 1 .. Len(MetricsNodes)
      BY GraphAssumption, LenProperties
    <3>2. k \in DOMAIN MetricsNodes
      BY <1>1, <3>1
    <3>. QED
      BY <3>2, AllNodesFinite DEF Range
  <2>. QED
    BY <2>1, <2>2, InsertedType
<1>. HIDE DEF Ins
<1>6. G \in [Wirings -> [D -> Wirings]]
  BY <1>5
<1>7. f = Body(f)
  <2>1. PICK k \in [SUBSET D -> Wirings] : FoldsBy(G, g, s, k)
    <3>. HIDE DEF G, s
    <3>. QED
      BY <1>2, <1>6, FoldExists
  <2>2. \A T \in SUBSET D : k[T] = IF T = {} THEN g ELSE Ins(k[T \ {Max(T)}], s[Max(T)])
    BY <1>1, <1>2, <1>4, <2>1 DEF FoldsBy
  <2>3. k = Body(k)
    BY <2>1, <2>2
  <2>. QED
    BY <2>3
<1>. HIDE DEF f
<1>8. \A T \in SUBSET D : f[T] = IF T = {} THEN g ELSE Ins(f[T \ {Max(T)}], s[Max(T)])
  BY <1>7
<1>9. FoldsIn(Wirings, G, g, s, f)
  BY <1>1, <1>2, <1>4, <1>8 DEF FoldsIn
<1>10. PICK h : BySteps(Wirings, G, g, s, f[1 .. Len(s)], h)
  <2>. HIDE DEF G, s, D
  <2>. QED
    BY <1>2, <1>6, <1>9, FoldBySteps
<1>11. ASSUME NEW k \in 1 .. Len(w)
       PROVE  h[k] = Inserted(h[k - 1], w[k].parent, MetricsNodes[k], w[k].child)
  <2>1. h[k - 1] \in Wirings
    BY <1>1, <1>2, <1>10 DEF BySteps
  <2>2. h[k] = Ins(h[k - 1], k)
    BY <1>2, <1>10, <2>1 DEF BySteps
  <2>. QED
    BY <2>2 DEF Ins
<1>. HIDE DEF s
<1>. QED
  BY <1>2, <1>3, <1>10, <1>11 DEF BySteps

LEMMA InstrumentedType ==
  ASSUME NEW g \in Wirings, Walked(g) \in Seq(Connections), Len(Walked(g)) <= Len(MetricsNodes)
  PROVE  Instrumented(g) \in Wirings
<1>. DEFINE w == Walked(g)
<1>1. Len(w) \in 0 .. Len(w)
  BY LenProperties
<1>2. \E h \in [0 .. Len(w) -> Wirings] : h[Len(w)] = Instrumented(g)
  <2>. HIDE DEF w
  <2>. QED
    BY InstrumentedInSteps DEF w
<1>. QED
  BY <1>1, <1>2
-----------------------------------------------------------------------------
(* Below.                                                                  *)

Further(g, near) == near \cup UNION {Range(g[m]) : m \in near}

ClosedUnder(g, S) == \A m \in S : Range(g[m]) \subseteq S

\* The sets by which Below is computed: near[k] is what is at most k
\* connections further down than the observers of n.
LEMMA BelowInSteps ==
  ASSUME NEW g \in Wirings, NEW n \in AllNodes
  PROVE  \E near \in [0 .. Cardinality(AllNodes) -> SUBSET Followers] :
           /\ near[0] = Range(g[n])
           /\ \A k \in 1 .. Cardinality(AllNodes) : near[k] = Further(g, near[k - 1])
           /\ Below(g, n) = near[Cardinality(AllNodes)]
<1>. DEFINE N == Cardinality(AllNodes)
            s == [k \in 1 .. N |-> k]
            D == 1 .. N
            H == SUBSET Followers
            G == [near \in H |-> [k \in D |-> Further(g, near)]]
            Body(h) == [T \in SUBSET D |-> IF T = {} THEN Range(g[n])
                                           ELSE Further(g, h[T \ {Max(T)}])]
            h == CHOOSE h : h = Body(h)
<1>1. N \in Nat
  BY AllNodesFinite, FS_CardinalityType
<1>2. s \in Seq(D) /\ Len(s) = N /\ DOMAIN s = D
  <2>1. \A i \in 1 .. N : i \in D
    OBVIOUS
  <2>2. [k \in 1 .. N |-> k] \in Seq(D)
    BY <1>1, <2>1, IsASeq
  <2>. QED
    BY <1>1, <2>2, LenProperties
<1>3. Below(g, n) = h[D]
  BY <1>2 DEF Below, FoldLeft, MapThenFoldSet, Further
<1>4. \A T \in SUBSET D : T # {} => Max(T) \in D
  BY <1>1, MaxOfSome
<1>5. \A m \in AllNodes : Range(g[m]) \in H
  BY RangeOfSeq DEF Wirings
<1>6. \A near \in H : Further(g, near) \in H
  BY <1>5, AllNodesFinite DEF Further
<1>7. G \in [H -> [D -> H]]
  BY <1>6
<1>8. h = Body(h)
  <2>1. PICK f \in [SUBSET D -> H] : FoldsBy(G, Range(g[n]), s, f)
    <3>1. Range(g[n]) \in H
      BY <1>5
    <3>. HIDE DEF G, H, s
    <3>. QED
      BY <1>2, <1>7, <3>1, FoldExists
  <2>2. \A T \in SUBSET D : f[T] = IF T = {} THEN Range(g[n]) ELSE Further(g, f[T \ {Max(T)}])
    BY <1>1, <1>2, <1>4, <2>1 DEF FoldsBy
  <2>3. f = Body(f)
    BY <2>1, <2>2
  <2>. QED
    BY <2>3
<1>. HIDE DEF h
<1>9. \A T \in SUBSET D : h[T] = IF T = {} THEN Range(g[n]) ELSE Further(g, h[T \ {Max(T)}])
  BY <1>8
<1>10. Range(g[n]) \in H
  BY <1>5
<1>11. FoldsIn(H, G, Range(g[n]), s, h)
  BY <1>1, <1>2, <1>4, <1>9 DEF FoldsIn
<1>12. PICK near : BySteps(H, G, Range(g[n]), s, h[1 .. Len(s)], near)
  <2>. HIDE DEF G, H, s, D
  <2>. QED
    BY <1>2, <1>7, <1>10, <1>11, FoldBySteps
<1>13. ASSUME NEW k \in 1 .. N PROVE near[k] = Further(g, near[k - 1])
  <2>1. near[k - 1] \in H /\ s[k] \in D
    BY <1>1, <1>2, <1>12 DEF BySteps
  <2>. QED
    BY <1>2, <1>12, <2>1 DEF BySteps
<1>. QED
  BY <1>2, <1>3, <1>12, <1>13 DEF BySteps

\* Below is the least set with the observers of n and of its own members.
LEMMA BelowIsLeast ==
  ASSUME NEW g \in Wirings, NEW n \in AllNodes
  PROVE  /\ Below(g, n) \subseteq Followers
         /\ Range(g[n]) \subseteq Below(g, n)
         /\ ClosedUnder(g, Below(g, n))
         /\ \A S : Range(g[n]) \subseteq S /\ ClosedUnder(g, S) => Below(g, n) \subseteq S
<1>. DEFINE N == Cardinality(AllNodes)
<1>1. N \in Nat
  BY AllNodesFinite, FS_CardinalityType
<1>2. PICK near \in [0 .. N -> SUBSET Followers] :
           /\ near[0] = Range(g[n])
           /\ \A k \in 1 .. N : near[k] = Further(g, near[k - 1])
           /\ Below(g, n) = near[N]
  BY BelowInSteps
<1>. HIDE DEF N
<1>3. \A k \in 0 .. N : Range(g[n]) \subseteq near[k]
  <2>. DEFINE Bad == {k \in 0 .. N : ~ (Range(g[n]) \subseteq near[k])}
  <2>1. SUFFICES ASSUME Bad # {} PROVE FALSE
    OBVIOUS
  <2>2. PICK k \in Bad : \A j \in Bad : k <= j
    <3>1. Bad \subseteq Nat
      BY <1>1
    <3>. HIDE DEF Bad
    <3>. QED
      BY <2>1, <3>1, LeastNumber
  <2>3. k \in 1 .. N /\ k - 1 \in 0 .. N /\ k - 1 \notin Bad
    BY <1>1, <1>2, <2>2
  <2>. QED
    BY <1>2, <2>2, <2>3 DEF Further
<1>4. ASSUME NEW S, Range(g[n]) \subseteq S, ClosedUnder(g, S), NEW i \in 0 .. N
      PROVE  near[i] \subseteq S
  <2>. DEFINE Bad == {k \in 0 .. N : ~ (near[k] \subseteq S)}
  <2>1. SUFFICES ASSUME Bad # {} PROVE FALSE
    OBVIOUS
  <2>2. PICK k \in Bad : \A j \in Bad : k <= j
    <3>1. Bad \subseteq Nat
      BY <1>1
    <3>. HIDE DEF Bad
    <3>. QED
      BY <2>1, <3>1, LeastNumber
  <2>3. k \in 1 .. N /\ k - 1 \in 0 .. N /\ k - 1 \notin Bad
    BY <1>1, <1>2, <1>4, <2>2
  <2>4. near[k - 1] \subseteq S /\ near[k] = Further(g, near[k - 1])
    BY <1>2, <2>3
  <2>. QED
    BY <1>4, <2>2, <2>4 DEF Further, ClosedUnder
<1>5. \A k \in 0 .. N : /\ near[k] \subseteq Followers
                        /\ IsFiniteSet(near[k])
                        /\ Cardinality(near[k]) \in Nat
  BY <1>2, AllNodesFinite, FS_Subset, FS_CardinalityType
<1>6. \A k \in 0 .. N : Cardinality(near[k]) >= k \/ ClosedUnder(g, near[k])
  <2>. DEFINE Bad == {k \in 0 .. N : ~ (Cardinality(near[k]) >= k \/ ClosedUnder(g, near[k]))}
  <2>1. SUFFICES ASSUME Bad # {} PROVE FALSE
    OBVIOUS
  <2>2. PICK k \in Bad : \A j \in Bad : k <= j
    <3>1. Bad \subseteq Nat
      BY <1>1
    <3>. HIDE DEF Bad
    <3>. QED
      BY <2>1, <3>1, LeastNumber
  <2>3. k \in 1 .. N /\ k - 1 \in 0 .. N /\ k - 1 \notin Bad
    BY <1>1, <1>5, <2>2
  <2>. DEFINE c == Cardinality(near[k])
              b == Cardinality(near[k - 1])
  <2>4. near[k] = Further(g, near[k - 1]) /\ near[k - 1] \subseteq near[k]
    BY <1>2, <2>3 DEF Further
  <2>5. near[k] # near[k - 1]
    <3>1. CASE ClosedUnder(g, near[k - 1])
      <4>1. near[k] = near[k - 1]
        BY <2>4, <3>1 DEF ClosedUnder, Further
      <4>. QED
        BY <2>2, <3>1, <4>1
    <3>2. CASE ~ ClosedUnder(g, near[k - 1])
      BY <2>4, <3>2 DEF ClosedUnder, Further
    <3>. QED
      BY <3>1, <3>2
  <2>6. c \in Nat /\ b \in Nat /\ b <= c /\ b # c
    <3>1. IsFiniteSet(near[k]) /\ c \in Nat /\ b \in Nat
      BY <1>5, <2>3
    <3>2. near[k - 1] \in SUBSET near[k]
      BY <2>4
    <3>3. b <= c /\ (c = b => near[k] = near[k - 1])
      BY <3>1, <3>2, FS_Subset
    <3>. QED
      BY <2>5, <3>1, <3>3
  <2>7. b >= k - 1 \/ ClosedUnder(g, near[k - 1])
    BY <2>3
  <2>8. CASE ClosedUnder(g, near[k - 1])
    BY <2>4, <2>5, <2>8 DEF ClosedUnder, Further
  <2>9. CASE b >= k - 1
    <3>1. c >= k
      <4>. HIDE DEF c, b
      <4>. QED
        BY <1>1, <2>3, <2>6, <2>9
    <3>. QED
      BY <2>2, <3>1
  <2>. QED
    BY <2>7, <2>8, <2>9
<1>7. ClosedUnder(g, near[N])
  <2>1. Cardinality(Followers) = N - 1
    <3>1. Followers = AllNodes \ {Root} /\ Root \in AllNodes /\ IsFiniteSet(AllNodes)
      BY AllNodesFinite DEF Followers
    <3>. QED
      BY <3>1, FS_RemoveElement DEF N
  <2>2. near[N] \in SUBSET Followers /\ N \in 0 .. N
    BY <1>1, <1>2
  <2>3. Cardinality(near[N]) <= N - 1 /\ Cardinality(near[N]) \in Nat
    BY <1>5, <2>1, <2>2, FS_Subset, AllNodesFinite
  <2>4. ~ (Cardinality(near[N]) >= N)
    <3>. DEFINE c == Cardinality(near[N])
    <3>. HIDE DEF c
    <3>1. c <= N - 1 /\ c \in Nat
      BY <2>3 DEF c
    <3>2. ~ (c >= N)
      BY <1>1, <3>1
    <3>. QED
      BY <3>2 DEF c
  <2>. QED
    BY <1>6, <2>2, <2>4
<1>. QED
  BY <1>1, <1>2, <1>3, <1>4, <1>5, <1>7

-----------------------------------------------------------------------------
(* The trail of a walk.                                                    *)

LEMMA ConnectionType ==
  ASSUME NEW p \in AllNodes, NEW c \in Followers
  PROVE  Connection(p, c) \in Connections
BY DEF Connection, Connections

LEMMA UnbegunType == Unbegun \in Trails
BY EmptySeq DEF Unbegun, Trails

LEMMA EnterTrail ==
  ASSUME NEW t \in Trails, NEW p \in AllNodes, NEW c \in Followers
  PROVE  /\ Enter(t, p, c) \in Trails
         /\ Enter(t, p, c).visited = t.visited \cup {c}
         /\ Enter(t, p, c).entered = Append(t.entered, Connection(p, c))
         /\ Enter(t, p, c).left = t.left
         /\ Enter(t, p, c).down = t.down
         /\ Enter(t, p, c).up = t.up
<1>1. Append(t.entered, Connection(p, c)) \in Seq(Connections)
  BY ConnectionType, AppendProperties DEF Trails
<1>. QED
  BY <1>1 DEF Enter, Trails

LEMMA LeaveTrail ==
  ASSUME NEW t \in Trails, NEW c \in Followers
  PROVE  /\ Leave(t, c) \in Trails
         /\ Leave(t, c).visited = t.visited
         /\ Leave(t, c).entered = t.entered
         /\ Leave(t, c).left = Append(t.left, c)
         /\ Leave(t, c).down = t.down
         /\ Leave(t, c).up = t.up
<1>1. Append(t.left, c) \in Seq(Followers)
  BY AppendProperties DEF Trails
<1>. QED
  BY <1>1 DEF Leave, Trails

LEMMA GoDownTrail ==
  ASSUME NEW t \in Trails, NEW p \in AllNodes, NEW c \in Followers
  PROVE  /\ GoDown(t, p, c) \in Trails
         /\ GoDown(t, p, c).visited = t.visited
         /\ GoDown(t, p, c).entered = t.entered
         /\ GoDown(t, p, c).left = t.left
         /\ GoDown(t, p, c).down = IF p = Root THEN t.down ELSE Append(t.down, Connection(p, c))
         /\ GoDown(t, p, c).up = t.up
<1>1. Append(t.down, Connection(p, c)) \in Seq(Connections)
  BY ConnectionType, AppendProperties DEF Trails
<1>. QED
  BY <1>1 DEF GoDown, Trails

LEMMA ComeUpTrail ==
  ASSUME NEW t \in Trails, NEW p \in AllNodes, NEW c \in Followers
  PROVE  /\ ComeUp(t, p, c) \in Trails
         /\ ComeUp(t, p, c).visited = t.visited
         /\ ComeUp(t, p, c).entered = t.entered
         /\ ComeUp(t, p, c).left = t.left
         /\ ComeUp(t, p, c).down = t.down
         /\ ComeUp(t, p, c).up = IF p = Root THEN t.up ELSE Append(t.up, Connection(p, c))
<1>1. Append(t.up, Connection(p, c)) \in Seq(Connections)
  BY ConnectionType, AppendProperties DEF Trails
<1>. QED
  BY <1>1 DEF ComeUp, Trails

-----------------------------------------------------------------------------
(* The steps of a loop: the child it looks at, the loop over that child's  *)
(* observers, and the rest of the loop after that.                         *)

Over(g, l) == l.next > Len(g[l.node])

Child(g, l) == g[l.node][l.next]

Down(g, l) == GoDown(l.trail, l.node, Child(g, l))

Inner(g, l) == Loop(Child(g, l), 1, Enter(Down(g, l), l.node, Child(g, l)))

\* The trail when the loop is back from the child: t is that of the loop inside.
Back(g, l, t) ==
  IF ~Unseen(l.node, Child(g, l), Down(g, l).visited) THEN Down(g, l)
  ELSE Leave(t, Child(g, l))

Rest(g, l, t) == Loop(l.node, l.next + 1, ComeUp(t, l.node, Child(g, l)))

\* What the recursive function of Traversal is equal to.
WalkBody(g, f) ==
  [l \in Loops |-> IF Over(g, l) THEN l.trail
                   ELSE f[Rest(g, l, Back(g, l, f[Inner(g, l)]))]]

LEMMA TraversalByBody ==
  ASSUME NEW g
  PROVE  Traversal(g) = (CHOOSE f : f = WalkBody(g, f))[Loop(Root, 1, Unbegun)]
BY DEF Traversal, WalkBody, Over, Rest, Back, Inner, Down, Child

LEMMA LoopType ==
  ASSUME NEW n \in AllNodes, NEW k \in Nat \ {0}, NEW t \in Trails
  PROVE  /\ Loop(n, k, t) \in Loops
         /\ Loop(n, k, t).node = n
         /\ Loop(n, k, t).next = k
         /\ Loop(n, k, t).trail = t
BY DEF Loop, Loops

LEMMA LoopFields ==
  ASSUME NEW l \in Loops
  PROVE  l.node \in AllNodes /\ l.next \in Nat \ {0} /\ l.trail \in Trails
BY DEF Loops

LEMMA ListFacts ==
  ASSUME NEW g \in Wirings, NEW n \in AllNodes
  PROVE  /\ g[n] \in Seq(Followers)
         /\ Len(g[n]) \in Nat
         /\ DOMAIN g[n] = 1 .. Len(g[n])
         /\ \A i \in 1 .. Len(g[n]) : g[n][i] \in Followers
         /\ Range(g[n]) = {g[n][i] : i \in 1 .. Len(g[n])}
<1>1. g[n] \in Seq(Followers)
  BY DEF Wirings
<1>. QED
  BY <1>1, LenProperties, ElementOfSeq, RangeEquality

LEMMA StepTypes ==
  ASSUME NEW g \in Wirings, NEW l \in Loops, ~Over(g, l)
  PROVE  /\ Child(g, l) \in Followers
         /\ l.next \in 1 .. Len(g[l.node])
         /\ Down(g, l) \in Trails
         /\ Down(g, l).visited = l.trail.visited
         /\ Inner(g, l) \in Loops
         /\ Inner(g, l).node = Child(g, l)
         /\ Inner(g, l).next = 1
         /\ Inner(g, l).trail = Enter(Down(g, l), l.node, Child(g, l))
         /\ \A t \in Trails :
              /\ Back(g, l, t) \in Trails
              /\ Rest(g, l, t) \in Loops
              /\ Rest(g, l, t).node = l.node
              /\ Rest(g, l, t).next = l.next + 1
              /\ Rest(g, l, t).trail = ComeUp(t, l.node, Child(g, l))
<1>1. l.node \in AllNodes /\ l.next \in Nat \ {0} /\ l.trail \in Trails
  BY LoopFields
<1>2. l.next \in 1 .. Len(g[l.node]) /\ Child(g, l) \in Followers /\ Child(g, l) \in AllNodes
  BY <1>1, ListFacts, AllNodesFinite DEF Over, Child
<1>3. Down(g, l) \in Trails /\ Down(g, l).visited = l.trail.visited
  BY <1>1, <1>2, GoDownTrail DEF Down
<1>4. Enter(Down(g, l), l.node, Child(g, l)) \in Trails
  BY <1>1, <1>2, <1>3, EnterTrail
<1>5. \A t \in Trails : Back(g, l, t) \in Trails
  BY <1>2, <1>3, LeaveTrail DEF Back
<1>6. \A t \in Trails : ComeUp(t, l.node, Child(g, l)) \in Trails
  BY <1>1, <1>2, ComeUpTrail
<1>7. l.next + 1 \in Nat \ {0}
  BY <1>1
<1>8. \A t \in Trails :
              /\ Rest(g, l, t) \in Loops
              /\ Rest(g, l, t).node = l.node
              /\ Rest(g, l, t).next = l.next + 1
              /\ Rest(g, l, t).trail = ComeUp(t, l.node, Child(g, l))
  BY <1>1, <1>6, <1>7, LoopType DEF Rest
<1>9. /\ Inner(g, l) \in Loops
      /\ Inner(g, l).node = Child(g, l)
      /\ Inner(g, l).next = 1
      /\ Inner(g, l).trail = Enter(Down(g, l), l.node, Child(g, l))
  BY <1>2, <1>4, LoopType DEF Inner
<1>. QED
  BY <1>2, <1>3, <1>5, <1>8, <1>9

-----------------------------------------------------------------------------
(* The recursion ends: each loop has less work than the one it is part of. *)

Unvisited(t) == Cardinality(Followers \ t.visited)

Remaining(g, l) == IF Over(g, l) THEN 0 ELSE Len(g[l.node]) + 1 - l.next

\* b is more than any node's number of observers.
Bound(g, b) == b \in Nat /\ \A n \in AllNodes : Len(g[n]) < b

Work(g, b, l) == Unvisited(l.trail) * b + Remaining(g, l)

LEMMA BoundExists ==
  ASSUME NEW g \in Wirings
  PROVE  \E b : Bound(g, b)
<1>. DEFINE f == [n \in AllNodes |-> Len(g[n])]
<1>1. f \in [AllNodes -> Nat]
  BY ListFacts
<1>2. PICK b \in Nat : \A n \in AllNodes : f[n] <= b
  <2>. HIDE DEF f
  <2>. QED
    BY <1>1, Bounded, AllNodesFinite
<1>3. \A n \in AllNodes : Len(g[n]) < b + 1
  <2>1. \A n \in AllNodes : Len(g[n]) <= b /\ Len(g[n]) \in Nat
    BY <1>2, ListFacts
  <2>. QED
    BY <1>2, <2>1
<1>4. b + 1 \in Nat
  BY <1>2
<1>. QED
  BY <1>3, <1>4 DEF Bound

LEMMA UnvisitedType ==
  ASSUME NEW t
  PROVE  IsFiniteSet(Followers \ t.visited) /\ Unvisited(t) \in Nat
BY AllNodesFinite, FS_Difference, FS_CardinalityType DEF Unvisited

LEMMA WorkType ==
  ASSUME NEW g \in Wirings, NEW b, Bound(g, b), NEW l \in Loops
  PROVE  /\ Remaining(g, l) \in Nat
         /\ Remaining(g, l) <= b
         /\ Work(g, b, l) \in Nat
<1>1. b \in Nat /\ l.node \in AllNodes /\ l.next \in Nat \ {0}
  BY LoopFields DEF Bound
<1>2. Len(g[l.node]) \in Nat /\ Len(g[l.node]) < b
  BY <1>1, ListFacts DEF Bound
<1>3. Remaining(g, l) \in Nat /\ Remaining(g, l) <= b
  BY <1>1, <1>2 DEF Remaining, Over
<1>4. \A u \in Nat, r \in Nat : u * b + r \in Nat
  BY <1>1
<1>. QED
  BY <1>3, <1>4, UnvisitedType DEF Work

\* A product grows with its first factor.
LEMMA Products ==
  ASSUME NEW u \in Nat, NEW v \in Nat, NEW b \in Nat
  PROVE  /\ u * b \in Nat /\ v * b \in Nat
         /\ u <= v => u * b <= v * b
         /\ u = v + 1 => u * b = v * b + b
<1>1. u * b \in Nat /\ v * b \in Nat
  OBVIOUS
<1>2. ASSUME u <= v PROVE u * b <= v * b
  <2>1. PICK w \in Nat : v = u + w
    BY <1>2
  <2>2. v * b = u * b + w * b /\ w * b \in Nat
    BY <2>1
  <2>. QED
    BY <1>1, <2>2
<1>3. ASSUME u = v + 1 PROVE u * b = v * b + b
  BY <1>3
<1>. QED
  BY <1>1, <1>2, <1>3

LEMMA InnerIsLess ==
  ASSUME NEW g \in Wirings, NEW b, Bound(g, b), NEW l \in Loops, ~Over(g, l),
         Child(g, l) \notin l.trail.visited
  PROVE  Work(g, b, Inner(g, l)) < Work(g, b, l)
<1>. DEFINE u == Unvisited(l.trail)
            v == Unvisited(Inner(g, l).trail)
            c == Child(g, l)
            i == Inner(g, l)
            R == Remaining(g, l)
            Q == Remaining(g, i)
<1>1. /\ c \in Followers /\ i \in Loops
      /\ i.trail.visited = l.trail.visited \cup {c}
      /\ l.next \in 1 .. Len(g[l.node]) /\ Len(g[l.node]) \in Nat
  <2>1. l.node \in AllNodes
    BY LoopFields
  <2>2. Enter(Down(g, l), l.node, c).visited = l.trail.visited \cup {c}
    BY <2>1, StepTypes, EnterTrail
  <2>. QED
    BY <2>1, <2>2, StepTypes, ListFacts
<1>2. u = v + 1
  <2>1. Followers \ i.trail.visited = (Followers \ l.trail.visited) \ {c}
    BY <1>1
  <2>2. c \in Followers \ l.trail.visited /\ IsFiniteSet(Followers \ l.trail.visited)
    BY <1>1, UnvisitedType
  <2>3. Cardinality((Followers \ l.trail.visited) \ {c}) = Cardinality(Followers \ l.trail.visited) - 1
    BY <2>2, FS_RemoveElement
  <2>4. v = u - 1
    BY <2>1, <2>3 DEF Unvisited
  <2>5. u \in Nat /\ v \in Nat
    BY UnvisitedType
  <2>. HIDE DEF u, v
  <2>. QED
    BY <2>4, <2>5
<1>3. R >= 1 /\ R \in Nat
  BY <1>1 DEF Remaining, Over
<1>4. Q <= b /\ Q \in Nat
  BY <1>1, WorkType
<1>5. b \in Nat
  BY DEF Bound
<1>6. u \in Nat /\ v \in Nat
  BY UnvisitedType
<1>7. Work(g, b, l) = u * b + R /\ Work(g, b, i) = v * b + Q
  BY DEF Work
<1>. HIDE DEF u, v, i, R, Q
<1>8. u * b = v * b + b /\ u * b \in Nat /\ v * b \in Nat
  BY <1>2, <1>5, <1>6, Products
<1>9. v * b + Q < u * b + R
  BY <1>3, <1>4, <1>5, <1>8
<1>. QED
  BY <1>7, <1>9 DEF i

LEMMA RestIsLess ==
  ASSUME NEW g \in Wirings, NEW b, Bound(g, b), NEW l \in Loops, ~Over(g, l),
         NEW t \in Trails, l.trail.visited \subseteq t.visited
  PROVE  Work(g, b, Rest(g, l, t)) < Work(g, b, l)
<1>. DEFINE u == Unvisited(l.trail)
            i == Rest(g, l, t)
            v == Unvisited(i.trail)
            c == Child(g, l)
            R == Remaining(g, l)
            Q == Remaining(g, i)
<1>1. /\ c \in Followers /\ i \in Loops
      /\ i.node = l.node /\ i.next = l.next + 1
      /\ i.trail.visited = t.visited
      /\ l.next \in 1 .. Len(g[l.node]) /\ Len(g[l.node]) \in Nat
  <2>1. l.node \in AllNodes
    BY LoopFields
  <2>2. ComeUp(t, l.node, c).visited = t.visited
    BY <2>1, StepTypes, ComeUpTrail
  <2>. QED
    BY <2>1, <2>2, StepTypes, ListFacts
<1>2. v <= u
  <2>1. Followers \ i.trail.visited \in SUBSET (Followers \ l.trail.visited)
    BY <1>1
  <2>2. IsFiniteSet(Followers \ l.trail.visited)
    BY UnvisitedType
  <2>3. Cardinality(Followers \ i.trail.visited) <= Cardinality(Followers \ l.trail.visited)
    <3>. DEFINE A == Followers \ i.trail.visited
                C == Followers \ l.trail.visited
    <3>. HIDE DEF A, C
    <3>1. A \in SUBSET C /\ IsFiniteSet(C)
      BY <2>1, <2>2 DEF A, C
    <3>2. Cardinality(A) <= Cardinality(C)
      BY <3>1, FS_Subset
    <3>. QED
      BY <3>2 DEF A, C
  <2>4. v = Cardinality(Followers \ i.trail.visited) /\ u = Cardinality(Followers \ l.trail.visited)
    BY DEF Unvisited
  <2>. HIDE DEF u, v
  <2>. QED
    BY <2>3, <2>4
<1>3. R \in Nat /\ Q \in Nat /\ Q < R
  BY <1>1 DEF Remaining, Over
<1>5. b \in Nat
  BY DEF Bound
<1>6. u \in Nat /\ v \in Nat
  BY UnvisitedType
<1>7. Work(g, b, l) = u * b + R /\ Work(g, b, i) = v * b + Q
  BY DEF Work
<1>. HIDE DEF u, v, i, R, Q
<1>8. v * b <= u * b /\ u * b \in Nat /\ v * b \in Nat
  BY <1>2, <1>5, <1>6, Products
<1>9. v * b + Q < u * b + R
  BY <1>3, <1>8
<1>. QED
  BY <1>7, <1>9 DEF i

-----------------------------------------------------------------------------
(* So the recursive function exists.                                       *)

Value(g, h, l) == IF Over(g, l) THEN l.trail ELSE h[Rest(g, l, Back(g, l, h[Inner(g, l)]))]

\* What a loop comes to depends on loops with less work only, and no loop
\* takes a node out of the set visited.
LEMMA ValueIsLocal ==
  ASSUME NEW g \in Wirings, NEW b, Bound(g, b), NEW l \in Loops,
         NEW h \in [Loops -> Trails], NEW k,
         \A i \in Loops : Work(g, b, i) < Work(g, b, l) =>
            h[i] = k[i] /\ i.trail.visited \subseteq h[i].visited
  PROVE  /\ Value(g, h, l) = Value(g, k, l)
         /\ Value(g, h, l) \in Trails
         /\ l.trail.visited \subseteq Value(g, h, l).visited
<1>1. CASE Over(g, l)
  BY <1>1, LoopFields DEF Value
<1>2. CASE ~Over(g, l)
  <2>. DEFINE c == Child(g, l)
              i == Inner(g, l)
              t == Back(g, l, h[i])
  <2>1. i \in Loops /\ h[i] \in Trails /\ c \in Followers /\ l.node \in AllNodes
    BY <1>2, StepTypes, LoopFields
  <2>2. /\ t \in Trails
        /\ l.trail.visited \subseteq t.visited
        /\ t = Back(g, l, k[i])
    <3>1. CASE c \in l.trail.visited
      <4>1. t = Down(g, l) /\ Back(g, l, k[i]) = Down(g, l)
        BY <1>2, <3>1, StepTypes DEF Back, Unseen
      <4>. QED
        BY <1>2, <4>1, StepTypes
    <3>2. CASE c \notin l.trail.visited
      <4>1. h[i] = k[i] /\ i.trail.visited \subseteq h[i].visited
        BY <1>2, <2>1, <3>2, InnerIsLess
      <4>2. i.trail.visited = l.trail.visited \cup {c}
        BY <1>2, <2>1, StepTypes, EnterTrail
      <4>3. t = Leave(h[i], c)
        BY <1>2, <3>2, StepTypes DEF Back, Unseen
      <4>4. t \in Trails /\ t.visited = h[i].visited
        BY <2>1, <4>3, LeaveTrail
      <4>. QED
        BY <4>1, <4>2, <4>4
    <3>. QED
      BY <3>1, <3>2
  <2>. DEFINE r == Rest(g, l, t)
  <2>. HIDE DEF t
  <2>3. r \in Loops /\ Work(g, b, r) < Work(g, b, l) /\ r.trail.visited = t.visited
    <3>1. r \in Loops /\ r.trail = ComeUp(t, l.node, c)
      BY <1>2, <2>2, StepTypes
    <3>2. Work(g, b, r) < Work(g, b, l)
      BY <1>2, <2>2, RestIsLess
    <3>3. r.trail.visited = t.visited
      BY <2>1, <2>2, <3>1, ComeUpTrail
    <3>. QED
      BY <3>1, <3>2, <3>3
  <2>4. h[r] = k[r] /\ t.visited \subseteq h[r].visited /\ h[r] \in Trails
    BY <2>3
  <2>5. Value(g, h, l) = h[r]
    BY <1>2 DEF Value, t
  <2>6. Value(g, k, l) = k[r]
    <3>1. Value(g, k, l) = k[Rest(g, l, Back(g, l, k[i]))]
      BY <1>2 DEF Value
    <3>. QED
      BY <2>2, <3>1
  <2>. QED
    BY <2>2, <2>4, <2>5, <2>6
<1>. QED
  BY <1>1, <1>2

\* h is the trails of all loops with less work than m.
Solves(g, b, m, h) ==
  /\ h \in [Loops -> Trails]
  /\ \A l \in Loops : Work(g, b, l) < m =>
       h[l] = Value(g, h, l) /\ l.trail.visited \subseteq h[l].visited

LEMMA SolutionFor ==
  ASSUME NEW g \in Wirings, NEW b, Bound(g, b), NEW m \in Nat
  PROVE  \E h : Solves(g, b, m, h)
<1>. DEFINE Bad == {k \in Nat : ~ \E h : Solves(g, b, k, h)}
<1>1. SUFFICES ASSUME Bad # {} PROVE FALSE
  OBVIOUS
<1>2. PICK k \in Bad : \A j \in Bad : k <= j
  <2>1. Bad \subseteq Nat
    OBVIOUS
  <2>. HIDE DEF Bad
  <2>. QED
    BY <1>1, <2>1, LeastNumber
<1>3. \A l \in Loops : Work(g, b, l) \in Nat
  BY WorkType
<1>4. CASE k = 0
  <2>. DEFINE h == [l \in Loops |-> Unbegun]
  <2>1. h \in [Loops -> Trails]
    BY UnbegunType
  <2>2. Solves(g, b, 0, h)
    BY <1>3, <2>1 DEF Solves
  <2>. QED
    BY <1>2, <1>4, <2>2
<1>5. CASE k # 0
  <2>1. k - 1 \in Nat /\ k - 1 \notin Bad
    BY <1>2, <1>5
  <2>2. PICK h : Solves(g, b, k - 1, h)
    BY <2>1
  <2>. DEFINE f == [l \in Loops |-> IF Work(g, b, l) < k THEN Value(g, h, l) ELSE Unbegun]
  <2>3. h \in [Loops -> Trails]
    BY <2>2 DEF Solves
  <2>4. ASSUME NEW l \in Loops, Work(g, b, l) < k
        PROVE  \A i \in Loops : Work(g, b, i) < Work(g, b, l) =>
                  /\ Work(g, b, i) < k - 1
                  /\ h[i] = Value(g, h, i)
                  /\ i.trail.visited \subseteq h[i].visited
    <3>1. \A i \in Loops : Work(g, b, i) < Work(g, b, l) => Work(g, b, i) < k - 1
      BY <1>3, <2>1, <2>4
    <3>. QED
      BY <2>2, <3>1 DEF Solves
  <2>5. ASSUME NEW l \in Loops, Work(g, b, l) < k
        PROVE  Value(g, h, l) \in Trails
    BY <2>3, <2>4, <2>5, ValueIsLocal
  <2>6. f \in [Loops -> Trails]
    BY <2>5, UnbegunType
  <2>7. ASSUME NEW l \in Loops, Work(g, b, l) < k
        PROVE  f[l] = Value(g, f, l) /\ l.trail.visited \subseteq f[l].visited
    <3>1. \A i \in Loops : Work(g, b, i) < Work(g, b, l) =>
             h[i] = f[i] /\ i.trail.visited \subseteq h[i].visited
      <4>1. \A i \in Loops : Work(g, b, i) < Work(g, b, l) => Work(g, b, i) < k
        BY <1>3, <2>1, <2>7
      <4>2. \A i \in Loops : Work(g, b, i) < k => f[i] = Value(g, h, i)
        OBVIOUS
      <4>. HIDE DEF f
      <4>. QED
        BY <2>4, <2>7, <4>1, <4>2
    <3>2. /\ Value(g, h, l) = Value(g, f, l)
          /\ l.trail.visited \subseteq Value(g, h, l).visited
      <4>. HIDE DEF f
      <4>. QED
        BY <2>3, <2>6, <3>1, ValueIsLocal
    <3>3. f[l] = Value(g, h, l)
      BY <2>7
    <3>. QED
      BY <3>2, <3>3
  <2>8. Solves(g, b, k, f)
    <3>. HIDE DEF f
    <3>. QED
      BY <2>6, <2>7 DEF Solves
  <2>. QED
    BY <1>2, <2>8
<1>. QED
  BY <1>4, <1>5

LEMMA SolutionsAgree ==
  ASSUME NEW g \in Wirings, NEW b, Bound(g, b),
         NEW m \in Nat, NEW h, Solves(g, b, m, h),
         NEW n \in Nat, NEW k, Solves(g, b, n, k),
         NEW x \in Loops, Work(g, b, x) < m, Work(g, b, x) < n
  PROVE  h[x] = k[x]
<1>. DEFINE Differ(l) == Work(g, b, l) < m /\ Work(g, b, l) < n /\ h[l] # k[l]
            Bad == {w \in Nat : \E l \in Loops : Work(g, b, l) = w /\ Differ(l)}
<1>1. SUFFICES ASSUME Differ(x) PROVE FALSE
  OBVIOUS
<1>2. \A l \in Loops : Work(g, b, l) \in Nat
  BY WorkType
<1>3. PICK w \in Bad : \A v \in Bad : w <= v
  <2>1. Bad \subseteq Nat /\ Work(g, b, x) \in Bad
    BY <1>1, <1>2
  <2>. HIDE DEF Bad
  <2>. QED
    BY <2>1, LeastNumber
<1>4. PICK l \in Loops : Work(g, b, l) = w /\ Differ(l)
  BY <1>3
<1>5. \A i \in Loops : Work(g, b, i) < Work(g, b, l) =>
        h[i] = k[i] /\ i.trail.visited \subseteq h[i].visited
  <2>1. ASSUME NEW i \in Loops, Work(g, b, i) < Work(g, b, l)
        PROVE  Work(g, b, i) < m /\ Work(g, b, i) < n /\ Work(g, b, i) \notin Bad
    <3>1. /\ Work(g, b, i) \in Nat /\ Work(g, b, l) \in Nat
          /\ Work(g, b, l) < m /\ Work(g, b, l) < n
      BY <1>2, <1>4
    <3>2. Work(g, b, i) < m /\ Work(g, b, i) < n
      BY <2>1, <3>1
    <3>3. ~ (Work(g, b, l) <= Work(g, b, i))
      BY <2>1, <3>1
    <3>4. Work(g, b, i) \notin Bad
      <4>. HIDE DEF Bad
      <4>. QED
        BY <1>3, <1>4, <3>3
    <3>. QED
      BY <3>2, <3>4
  <2>2. ASSUME NEW i \in Loops, Work(g, b, i) < Work(g, b, l)
        PROVE  h[i] = k[i]
    BY <1>2, <2>1, <2>2
  <2>. QED
    BY <2>1, <2>2 DEF Solves
<1>6. h \in [Loops -> Trails] /\ k \in [Loops -> Trails]
  BY DEF Solves
<1>7. Value(g, h, l) = Value(g, k, l)
  BY <1>5, <1>6, ValueIsLocal
<1>8. h[l] = Value(g, h, l) /\ k[l] = Value(g, k, l)
  BY <1>4 DEF Solves
<1>. QED
  BY <1>4, <1>7, <1>8

\* The function of Traversal satisfies its definition.
After(g) == CHOOSE f : f = WalkBody(g, f)

LEMMA AfterExists ==
  ASSUME NEW g \in Wirings
  PROVE  /\ After(g) \in [Loops -> Trails]
         /\ \A l \in Loops : After(g)[l] = Value(g, After(g), l)
         /\ \A l \in Loops : l.trail.visited \subseteq After(g)[l].visited
         /\ Traversal(g) = After(g)[Loop(Root, 1, Unbegun)]
<1>1. PICK b : Bound(g, b)
  BY BoundExists
<1>. DEFINE S(m) == CHOOSE h : Solves(g, b, m, h)
            f == [l \in Loops |-> S(Work(g, b, l) + 1)[l]]
<1>2. \A l \in Loops : Work(g, b, l) \in Nat
  BY <1>1, WorkType
<1>3. \A m \in Nat : Solves(g, b, m, S(m))
  BY <1>1, SolutionFor
<1>. HIDE DEF S
<1>4. ASSUME NEW l \in Loops, NEW m \in Nat, Work(g, b, l) < m PROVE f[l] = S(m)[l]
  <2>1. Work(g, b, l) + 1 \in Nat /\ Work(g, b, l) < Work(g, b, l) + 1
    BY <1>2
  <2>2. Solves(g, b, m, S(m)) /\ Solves(g, b, Work(g, b, l) + 1, S(Work(g, b, l) + 1))
    BY <1>3, <2>1
  <2>3. S(Work(g, b, l) + 1)[l] = S(m)[l]
    BY <1>1, <1>4, <2>1, <2>2, SolutionsAgree
  <2>. QED
    BY <2>3
<1>5. f \in [Loops -> Trails]
  <2>1. ASSUME NEW l \in Loops PROVE f[l] \in Trails
    <3>1. Work(g, b, l) + 1 \in Nat
      BY <1>2
    <3>2. S(Work(g, b, l) + 1) \in [Loops -> Trails]
      BY <1>3, <3>1 DEF Solves
    <3>. QED
      BY <3>2
  <2>. QED
    BY <2>1
<1>. HIDE DEF f
<1>6. ASSUME NEW l \in Loops PROVE f[l] = Value(g, f, l)
  <2>. DEFINE m == Work(g, b, l) + 1
              h == S(m)
  <2>1. m \in Nat /\ Work(g, b, l) < m /\ Work(g, b, l) \in Nat
    BY <1>2
  <2>2. Solves(g, b, m, h) /\ h \in [Loops -> Trails]
    BY <1>3, <2>1 DEF Solves
  <2>3. h[l] = Value(g, h, l) /\ f[l] = h[l]
    BY <1>4, <2>1, <2>2 DEF Solves
  <2>4. \A i \in Loops : Work(g, b, i) < Work(g, b, l) =>
          h[i] = f[i] /\ i.trail.visited \subseteq h[i].visited
    <3>1. \A i \in Loops : Work(g, b, i) < Work(g, b, l) => Work(g, b, i) < m
      BY <1>2, <2>1
    <3>. HIDE DEF m
    <3>. QED
      BY <1>4, <2>1, <2>2, <3>1 DEF Solves
  <2>5. Value(g, h, l) = Value(g, f, l)
    <3>. HIDE DEF h
    <3>. QED
      BY <1>1, <1>5, <2>2, <2>4, ValueIsLocal
  <2>. QED
    BY <2>3, <2>5
<1>7. f = WalkBody(g, f)
  <2>1. f = [l \in Loops |-> Value(g, f, l)]
    BY <1>5, <1>6
  <2>. QED
    BY <2>1 DEF WalkBody, Value
<1>8. After(g) = WalkBody(g, After(g))
  BY <1>7 DEF After
<1>9. After(g) = [l \in Loops |-> Value(g, After(g), l)]
  BY <1>8 DEF WalkBody, Value
<1>10. ASSUME NEW l \in Loops PROVE l.trail.visited \subseteq f[l].visited
  <2>. DEFINE m == Work(g, b, l) + 1
  <2>1. m \in Nat /\ Work(g, b, l) < m
    BY <1>2
  <2>2. Solves(g, b, m, S(m)) /\ f[l] = S(m)[l]
    BY <1>3, <1>4, <2>1
  <2>. QED
    BY <2>1, <2>2 DEF Solves
<1>11. \A l \in Loops : After(g)[l] = f[l]
  <2>. DEFINE Bad == {w \in Nat : \E l \in Loops : Work(g, b, l) = w /\ f[l] # After(g)[l]}
  <2>1. SUFFICES ASSUME Bad # {} PROVE FALSE
    BY <1>2
  <2>2. PICK w \in Bad : \A v \in Bad : w <= v
    <3>1. Bad \subseteq Nat
      OBVIOUS
    <3>. HIDE DEF Bad
    <3>. QED
      BY <2>1, <3>1, LeastNumber
  <2>3. PICK l \in Loops : Work(g, b, l) = w /\ f[l] # After(g)[l]
    BY <2>2
  <2>4. ASSUME NEW i \in Loops, Work(g, b, i) < Work(g, b, l)
        PROVE  f[i] = After(g)[i]
    <3>1. Work(g, b, i) \in Nat /\ Work(g, b, l) \in Nat
      BY <1>2
    <3>2. ~ (w <= Work(g, b, i))
      BY <2>3, <2>4, <3>1
    <3>3. Work(g, b, i) \notin Bad
      <4>. HIDE DEF Bad
      <4>. QED
        BY <2>2, <3>2
    <3>. QED
      BY <3>1, <3>3
  <2>5. Value(g, f, l) = Value(g, After(g), l)
    BY <1>1, <1>5, <1>10, <2>4, ValueIsLocal
  <2>6. After(g)[l] = Value(g, After(g), l)
    BY <1>9
  <2>. QED
    BY <1>6, <2>3, <2>5, <2>6
<1>12. After(g) = f
  <2>1. f = [l \in Loops |-> f[l]]
    BY <1>5
  <2>2. After(g) = [l \in Loops |-> After(g)[l]]
    BY <1>9
  <2>. QED
    BY <1>11, <2>1, <2>2
<1>. QED
  BY <1>5, <1>6, <1>10, <1>12, TraversalByBody DEF After

-----------------------------------------------------------------------------
(* The observer lists stay lists of nodes other than the root.             *)

LEMMA FirstLoop ==
  /\ Loop(Root, 1, Unbegun) \in Loops
  /\ Loop(Root, 1, Unbegun).node = Root
  /\ Loop(Root, 1, Unbegun).next = 1
  /\ Loop(Root, 1, Unbegun).trail = Unbegun
BY AllNodesFinite, UnbegunType, LoopType

LEMMA TraversalType ==
  ASSUME NEW g \in Wirings
  PROVE  Traversal(g) \in Trails
BY AfterExists, FirstLoop

LEMMA NextType ==
  ASSUME TypeInv, [Next]_vars
  PROVE  TypeInv'
<1>1. observers \in Wirings /\ metrics_instrumented \in BOOLEAN
  BY DEF TypeInv
<1>2. /\ Traversal(observers).entered \in Seq(Connections)
      /\ Traversal(observers).up \in Seq(Connections)
  BY <1>1, TraversalType DEF Trails
<1>3. ASSUME NEW n \in Nodes, NEW o \in Nodes \ {Root}, Connect(n, o) PROVE TypeInv'
  <2>1. n \in AllNodes /\ o \in Followers
    BY DEF AllNodes, Followers
  <2>. QED
    BY <1>1, <1>3, <2>1, ConnectedType DEF Connect, TypeInv
<1>4. ASSUME NEW n \in Nodes, NEW o \in Nodes \ {Root}, Disconnect(n, o) PROVE TypeInv'
  <2>1. n \in AllNodes
    BY DEF AllNodes
  <2>. QED
    BY <1>1, <1>4, <2>1, DisconnectedType DEF Disconnect, TypeInv
<1>5. ASSUME NEW Rejected \in SUBSET (Nodes \ {Root}), FilterNodes(Rejected) PROVE TypeInv'
  BY <1>1, <1>2, <1>5, FilteredType DEF FilterNodes, TypeInv
<1>6. ASSUME InstrumentMetrics PROVE TypeInv'
  <2>1. Walked(observers) \in Seq(Connections) /\ Len(Walked(observers)) <= Len(MetricsNodes)
    BY <1>2, <1>6 DEF InstrumentMetrics, Walked, ConnectionsBackwards
  <2>2. Instrumented(observers) \in Wirings
    BY <1>1, <2>1, InstrumentedType
  <2>. QED
    BY <1>6, <2>2 DEF InstrumentMetrics, TypeInv
<1>7. ASSUME DeinstrumentMetrics PROVE TypeInv'
  <2>1. Filtered(observers, Range(MetricsNodes)) \in Wirings
    BY <1>1, <1>2, FilteredType
  <2>2. Collected(Filtered(observers, Range(MetricsNodes))) \in Wirings
    BY <2>1, CollectedType
  <2>. QED
    BY <1>7, <2>2 DEF DeinstrumentMetrics, TypeInv
<1>8. CASE UNCHANGED vars
  BY <1>1, <1>8 DEF TypeInv, vars
<1>. QED
  BY <1>3, <1>4, <1>5, <1>6, <1>7, <1>8 DEF Next

\* Whatever is connected, filtered and profiled, the graph stays one that the
\* program can build: lists of nodes, none of which is the root.
THEOREM Typed == Spec => []TypeInv
<1>1. Init => TypeInv
  BY EmptySeq DEF Init, TypeInv, Wirings
<1>2. TypeInv /\ [Next]_vars => TypeInv'
  BY NextType
<1>. QED
  BY <1>1, <1>2, PTL DEF Spec

-----------------------------------------------------------------------------
(* Induction over the loops of a walk, for a set P of loops and the sets   *)
(* Q[l] of trails that they may come to.                                   *)

LEMMA LoopInduction ==
  ASSUME NEW g \in Wirings, NEW P \in SUBSET Loops, NEW Q \in [Loops -> SUBSET Trails],
         \A l \in P : Over(g, l) => l.trail \in Q[l],
         \A l \in P : ~Over(g, l) /\ Child(g, l) \in l.trail.visited =>
            /\ Rest(g, l, Down(g, l)) \in P
            /\ Q[Rest(g, l, Down(g, l))] \subseteq Q[l],
         \A l \in P : ~Over(g, l) /\ Child(g, l) \notin l.trail.visited =>
            /\ Inner(g, l) \in P
            /\ \A t \in Q[Inner(g, l)] :
                 /\ Rest(g, l, Leave(t, Child(g, l))) \in P
                 /\ Q[Rest(g, l, Leave(t, Child(g, l)))] \subseteq Q[l]
  PROVE  \A l \in P : After(g)[l] \in Q[l]
<1>1. PICK b : Bound(g, b)
  BY BoundExists
<1>2. \A l \in Loops : Work(g, b, l) \in Nat
  BY <1>1, WorkType
<1>. DEFINE Bad == {w \in Nat : \E l \in P : Work(g, b, l) = w /\ After(g)[l] \notin Q[l]}
<1>3. SUFFICES ASSUME Bad # {} PROVE FALSE
  BY <1>2
<1>4. PICK w \in Bad : \A v \in Bad : w <= v
  <2>1. Bad \subseteq Nat
    OBVIOUS
  <2>. HIDE DEF Bad
  <2>. QED
    BY <1>3, <2>1, LeastNumber
<1>5. PICK l \in P : Work(g, b, l) = w /\ After(g)[l] \notin Q[l]
  BY <1>4
<1>6. ASSUME NEW i \in P, Work(g, b, i) < Work(g, b, l)
      PROVE  After(g)[i] \in Q[i]
  <2>1. Work(g, b, i) \in Nat /\ Work(g, b, l) \in Nat
    BY <1>2
  <2>2. ~ (w <= Work(g, b, i))
    BY <1>5, <1>6, <2>1
  <2>3. Work(g, b, i) \notin Bad
    <3>. HIDE DEF Bad
    <3>. QED
      BY <1>4, <2>2
  <2>. QED
    BY <2>1, <2>3
<1>. HIDE DEF Bad
<1>. DEFINE c == Child(g, l)
            i == Inner(g, l)
<1>7. l \in Loops /\ After(g)[l] = Value(g, After(g), l)
  BY AfterExists
<1>8. CASE Over(g, l)
  BY <1>5, <1>7, <1>8 DEF Value
<1>9. CASE ~Over(g, l) /\ c \in l.trail.visited
  <2>. DEFINE r == Rest(g, l, Down(g, l))
  <2>1. Down(g, l) \in Trails /\ Down(g, l).visited = l.trail.visited
    BY <1>7, <1>9, StepTypes
  <2>2. r \in P /\ Q[r] \subseteq Q[l]
    BY <1>9
  <2>3. Work(g, b, r) < Work(g, b, l)
    BY <1>1, <1>7, <1>9, <2>1, RestIsLess
  <2>4. After(g)[r] \in Q[r]
    BY <1>6, <2>2, <2>3
  <2>5. Back(g, l, After(g)[i]) = Down(g, l)
    BY <1>9, <2>1 DEF Back, Unseen
  <2>6. After(g)[l] = After(g)[r]
    BY <1>7, <1>9, <2>5 DEF Value
  <2>. QED
    BY <1>5, <2>2, <2>4, <2>6
<1>10. CASE ~Over(g, l) /\ c \notin l.trail.visited
  <2>. DEFINE t == After(g)[i]
              r == Rest(g, l, Leave(t, c))
  <2>1. /\ Down(g, l) \in Trails /\ Down(g, l).visited = l.trail.visited
        /\ i \in Loops /\ c \in Followers /\ l.node \in AllNodes
    BY <1>7, <1>10, StepTypes, LoopFields
  <2>2. Work(g, b, i) < Work(g, b, l) /\ i \in P
    BY <1>1, <1>7, <1>10, InnerIsLess
  <2>3. t \in Q[i] /\ t \in Trails
    BY <1>6, <2>1, <2>2
  <2>4. r \in P /\ Q[r] \subseteq Q[l]
    BY <1>10, <2>3
  <2>5. Leave(t, c) \in Trails /\ l.trail.visited \subseteq Leave(t, c).visited
    <3>1. i.trail.visited = l.trail.visited \cup {c}
      BY <1>7, <1>10, <2>1, StepTypes, EnterTrail
    <3>2. i.trail.visited \subseteq t.visited
      BY <2>1, AfterExists
    <3>3. Leave(t, c) \in Trails /\ Leave(t, c).visited = t.visited
      BY <2>1, <2>3, LeaveTrail
    <3>. QED
      BY <3>1, <3>2, <3>3
  <2>6. Work(g, b, r) < Work(g, b, l)
    BY <1>1, <1>7, <1>10, <2>5, RestIsLess
  <2>7. After(g)[r] \in Q[r]
    BY <1>6, <2>4, <2>6
  <2>8. Back(g, l, t) = Leave(t, c)
    BY <1>10, <2>1 DEF Back, Unseen
  <2>9. After(g)[l] = After(g)[r]
    BY <1>7, <1>10, <2>8 DEF Value
  <2>. QED
    BY <1>5, <2>4, <2>7, <2>9
<1>. QED
  BY <1>8, <1>9, <1>10

-----------------------------------------------------------------------------
(* Every node below the root is entered once and left once.                *)

\* Children of a list of connections, and of one more.
LEMMA ChildrenFacts ==
  ASSUME NEW s \in Seq(Connections)
  PROVE  /\ Children(s) \in Seq(Followers)
         /\ Len(Children(s)) = Len(s)
         /\ \A i \in 1 .. Len(s) : Children(s)[i] = s[i].child
<1>1. Len(s) \in Nat /\ DOMAIN s = 1 .. Len(s) /\ \A i \in 1 .. Len(s) : s[i] \in Connections
  BY SeqFacts
<1>2. \A i \in 1 .. Len(s) : s[i].child \in Followers
  BY <1>1 DEF Connections
<1>3. Children(s) = [i \in 1 .. Len(s) |-> s[i].child]
  BY <1>1 DEF Children
<1>4. [i \in 1 .. Len(s) |-> s[i].child] \in Seq(Followers)
  BY <1>1, <1>2, IsASeq
<1>. QED
  BY <1>1, <1>3, <1>4, SeqFacts

LEMMA ChildrenOfAppend ==
  ASSUME NEW s \in Seq(Connections), NEW p \in AllNodes, NEW c \in Followers
  PROVE  Children(Append(s, Connection(p, c))) = Append(Children(s), c)
<1>. DEFINE e == Connection(p, c)
            a == Children(Append(s, e))
            b == Append(Children(s), c)
<1>1. e \in Connections /\ e.child = c
  BY ConnectionType DEF Connection
<1>2. /\ Append(s, e) \in Seq(Connections) /\ Len(Append(s, e)) = Len(s) + 1
      /\ \A i \in 1 .. Len(s) : Append(s, e)[i] = s[i]
      /\ Append(s, e)[Len(s) + 1] = e
  <2>. HIDE DEF e
  <2>. QED
    BY <1>1, AppendFacts
<1>3. a \in Seq(Followers) /\ Len(a) = Len(s) + 1
      /\ \A i \in 1 .. (Len(s) + 1) : a[i] = Append(s, e)[i].child
  BY <1>2, ChildrenFacts
<1>4. /\ b \in Seq(Followers) /\ Len(b) = Len(s) + 1
      /\ \A i \in 1 .. Len(s) : b[i] = s[i].child
      /\ b[Len(s) + 1] = c
  BY ChildrenFacts, AppendFacts
<1>5. Len(s) \in Nat /\ \A i \in 1 .. (Len(s) + 1) : i \in 1 .. Len(s) \/ i = Len(s) + 1
  BY SeqFacts
<1>. HIDE DEF e, a, b
<1>6. ASSUME NEW i \in 1 .. (Len(s) + 1) PROVE a[i] = b[i]
  <2>1. CASE i \in 1 .. Len(s)
    BY <1>2, <1>3, <1>4, <1>5, <2>1
  <2>2. CASE i = Len(s) + 1
    BY <1>1, <1>2, <1>3, <1>4, <1>5, <2>2
  <2>. QED
    BY <1>5, <2>1, <2>2
<1>7. a = b
  BY <1>3, <1>4, <1>6, SeqEqual
<1>. QED
  BY <1>7 DEF a, b, e

\* The nodes that a walk has entered and not left.
Open(t) == t.visited \ Range(t.left)

\* The nodes whose observers a walk looks at.
Walking(g) == Below(g, Root) \cup {Root}

\* What holds of a trail at any time of a walk of g.
Orderly(g, t) ==
  /\ IsInjective(Children(t.entered))
  /\ Range(Children(t.entered)) = t.visited
  /\ IsInjective(t.left)
  /\ Range(t.left) \subseteq t.visited
  /\ \A m \in Range(t.left) : Range(g[m]) \subseteq t.visited
  /\ t.visited \subseteq Below(g, Root)
  /\ \A e \in Range(t.entered) : e.parent \in Walking(g) /\ e.child \in Range(g[e.parent])

\* The loops that a walk comes to, and the trails with which it ends them.
Reached(g) ==
  {l \in Loops :
     /\ Orderly(g, l.trail)
     /\ l.node = Root \/ l.node \in Open(l.trail)
     /\ \A i \in 1 .. Len(g[l.node]) : i < l.next => g[l.node][i] \in l.trail.visited}

Ended(g) ==
  [l \in Loops |->
     {t \in Trails :
        /\ Orderly(g, t)
        /\ l.trail.visited \subseteq t.visited
        /\ Open(t) = Open(l.trail)
        /\ Range(g[l.node]) \subseteq t.visited}]

LEMMA EnterOrderly ==
  ASSUME NEW g \in Wirings, NEW t \in Trails, Orderly(g, t),
         NEW p \in AllNodes, NEW c \in Followers, c \notin t.visited, c \in Below(g, Root),
         p \in Walking(g), c \in Range(g[p])
  PROVE  /\ Orderly(g, Enter(t, p, c))
         /\ Open(Enter(t, p, c)) = Open(t) \cup {c}
<1>. DEFINE u == Enter(t, p, c)
<1>1. /\ u \in Trails /\ u.visited = t.visited \cup {c} /\ u.left = t.left
      /\ u.entered = Append(t.entered, Connection(p, c))
      /\ t.entered \in Seq(Connections)
  BY EnterTrail DEF Trails
<1>2. Children(u.entered) = Append(Children(t.entered), c) /\ Children(t.entered) \in Seq(Followers)
  BY <1>1, ChildrenOfAppend, ChildrenFacts
<1>. HIDE DEF u
<1>3. IsInjective(Children(u.entered)) /\ Range(Children(u.entered)) = u.visited
  <2>1. c \notin Range(Children(t.entered)) /\ IsInjective(Children(t.entered))
    BY DEF Orderly
  <2>2. IsInjective(Append(Children(t.entered), c))
    BY <1>2, <2>1, AppendNew
  <2>3. Range(Append(Children(t.entered), c)) = Range(Children(t.entered)) \cup {c}
    BY <1>2, AppendFacts
  <2>. QED
    BY <1>1, <1>2, <2>2, <2>3 DEF Orderly
<1>4. Orderly(g, u)
  <2>1. Range(u.entered) = Range(t.entered) \cup {Connection(p, c)}
    BY <1>1, ConnectionType, AppendFacts
  <2>2. Connection(p, c).parent = p /\ Connection(p, c).child = c
    BY DEF Connection
  <2>3. \A e \in Range(u.entered) : e.parent \in Walking(g) /\ e.child \in Range(g[e.parent])
    BY <2>1, <2>2 DEF Orderly
  <2>. QED
    BY <1>1, <1>3, <2>3 DEF Orderly
<1>5. Open(u) = Open(t) \cup {c}
  BY <1>1 DEF Open, Orderly
<1>. QED
  BY <1>4, <1>5 DEF u

LEMMA LeaveOrderly ==
  ASSUME NEW g \in Wirings, NEW t \in Trails, Orderly(g, t),
         NEW c \in Followers, c \in Open(t), Range(g[c]) \subseteq t.visited
  PROVE  /\ Orderly(g, Leave(t, c))
         /\ Open(Leave(t, c)) = Open(t) \ {c}
<1>. DEFINE u == Leave(t, c)
<1>1. /\ u \in Trails /\ u.visited = t.visited /\ u.entered = t.entered
      /\ u.left = Append(t.left, c) /\ t.left \in Seq(Followers)
  BY LeaveTrail DEF Trails
<1>. HIDE DEF u
<1>2. IsInjective(u.left) /\ Range(u.left) = Range(t.left) \cup {c}
  <2>1. c \notin Range(t.left) /\ IsInjective(t.left)
    BY DEF Orderly, Open
  <2>. QED
    BY <1>1, <2>1, AppendNew, AppendFacts
<1>3. Orderly(g, u)
  BY <1>1, <1>2 DEF Orderly, Open
<1>4. Open(u) = Open(t) \ {c}
  BY <1>1, <1>2 DEF Open
<1>. QED
  BY <1>3, <1>4 DEF u

\* Going down or coming up a connection changes nothing of this.
LEMMA SameOrderly ==
  ASSUME NEW g, NEW t, NEW u, Orderly(g, t),
         u.visited = t.visited, u.entered = t.entered, u.left = t.left
  PROVE  Orderly(g, u) /\ Open(u) = Open(t)
BY DEF Orderly, Open

\* The rest of a loop when it is back from a child.
LEMMA RestReached ==
  ASSUME NEW g \in Wirings, NEW l \in Reached(g), ~Over(g, l),
         NEW t \in Trails, Orderly(g, t), Open(t) = Open(l.trail),
         l.trail.visited \subseteq t.visited, Child(g, l) \in t.visited
  PROVE  /\ Rest(g, l, t) \in Reached(g)
         /\ Ended(g)[Rest(g, l, t)] \subseteq Ended(g)[l]
<1>. DEFINE r == Rest(g, l, t)
<1>1. l \in Loops /\ l.node \in AllNodes /\ l.next \in Nat \ {0} /\ Child(g, l) \in Followers
  BY LoopFields, StepTypes DEF Reached
<1>2. /\ r \in Loops /\ r.node = l.node /\ r.next = l.next + 1
      /\ r.trail.visited = t.visited /\ r.trail.entered = t.entered /\ r.trail.left = t.left
  BY <1>1, StepTypes, ComeUpTrail
<1>. HIDE DEF r
<1>3. Orderly(g, r.trail) /\ Open(r.trail) = Open(l.trail)
  BY <1>2, SameOrderly
<1>4. ASSUME NEW i \in 1 .. Len(g[r.node]), i < r.next PROVE g[r.node][i] \in r.trail.visited
  <2>1. i < l.next \/ i = l.next
    BY <1>1, <1>2, <1>4, ListFacts
  <2>. QED
    BY <1>2, <2>1 DEF Reached, Child
<1>5. r \in Reached(g)
  BY <1>2, <1>3, <1>4 DEF Reached
<1>6. Ended(g)[r] \subseteq Ended(g)[l]
  BY <1>1, <1>2, <1>3 DEF Ended
<1>. QED
  BY <1>5, <1>6 DEF r

LEMMA ChildBelow ==
  ASSUME NEW g \in Wirings, NEW l \in Reached(g), ~Over(g, l)
  PROVE  /\ Child(g, l) \in Range(g[l.node]) /\ Child(g, l) \in Below(g, Root)
         /\ l.node \in Walking(g)
<1>1. l \in Loops /\ l.node \in AllNodes
  BY LoopFields DEF Reached
<1>2. Child(g, l) \in Range(g[l.node])
  <2>1. l.next \in 1 .. Len(g[l.node])
    BY <1>1, StepTypes
  <2>2. Range(g[l.node]) = {g[l.node][i] : i \in 1 .. Len(g[l.node])}
    BY <1>1, ListFacts
  <2>. QED
    BY <2>1, <2>2 DEF Child
<1>3. l.node = Root \/ l.node \in Below(g, Root)
  BY DEF Reached, Orderly, Open
<1>. QED
  BY <1>2, <1>3, BelowIsLeast, AllNodesFinite DEF ClosedUnder, Walking

LEMMA InnerReached ==
  ASSUME NEW g \in Wirings, NEW l \in Reached(g), ~Over(g, l),
         Child(g, l) \notin l.trail.visited
  PROVE  /\ Inner(g, l) \in Reached(g)
         /\ Open(Inner(g, l).trail) = Open(l.trail) \cup {Child(g, l)}
         /\ Inner(g, l).trail.visited = l.trail.visited \cup {Child(g, l)}
         /\ Inner(g, l).trail.left = l.trail.left
<1>. DEFINE c == Child(g, l)
            d == Down(g, l)
            i == Inner(g, l)
<1>1. l \in Loops /\ l.node \in AllNodes /\ l.trail \in Trails /\ c \in Followers
  BY LoopFields, StepTypes DEF Reached
<1>2. /\ d \in Trails /\ d.visited = l.trail.visited
      /\ d.entered = l.trail.entered /\ d.left = l.trail.left
  BY <1>1, GoDownTrail DEF Down
<1>3. /\ i \in Loops /\ i.node = c /\ i.next = 1 /\ i.trail = Enter(d, l.node, c)
  BY <1>1, StepTypes
<1>. HIDE DEF d, i
<1>4. Orderly(g, d) /\ Open(d) = Open(l.trail)
  BY <1>2, SameOrderly DEF Reached
<1>5. /\ Orderly(g, i.trail) /\ Open(i.trail) = Open(d) \cup {c}
      /\ i.trail.visited = d.visited \cup {c} /\ i.trail.left = d.left
  BY <1>1, <1>2, <1>3, <1>4, ChildBelow, EnterOrderly, EnterTrail
<1>6. i \in Reached(g)
  <2>1. c \in Open(i.trail)
    BY <1>5
  <2>2. Len(g[c]) \in Nat
    BY <1>1, AllNodesFinite, ListFacts
  <2>3. \A k \in 1 .. Len(g[c]) : ~ (k < 1)
    BY <2>2
  <2>. QED
    BY <1>3, <1>5, <2>1, <2>3 DEF Reached
<1>. QED
  BY <1>2, <1>4, <1>5, <1>6 DEF i

\* What is known when the loop over the observers of a child is over.
LEMMA InnerEnded ==
  ASSUME NEW g \in Wirings, NEW l \in Reached(g), ~Over(g, l),
         Child(g, l) \notin l.trail.visited, NEW t \in Ended(g)[Inner(g, l)]
  PROVE  /\ t \in Trails /\ Orderly(g, t)
         /\ Leave(t, Child(g, l)) \in Trails
         /\ Orderly(g, Leave(t, Child(g, l)))
         /\ Open(t) = Open(l.trail) \cup {Child(g, l)}
         /\ Open(Leave(t, Child(g, l))) = Open(l.trail)
         /\ l.trail.visited \subseteq Leave(t, Child(g, l)).visited
         /\ Child(g, l) \in Leave(t, Child(g, l)).visited
         /\ Range(g[Child(g, l)]) \subseteq t.visited
         /\ Child(g, l) \in Open(t)
<1>. DEFINE c == Child(g, l)
            i == Inner(g, l)
<1>1. l \in Loops /\ l.node \in AllNodes /\ l.trail \in Trails /\ c \in Followers
      /\ i \in Loops /\ i.node = c
  BY LoopFields, StepTypes DEF Reached
<1>2. Open(i.trail) = Open(l.trail) \cup {c} /\ i.trail.visited = l.trail.visited \cup {c}
  BY InnerReached
<1>3. /\ t \in Trails /\ Orderly(g, t) /\ i.trail.visited \subseteq t.visited
      /\ Open(t) = Open(i.trail) /\ Range(g[c]) \subseteq t.visited
  BY <1>1 DEF Ended
<1>4. /\ Orderly(g, Leave(t, c)) /\ Open(Leave(t, c)) = Open(t) \ {c}
      /\ Leave(t, c) \in Trails /\ Leave(t, c).visited = t.visited
  BY <1>1, <1>2, <1>3, LeaveOrderly, LeaveTrail
<1>5. c \notin Open(l.trail)
  BY DEF Open
<1>. QED
  BY <1>2, <1>3, <1>4, <1>5

LEMMA LoopsEnd ==
  ASSUME NEW g \in Wirings
  PROVE  \A l \in Reached(g) : After(g)[l] \in Ended(g)[l]
<1>. DEFINE P == Reached(g)
            Q == Ended(g)
<1>1. P \in SUBSET Loops /\ Q \in [Loops -> SUBSET Trails]
  BY DEF Reached, Ended
<1>2. ASSUME NEW l \in P, Over(g, l) PROVE l.trail \in Q[l]
  <2>1. l \in Loops /\ l.node \in AllNodes /\ l.next \in Nat \ {0} /\ l.trail \in Trails
    BY LoopFields DEF Reached
  <2>2. Range(g[l.node]) \subseteq l.trail.visited
    <3>1. \A i \in 1 .. Len(g[l.node]) : i < l.next
      BY <1>2, <2>1, ListFacts DEF Over
    <3>2. \A i \in 1 .. Len(g[l.node]) : g[l.node][i] \in l.trail.visited
      BY <3>1 DEF Reached
    <3>3. Range(g[l.node]) = {g[l.node][i] : i \in 1 .. Len(g[l.node])}
      BY <2>1, ListFacts
    <3>. QED
      BY <3>2, <3>3
  <2>. QED
    BY <2>1, <2>2 DEF Reached, Ended
<1>3. ASSUME NEW l \in P, ~Over(g, l), Child(g, l) \in l.trail.visited
      PROVE  /\ Rest(g, l, Down(g, l)) \in P
             /\ Q[Rest(g, l, Down(g, l))] \subseteq Q[l]
  <2>1. l \in Loops /\ l.node \in AllNodes /\ l.trail \in Trails /\ Child(g, l) \in Followers
    BY <1>3, LoopFields, StepTypes DEF Reached
  <2>2. /\ Down(g, l) \in Trails /\ Down(g, l).visited = l.trail.visited
        /\ Down(g, l).entered = l.trail.entered /\ Down(g, l).left = l.trail.left
    BY <2>1, GoDownTrail DEF Down
  <2>3. Orderly(g, Down(g, l)) /\ Open(Down(g, l)) = Open(l.trail)
    BY <2>2, SameOrderly DEF Reached
  <2>. QED
    BY <1>3, <2>2, <2>3, RestReached
<1>4. ASSUME NEW l \in P, ~Over(g, l), Child(g, l) \notin l.trail.visited
      PROVE  /\ Inner(g, l) \in P
             /\ \A t \in Q[Inner(g, l)] :
                  /\ Rest(g, l, Leave(t, Child(g, l))) \in P
                  /\ Q[Rest(g, l, Leave(t, Child(g, l)))] \subseteq Q[l]
  <2>1. ASSUME NEW t \in Q[Inner(g, l)]
        PROVE  /\ Rest(g, l, Leave(t, Child(g, l))) \in P
               /\ Q[Rest(g, l, Leave(t, Child(g, l)))] \subseteq Q[l]
    BY <1>4, InnerEnded, RestReached
  <2>. QED
    BY <1>4, <2>1, InnerReached
<1>. HIDE DEF P, Q
<1>5. \A l \in P : After(g)[l] \in Q[l]
  BY <1>1, <1>2, <1>3, <1>4, LoopInduction
<1>. QED
  BY <1>5 DEF P, Q

LEMMA FirstReached ==
  ASSUME NEW g \in Wirings
  PROVE  Loop(Root, 1, Unbegun) \in Reached(g)
<1>1. /\ Unbegun \in Trails /\ Unbegun.visited = {}
      /\ Unbegun.left = << >> /\ Unbegun.entered = << >>
  BY UnbegunType DEF Unbegun
<1>2. DOMAIN << >> = {} /\ Range(<< >>) = {}
  BY EmptyRange
<1>3. Children(<< >>) = [i \in {} |-> << >>[i].child]
  BY <1>2 DEF Children
<1>4. DOMAIN Children(<< >>) = {} /\ Range(Children(<< >>)) = {}
  BY <1>3 DEF Range
<1>5. Orderly(g, Unbegun)
  BY <1>1, <1>2, <1>4 DEF Orderly, IsInjective
<1>6. \A k \in 1 .. Len(g[Root]) : ~ (k < 1)
  BY ListFacts, AllNodesFinite
<1>. QED
  BY <1>5, <1>6, FirstLoop DEF Reached

\* What a walk comes to.
LEMMA WalkEnds ==
  ASSUME NEW g \in Wirings
  PROVE  /\ Traversal(g) \in Trails
         /\ Orderly(g, Traversal(g))
         /\ Range(Traversal(g).left) = Below(g, Root)
         /\ Traversal(g).visited = Below(g, Root)
<1>. DEFINE l == Loop(Root, 1, Unbegun)
            t == Traversal(g)
<1>1. l \in Loops /\ l.node = Root /\ l.trail = Unbegun /\ t = After(g)[l]
  BY FirstLoop, AfterExists
<1>2. t \in Ended(g)[l]
  BY <1>1, FirstReached, LoopsEnd
<1>3. t \in Trails /\ Orderly(g, t) /\ Open(t) = Open(Unbegun) /\ Range(g[Root]) \subseteq t.visited
  BY <1>1, <1>2 DEF Ended
<1>4. Open(Unbegun) = {}
  BY DEF Open, Unbegun
<1>5. t.visited = Range(t.left)
  BY <1>3, <1>4 DEF Open, Orderly
<1>6. ClosedUnder(g, t.visited)
  BY <1>3, <1>5 DEF Orderly, ClosedUnder
<1>7. Below(g, Root) \subseteq t.visited
  BY <1>3, <1>6, BelowIsLeast, AllNodesFinite
<1>8. t.visited \subseteq Below(g, Root)
  BY <1>3 DEF Orderly
<1>. QED
  BY <1>3, <1>5, <1>7, <1>8

-----------------------------------------------------------------------------
(* In a graph without cycles a node is left after the nodes below it.      *)

\* The observers of a node are left before it.
Settled(g, t) ==
  \A j \in DOMAIN t.left : \A o \in Range(g[t.left[j]]) : \E i \in 1 .. (j - 1) : t.left[i] = o

\* A loop is inside those of the open nodes, and all these are above its node.
Nested(g) ==
  {l \in Reached(g) :
     /\ Settled(g, l.trail)
     /\ \A a \in Open(l.trail) : a = l.node \/ l.node \in Below(g, a)}

SettledEnds(g) == [l \in Loops |-> {t \in Ended(g)[l] : Settled(g, t)}]

LEMMA BelowChild ==
  ASSUME NEW g \in Wirings, NEW a \in AllNodes, NEW n, n = a \/ n \in Below(g, a), NEW c \in Range(g[n])
  PROVE  c \in Below(g, a)
BY BelowIsLeast DEF ClosedUnder

LEMMA OpenNodes ==
  ASSUME NEW t \in Trails
  PROVE  \A a \in Open(t) : a \in Followers /\ a \in AllNodes
BY AllNodesFinite DEF Trails, Open

LEMMA SettledLeave ==
  ASSUME NEW g \in Wirings, NEW t \in Trails, Settled(g, t), NEW c \in Followers,
         Range(g[c]) \subseteq Range(t.left)
  PROVE  Settled(g, Leave(t, c))
<1>. DEFINE u == Leave(t, c).left
            s == t.left
<1>1. s \in Seq(Followers) /\ u = Append(s, c)
  BY LeaveTrail DEF Trails
<1>. HIDE DEF u, s
<1>2. /\ Len(s) \in Nat /\ DOMAIN s = 1 .. Len(s) /\ DOMAIN u = 1 .. (Len(s) + 1)
      /\ \A i \in 1 .. Len(s) : u[i] = s[i]
      /\ u[Len(s) + 1] = c
      /\ \A x \in Range(s) : \E i \in 1 .. Len(s) : s[i] = x
  BY <1>1, SeqFacts, AppendFacts
<1>3. ASSUME NEW j \in DOMAIN u, NEW o \in Range(g[u[j]]) PROVE \E i \in 1 .. (j - 1) : u[i] = o
  <2>1. CASE j \in 1 .. Len(s)
    <3>1. PICK i \in 1 .. (j - 1) : s[i] = o
      BY <1>2, <1>3, <2>1 DEF Settled, s
    <3>2. i \in 1 .. Len(s)
      BY <1>2, <2>1, <3>1
    <3>. QED
      BY <1>2, <3>1, <3>2
  <2>2. CASE j = Len(s) + 1
    <3>1. o \in Range(s)
      BY <1>2, <1>3, <2>2 DEF s
    <3>2. PICK i \in 1 .. Len(s) : s[i] = o
      BY <1>2, <3>1
    <3>3. i \in 1 .. (j - 1)
      BY <1>2, <2>2, <3>2
    <3>. QED
      BY <1>2, <3>2, <3>3
  <2>. QED
    BY <1>2, <1>3, <2>1, <2>2
<1>. QED
  BY <1>3 DEF Settled, u

LEMMA RestNested ==
  ASSUME NEW g \in Wirings, NEW l \in Nested(g), ~Over(g, l),
         NEW t \in Trails, Settled(g, t), Open(t) = Open(l.trail),
         Rest(g, l, t) \in Reached(g), Ended(g)[Rest(g, l, t)] \subseteq Ended(g)[l]
  PROVE  /\ Rest(g, l, t) \in Nested(g)
         /\ SettledEnds(g)[Rest(g, l, t)] \subseteq SettledEnds(g)[l]
<1>. DEFINE r == Rest(g, l, t)
<1>1. l \in Loops /\ l.node \in AllNodes /\ Child(g, l) \in Followers
  BY LoopFields, StepTypes DEF Nested, Reached
<1>2. /\ r \in Loops /\ r.node = l.node /\ r.trail.left = t.left /\ r.trail.visited = t.visited
  BY <1>1, StepTypes, ComeUpTrail
<1>. HIDE DEF r
<1>3. Settled(g, r.trail) /\ Open(r.trail) = Open(l.trail)
  BY <1>2 DEF Settled, Open
<1>4. r \in Nested(g)
  BY <1>2, <1>3 DEF Nested, r
<1>5. SettledEnds(g)[r] \subseteq SettledEnds(g)[l]
  BY <1>1, <1>2 DEF SettledEnds, r
<1>. QED
  BY <1>4, <1>5 DEF r

LEMMA LoopsSettle ==
  ASSUME NEW g \in Wirings, Acyclic(g)
  PROVE  \A l \in Nested(g) : After(g)[l] \in SettledEnds(g)[l]
<1>. DEFINE P == Nested(g)
            Q == SettledEnds(g)
<1>1. P \in SUBSET Loops /\ P \subseteq Reached(g) /\ Q \in [Loops -> SUBSET Trails]
  BY DEF Nested, Reached, SettledEnds, Ended
<1>2. ASSUME NEW l \in P, Over(g, l) PROVE l.trail \in Q[l]
  <2>1. l \in Loops /\ l \in Reached(g) /\ After(g)[l] = l.trail
    BY <1>1, <1>2, AfterExists DEF Value
  <2>2. l.trail \in Ended(g)[l]
    BY <2>1, LoopsEnd
  <2>. QED
    BY <2>1, <2>2 DEF Nested, SettledEnds
<1>3. ASSUME NEW l \in P, ~Over(g, l), Child(g, l) \in l.trail.visited
      PROVE  /\ Rest(g, l, Down(g, l)) \in P
             /\ Q[Rest(g, l, Down(g, l))] \subseteq Q[l]
  <2>1. /\ l \in Loops /\ l \in Reached(g) /\ l.node \in AllNodes /\ l.trail \in Trails
        /\ Child(g, l) \in Followers
    BY <1>1, <1>3, LoopFields, StepTypes
  <2>2. /\ Down(g, l) \in Trails /\ Down(g, l).visited = l.trail.visited
        /\ Down(g, l).entered = l.trail.entered /\ Down(g, l).left = l.trail.left
    BY <2>1, GoDownTrail DEF Down
  <2>3. Orderly(g, Down(g, l)) /\ Open(Down(g, l)) = Open(l.trail)
    BY <2>1, <2>2, SameOrderly DEF Reached
  <2>4. /\ Rest(g, l, Down(g, l)) \in Reached(g)
        /\ Ended(g)[Rest(g, l, Down(g, l))] \subseteq Ended(g)[l]
    BY <1>3, <2>1, <2>2, <2>3, RestReached
  <2>5. Settled(g, Down(g, l))
    BY <2>2 DEF Nested, Settled
  <2>. QED
    BY <1>3, <2>2, <2>3, <2>4, <2>5, RestNested
<1>4. ASSUME NEW l \in P, ~Over(g, l), Child(g, l) \notin l.trail.visited
      PROVE  /\ Inner(g, l) \in P
             /\ \A t \in Q[Inner(g, l)] :
                  /\ Rest(g, l, Leave(t, Child(g, l))) \in P
                  /\ Q[Rest(g, l, Leave(t, Child(g, l)))] \subseteq Q[l]
  <2>. DEFINE c == Child(g, l)
              i == Inner(g, l)
  <2>1. /\ l \in Loops /\ l \in Reached(g) /\ l.node \in AllNodes /\ l.trail \in Trails
        /\ c \in Followers /\ c \in AllNodes /\ i \in Loops /\ i.node = c
    BY <1>1, <1>4, LoopFields, StepTypes, AllNodesFinite
  <2>2. c \in Range(g[l.node])
    BY <1>4, <2>1, ChildBelow
  <2>3. ASSUME NEW a \in Open(l.trail) PROVE c \in Below(g, a)
    <3>1. a = l.node \/ l.node \in Below(g, a)
      BY DEF Nested
    <3>2. a \in AllNodes
      BY <2>1, OpenNodes
    <3>. QED
      BY <2>2, <3>1, <3>2, BelowChild
  <2>4. i \in P
    <3>1. /\ i \in Reached(g) /\ Open(i.trail) = Open(l.trail) \cup {c}
          /\ i.trail.left = l.trail.left
      BY <1>4, <2>1, InnerReached
    <3>2. Settled(g, i.trail)
      BY <3>1 DEF Nested, Settled
    <3>3. \A a \in Open(i.trail) : a = c \/ c \in Below(g, a)
      BY <2>3, <3>1
    <3>. QED
      BY <2>1, <3>1, <3>2, <3>3 DEF Nested
  <2>5. ASSUME NEW t \in Q[i]
        PROVE  Rest(g, l, Leave(t, c)) \in P /\ Q[Rest(g, l, Leave(t, c))] \subseteq Q[l]
    <3>1. t \in Ended(g)[i] /\ Settled(g, t)
      BY <2>1 DEF SettledEnds
    <3>2. /\ t \in Trails /\ Orderly(g, t)
          /\ Leave(t, c) \in Trails
          /\ Orderly(g, Leave(t, c))
          /\ Open(t) = Open(l.trail) \cup {c}
          /\ Open(Leave(t, c)) = Open(l.trail)
          /\ l.trail.visited \subseteq Leave(t, c).visited
          /\ c \in Leave(t, c).visited
          /\ Range(g[c]) \subseteq t.visited
      BY <1>4, <2>1, <3>1, InnerEnded
    <3>3. \A o \in Range(g[c]) : o \notin Open(t)
      <4>1. ASSUME NEW o \in Range(g[c]), o \in Open(t) PROVE FALSE
        <5>1. o \in AllNodes /\ (o = c \/ o \in Open(l.trail))
          BY <3>2, <4>1, OpenNodes
        <5>2. o = c \/ c \in Below(g, o)
          BY <2>3, <5>1
        <5>3. o \in Below(g, o)
          BY <5>1, <5>2, BelowChild
        <5>. QED
          BY <5>1, <5>3 DEF Acyclic
      <4>. QED
        BY <4>1
    <3>4. Range(g[c]) \subseteq Range(t.left)
      BY <3>2, <3>3 DEF Open
    <3>5. Settled(g, Leave(t, c))
      BY <2>1, <3>1, <3>2, <3>4, SettledLeave
    <3>6. /\ Rest(g, l, Leave(t, c)) \in Reached(g)
          /\ Ended(g)[Rest(g, l, Leave(t, c))] \subseteq Ended(g)[l]
      BY <1>4, <2>1, <3>2, RestReached
    <3>. QED
      BY <1>4, <3>2, <3>5, <3>6, RestNested
  <2>. QED
    BY <2>4, <2>5
<1>. HIDE DEF P, Q
<1>5. \A l \in P : After(g)[l] \in Q[l]
  BY <1>1, <1>2, <1>3, <1>4, LoopInduction
<1>. QED
  BY <1>5 DEF P, Q

LEMMA WalkSettles ==
  ASSUME NEW g \in Wirings, Acyclic(g)
  PROVE  Settled(g, Traversal(g))
<1>. DEFINE l == Loop(Root, 1, Unbegun)
<1>1. l \in Loops /\ l.trail = Unbegun /\ l \in Reached(g) /\ Traversal(g) = After(g)[l]
  BY FirstLoop, FirstReached, AfterExists
<1>2. Unbegun.left = << >> /\ Unbegun.visited = {}
  BY DEF Unbegun
<1>3. DOMAIN << >> = {}
  BY EmptyRange
<1>4. Settled(g, Unbegun) /\ Open(Unbegun) = {}
  BY <1>2, <1>3 DEF Settled, Open
<1>5. l \in Nested(g)
  BY <1>1, <1>4 DEF Nested
<1>6. Traversal(g) \in SettledEnds(g)[l]
  BY <1>1, <1>5, LoopsSettle
<1>. QED
  BY <1>1, <1>6 DEF SettledEnds

\* What is below a node that is left is left before it.
LEMMA ObserversAreFirst ==
  ASSUME NEW g \in Wirings, Acyclic(g)
  PROVE  LET walk == NodesBackwards(g)
         IN  \A i, j \in DOMAIN walk : i < j => walk[j] \notin Below(g, walk[i])
<1>. DEFINE walk == NodesBackwards(g)
<1>1. walk \in Seq(Followers) /\ IsInjective(walk)
  BY WalkEnds DEF NodesBackwards, Orderly, Trails
<1>2. Len(walk) \in Nat /\ DOMAIN walk = 1 .. Len(walk) /\ \A i \in 1 .. Len(walk) : walk[i] \in Followers
  BY <1>1, SeqFacts
<1>3. \A j \in DOMAIN walk : \A o \in Range(g[walk[j]]) : \E i \in 1 .. (j - 1) : walk[i] = o
  BY WalkSettles DEF Settled, NodesBackwards
<1>. HIDE DEF walk
<1>4. ASSUME NEW i \in DOMAIN walk, NEW j \in DOMAIN walk, i < j PROVE walk[j] \notin Below(g, walk[i])
  <2>. DEFINE S == {walk[k] : k \in 1 .. (i - 1)}
  <2>1. Range(g[walk[i]]) \subseteq S
    BY <1>3
  <2>2. ClosedUnder(g, S)
    <3>1. ASSUME NEW m \in S, NEW o \in Range(g[m]) PROVE o \in S
      <4>1. PICK k \in 1 .. (i - 1) : m = walk[k]
        OBVIOUS
      <4>2. k \in DOMAIN walk
        BY <1>2, <4>1
      <4>3. PICK h \in 1 .. (k - 1) : walk[h] = o
        BY <1>3, <3>1, <4>1, <4>2
      <4>4. h \in 1 .. (i - 1)
        BY <1>2, <4>1, <4>3
      <4>. QED
        BY <4>3, <4>4
    <3>. QED
      BY <3>1 DEF ClosedUnder
  <2>3. walk[i] \in AllNodes
    BY <1>2, AllNodesFinite
  <2>4. Below(g, walk[i]) \subseteq S
    <3>. HIDE DEF S
    <3>. QED
      BY <2>1, <2>2, <2>3, BelowIsLeast
  <2>5. walk[j] \notin S
    <3>1. ASSUME NEW k \in 1 .. (i - 1), walk[k] = walk[j] PROVE FALSE
      <4>1. k \in DOMAIN walk /\ k # j
        BY <1>2, <1>4
      <4>. QED
        BY <1>1, <3>1, <4>1 DEF IsInjective
    <3>. QED
      BY <3>1
  <2>. QED
    BY <2>4, <2>5
<1>. QED
  BY <1>4 DEF walk

\* In a graph without cycles, whatever graph the program has built, the walk
\* backwards comes to a node after all the nodes below it.
THEOREM ObserversComeFirst == Spec => []ObserversFirst
<1>1. TypeInv => ObserversFirst
  BY ObserversAreFirst DEF TypeInv, ObserversFirst
<1>. QED
  BY <1>1, Typed, PTL

-----------------------------------------------------------------------------
(* A walk goes through the observers of a node in their order.             *)

\* The children of p in a list of connections.
Kids(walk, p) ==
  FoldLeft(LAMBDA kids, e : IF e.parent = p THEN Append(kids, e.child) ELSE kids, <<>>, walk)

Taking(p) ==
  [kids \in Seq(Followers) |->
     [e \in Connections |-> IF e.parent = p THEN Append(kids, e.child) ELSE kids]]

LEMMA KidsInSteps ==
  ASSUME NEW walk \in Seq(Connections), NEW p
  PROVE  /\ Taking(p) \in [Seq(Followers) -> [Connections -> Seq(Followers)]]
         /\ \E h : BySteps(Seq(Followers), Taking(p), << >>, walk, Kids(walk, p), h)
<1>. DEFINE H == Seq(Followers)
            D == 1 .. Len(walk)
            Take(kids, e) == IF e.parent = p THEN Append(kids, e.child) ELSE kids
            G == Taking(p)
            Body(f) == [T \in SUBSET D |->
                          IF T = {} THEN << >> ELSE Take(f[T \ {Max(T)}], walk[Max(T)])]
            f == CHOOSE f : f = Body(f)
<1>1. DOMAIN walk = D /\ Len(walk) \in Nat /\ \A i \in D : walk[i] \in Connections
  BY LenProperties, ElementOfSeq
<1>2. Kids(walk, p) = f[D]
  BY <1>1 DEF Kids, FoldLeft, MapThenFoldSet
<1>3. \A T \in SUBSET D : T # {} => Max(T) \in D
  BY <1>1, MaxOfSome
<1>4. \A kids \in H, e \in Connections : Take(kids, e) \in H /\ G[kids][e] = Take(kids, e)
  BY AppendProperties DEF Taking, Connections
<1>5. << >> \in H /\ G \in [H -> [Connections -> H]]
  BY <1>4, EmptySeq DEF Taking
<1>. HIDE DEF Take, G
<1>6. f = Body(f)
  <2>1. PICK k \in [SUBSET D -> H] : FoldsBy(G, << >>, walk, k)
    <3>. HIDE DEF H
    <3>. QED
      BY <1>5, FoldExists
  <2>2. \A T \in SUBSET D : k[T] = IF T = {} THEN << >> ELSE Take(k[T \ {Max(T)}], walk[Max(T)])
    BY <1>1, <1>3, <1>4, <2>1 DEF FoldsBy
  <2>3. k = Body(k)
    BY <2>1, <2>2
  <2>. QED
    BY <2>3
<1>. HIDE DEF f
<1>7. \A T \in SUBSET D : f[T] = IF T = {} THEN << >> ELSE Take(f[T \ {Max(T)}], walk[Max(T)])
  BY <1>6
<1>. HIDE DEF H
<1>8. FoldsIn(H, G, << >>, walk, f)
  BY <1>1, <1>3, <1>4, <1>7 DEF FoldsIn
<1>9. \E h : BySteps(H, G, << >>, walk, f[1 .. Len(walk)], h)
  BY <1>5, <1>8, FoldBySteps
<1>. QED
  BY <1>2, <1>5, <1>9 DEF H, G

LEMMA KidsType ==
  ASSUME NEW walk \in Seq(Connections), NEW p
  PROVE  Kids(walk, p) \in Seq(Followers)
<1>1. Len(walk) \in 0 .. Len(walk)
  BY LenProperties
<1>2. \E h \in [0 .. Len(walk) -> Seq(Followers)] : h[Len(walk)] = Kids(walk, p)
  BY KidsInSteps DEF BySteps
<1>. QED
  BY <1>1, <1>2

LEMMA KidsEmpty ==
  ASSUME NEW p
  PROVE  Kids(<< >>, p) = << >>
<1>1. << >> \in Seq(Connections)
  BY EmptySeq
<1>2. PICK h : BySteps(Seq(Followers), Taking(p), << >>, << >>, Kids(<< >>, p), h)
  BY <1>1, KidsInSteps
<1>. QED
  BY <1>2, FoldEmpty

LEMMA KidsAppend ==
  ASSUME NEW walk \in Seq(Connections), NEW e \in Connections, NEW p
  PROVE  Kids(Append(walk, e), p) =
           IF e.parent = p THEN Append(Kids(walk, p), e.child) ELSE Kids(walk, p)
<1>1. Append(walk, e) \in Seq(Connections) /\ Kids(walk, p) \in Seq(Followers)
  BY AppendFacts, KidsType
<1>2. Kids(Append(walk, e), p) = Taking(p)[Kids(walk, p)][e]
  <2>1. PICK h : BySteps(Seq(Followers), Taking(p), << >>, walk, Kids(walk, p), h)
    BY KidsInSteps
  <2>2. PICK k : BySteps(Seq(Followers), Taking(p), << >>, Append(walk, e),
                         Kids(Append(walk, e), p), k)
    BY <1>1, KidsInSteps
  <2>. QED
    BY <2>1, <2>2, FoldAppend
<1>. QED
  BY <1>1, <1>2 DEF Taking

LEMMA KidsMembers ==
  ASSUME NEW walk \in Seq(Connections), NEW p
  PROVE  \A e \in Range(walk) : e.parent = p => e.child \in Range(Kids(walk, p))
<1>. DEFINE P == {w \in Seq(Connections) :
                    \A e \in Range(w) : e.parent = p => e.child \in Range(Kids(w, p))}
<1>1. << >> \in P
  BY EmptySeq, EmptyRange
<1>2. ASSUME NEW w \in P, NEW e \in Connections PROVE Append(w, e) \in P
  <2>1. Append(w, e) \in Seq(Connections) /\ Range(Append(w, e)) = Range(w) \cup {e}
    BY AppendFacts
  <2>2. Kids(Append(w, e), p) = IF e.parent = p THEN Append(Kids(w, p), e.child) ELSE Kids(w, p)
    BY KidsAppend
  <2>3. Kids(w, p) \in Seq(Followers) /\ e.child \in Followers
    BY KidsType DEF Connections
  <2>4. Range(Append(Kids(w, p), e.child)) = Range(Kids(w, p)) \cup {e.child}
    BY <2>3, AppendFacts
  <2>. QED
    BY <2>1, <2>2, <2>4
<1>3. walk \in P
  <2>. HIDE DEF P
  <2>1. P \in SUBSET Seq(Connections)
    BY DEF P
  <2>. QED
    BY <1>1, <1>2, <2>1, AppendInduction
<1>. QED
  BY <1>3

\* What a walk lists: the connections down, up, or those by which it enters.
Listed(t, way) == CASE way = "down" -> t.down [] way = "up" -> t.up [] way = "entered" -> t.entered

Ways == {"down", "up", "entered"}

\* The observers of m that it has listed.
Those(t, way, m) == Kids(Listed(t, way), m)

LEMMA ListedType ==
  ASSUME NEW t \in Trails, NEW way \in Ways
  PROVE  Listed(t, way) \in Seq(Connections)
BY DEF Listed, Ways, Trails

LEMMA ThoseFacts ==
  ASSUME NEW t \in Trails, NEW way \in Ways, NEW m \in AllNodes,
         NEW p \in AllNodes, NEW c \in Followers
  PROVE  /\ Those(Enter(t, p, c), way, m) =
              IF way = "entered" /\ m = p THEN Append(Those(t, way, m), c) ELSE Those(t, way, m)
         /\ Those(Leave(t, c), way, m) = Those(t, way, m)
         /\ Those(GoDown(t, p, c), way, m) =
              IF way = "down" /\ p # Root /\ m = p THEN Append(Those(t, way, m), c)
              ELSE Those(t, way, m)
         /\ Those(ComeUp(t, p, c), way, m) =
              IF way = "up" /\ p # Root /\ m = p THEN Append(Those(t, way, m), c)
              ELSE Those(t, way, m)
<1>. DEFINE e == Connection(p, c)
<1>1. e \in Connections /\ e.parent = p /\ e.child = c
  BY ConnectionType DEF Connection
<1>2. t.down \in Seq(Connections) /\ t.up \in Seq(Connections) /\ t.entered \in Seq(Connections)
  BY DEF Trails
<1>. HIDE DEF e
<1>3. \A w \in Seq(Connections) :
        Kids(Append(w, e), m) = IF m = p THEN Append(Kids(w, m), c) ELSE Kids(w, m)
  BY <1>1, KidsAppend
<1>4. /\ Listed(Enter(t, p, c), way) =
           IF way = "entered" THEN Append(t.entered, e) ELSE Listed(t, way)
      /\ Listed(Leave(t, c), way) = Listed(t, way)
      /\ Listed(GoDown(t, p, c), way) =
           IF way = "down" /\ p # Root THEN Append(t.down, e) ELSE Listed(t, way)
      /\ Listed(ComeUp(t, p, c), way) =
           IF way = "up" /\ p # Root THEN Append(t.up, e) ELSE Listed(t, way)
  <2>1. /\ Enter(t, p, c).down = t.down /\ Enter(t, p, c).up = t.up
        /\ Enter(t, p, c).entered = Append(t.entered, e)
    BY DEF Enter, Trails, e
  <2>2. Leave(t, c).down = t.down /\ Leave(t, c).up = t.up /\ Leave(t, c).entered = t.entered
    BY DEF Leave, Trails
  <2>3. /\ GoDown(t, p, c).up = t.up /\ GoDown(t, p, c).entered = t.entered
        /\ GoDown(t, p, c).down = IF p # Root THEN Append(t.down, e) ELSE t.down
    BY DEF GoDown, Trails, e
  <2>4. /\ ComeUp(t, p, c).down = t.down /\ ComeUp(t, p, c).entered = t.entered
        /\ ComeUp(t, p, c).up = IF p # Root THEN Append(t.up, e) ELSE t.up
    BY DEF ComeUp, Trails, e
  <2>5. CASE way = "down"
    BY <2>1, <2>2, <2>3, <2>4, <2>5 DEF Listed
  <2>6. CASE way = "up"
    BY <2>1, <2>2, <2>3, <2>4, <2>6 DEF Listed
  <2>7. CASE way = "entered"
    BY <2>1, <2>2, <2>3, <2>4, <2>7 DEF Listed
  <2>. QED
    BY <2>5, <2>6, <2>7 DEF Ways
<1>5. /\ way = "down" => Listed(t, way) = t.down
      /\ way = "up" => Listed(t, way) = t.up
      /\ way = "entered" => Listed(t, way) = t.entered
  BY DEF Listed
<1>. QED
  BY <1>2, <1>3, <1>4, <1>5 DEF Those

\* A loop's node is open, or it is the root, which never is.
LEMMA LoopNode ==
  ASSUME NEW g \in Wirings, NEW l \in Reached(g)
  PROVE  /\ l \in Loops /\ l.node \in AllNodes /\ l.next \in Nat \ {0} /\ l.trail \in Trails
         /\ l.node \in Open(l.trail) <=> l.node # Root
         /\ \A m \in Open(l.trail) : m \in Followers /\ m \in AllNodes /\ m # Root
<1>1. l \in Loops /\ l.node \in AllNodes /\ l.next \in Nat \ {0} /\ l.trail \in Trails
  BY LoopFields DEF Reached
<1>2. \A m \in Open(l.trail) : m \in Followers /\ m \in AllNodes /\ m # Root
  BY <1>1, OpenNodes DEF Followers
<1>. QED
  BY <1>1, <1>2 DEF Reached

\* The observers of m are all listed, or none is, unless m is open.
AllListed(g, t, way, m) ==
  m \notin Open(t) => Those(t, way, m) = IF m \in t.visited THEN g[m] ELSE << >>

\* The loop over the observers of m has listed those it has passed.
Listing(g, way, m) ==
  {l \in Reached(g) :
     /\ AllListed(g, l.trail, way, m)
     /\ l.node = m /\ m # Root =>
          /\ l.next <= Len(g[m]) + 1
          /\ Those(l.trail, way, m) = SubSeq(g[m], 1, l.next - 1)}

\* It lists the others, and a loop inside it lists none of m.
ListedEnds(g, way, m) ==
  [l \in Loops |->
     {t \in Ended(g)[l] :
        /\ AllListed(g, t, way, m)
        /\ l.node = m /\ m # Root => Those(t, way, m) = g[m]
        /\ m \in Open(l.trail) \ {l.node} => Those(t, way, m) = Those(l.trail, way, m)}]

\* No other node below the root observes what m observes.
Sole(g, m) ==
  /\ m # Root
  /\ IsInjective(g[m])
  /\ \A o \in Range(g[m]) : \A n \in Walking(g) : o \in Range(g[n]) => n = m

Lists(g, way, m) == way = "entered" => Sole(g, m)

LEMMA RestListing ==
  ASSUME NEW g \in Wirings, NEW way \in Ways, NEW m \in AllNodes,
         NEW l \in Listing(g, way, m), ~Over(g, l),
         NEW t \in Trails, AllListed(g, t, way, m), Open(t) = Open(l.trail),
         m \in Open(l.trail) =>
           Those(t, way, m) = IF l.node = m /\ way # "up"
                              THEN Append(Those(l.trail, way, m), Child(g, l))
                              ELSE Those(l.trail, way, m),
         Rest(g, l, t) \in Reached(g), Ended(g)[Rest(g, l, t)] \subseteq Ended(g)[l]
  PROVE  /\ Rest(g, l, t) \in Listing(g, way, m)
         /\ ListedEnds(g, way, m)[Rest(g, l, t)] \subseteq ListedEnds(g, way, m)[l]
<1>. DEFINE r == Rest(g, l, t)
            n == l.node
            c == Child(g, l)
<1>1. /\ l \in Reached(g) /\ l \in Loops /\ n \in AllNodes /\ l.trail \in Trails
      /\ n \in Open(l.trail) <=> n # Root
  BY LoopNode DEF Listing
<1>2. c \in Followers /\ l.next \in 1 .. Len(g[n]) /\ l.next \in Nat /\ c = g[n][l.next]
  BY <1>1, StepTypes, LoopFields DEF Child
<1>3. /\ r \in Loops /\ r.node = n /\ r.next = l.next + 1
      /\ r.trail = ComeUp(t, n, c)
      /\ r.trail.left = t.left /\ r.trail.visited = t.visited
  BY <1>1, <1>2, StepTypes, ComeUpTrail
<1>. HIDE DEF r, c
<1>4. Open(r.trail) = Open(l.trail)
  BY <1>3 DEF Open
<1>5. Those(r.trail, way, m) = IF way = "up" /\ n # Root /\ m = n THEN Append(Those(t, way, m), c)
                               ELSE Those(t, way, m)
  <2>1. n \in AllNodes /\ c \in Followers
    BY <1>1, <1>2
  <2>. HIDE DEF n
  <2>2. Those(ComeUp(t, n, c), way, m) =
          IF way = "up" /\ n # Root /\ m = n THEN Append(Those(t, way, m), c) ELSE Those(t, way, m)
    BY <2>1, ThoseFacts
  <2>. QED
    BY <1>3, <2>2
<1>6. AllListed(g, r.trail, way, m)
  BY <1>1, <1>3, <1>4, <1>5 DEF AllListed
<1>7. m \in Open(l.trail) =>
        Those(r.trail, way, m) = IF n = m THEN Append(Those(l.trail, way, m), c)
                                 ELSE Those(l.trail, way, m)
  BY <1>1, <1>5 DEF c
<1>8. ASSUME n = m, m # Root
      PROVE  r.next <= Len(g[m]) + 1 /\ Those(r.trail, way, m) = SubSeq(g[m], 1, r.next - 1)
  <2>1. Those(l.trail, way, m) = SubSeq(g[m], 1, l.next - 1)
    BY <1>8 DEF Listing
  <2>2. g[m] \in Seq(Followers) /\ Len(g[m]) \in Nat
    BY ListFacts
  <2>3. SubSeq(g[m], 1, l.next) = SubSeq(g[m], 1, l.next - 1) \o << c >>
    <3>1. 1 \in 1 .. Len(g[m]) /\ l.next \in 1 .. Len(g[m]) /\ 1 <= l.next /\ c = g[m][l.next]
      BY <1>2, <1>8, <2>2
    <3>2. SubSeq(g[m], 1, l.next) = SubSeq(g[m], 1, l.next - 1) \o << g[m][l.next] >>
      BY <2>2, <3>1, SubSeqRecursiveSecond
    <3>. QED
      BY <3>1, <3>2
  <2>4. SubSeq(g[m], 1, l.next - 1) \in Seq(Followers)
    <3>1. \A i \in 1 .. (l.next - 1) : g[m][i] \in Followers
      BY <1>2, <1>8, ListFacts
    <3>. QED
      BY <1>2, <3>1, SubSeqProperties
  <2>5. Append(SubSeq(g[m], 1, l.next - 1), c) = SubSeq(g[m], 1, l.next)
    BY <1>2, <2>3, <2>4, AppendIsConcat
  <2>6. r.next - 1 = l.next /\ r.next <= Len(g[m]) + 1
    BY <1>2, <1>3, <1>8, <2>2
  <2>. QED
    BY <1>1, <1>7, <1>8, <2>1, <2>5, <2>6
<1>9. r \in Listing(g, way, m)
  BY <1>3, <1>6, <1>8 DEF Listing, r
<1>10. ASSUME NEW u \in ListedEnds(g, way, m)[r] PROVE u \in ListedEnds(g, way, m)[l]
  <2>1. /\ u \in Ended(g)[r] /\ AllListed(g, u, way, m)
        /\ n = m /\ m # Root => Those(u, way, m) = g[m]
        /\ m \in Open(r.trail) \ {n} => Those(u, way, m) = Those(r.trail, way, m)
    BY <1>3, <1>10 DEF ListedEnds
  <2>2. m \in Open(l.trail) \ {n} => Those(u, way, m) = Those(l.trail, way, m)
    BY <1>4, <1>7, <2>1
  <2>3. u \in Ended(g)[l]
    BY <2>1 DEF r
  <2>. QED
    BY <1>1, <2>1, <2>2, <2>3 DEF ListedEnds
<1>. QED
  BY <1>9, <1>10 DEF r

\* The observers listed when a loop has gone down to a child.
LEMMA DownLists ==
  ASSUME NEW g \in Wirings, NEW way \in Ways, NEW m \in AllNodes, NEW l \in Reached(g), ~Over(g, l)
  PROVE  /\ Those(Down(g, l), way, m) =
              IF way = "down" /\ l.node # Root /\ m = l.node
              THEN Append(Those(l.trail, way, m), Child(g, l)) ELSE Those(l.trail, way, m)
         /\ Those(Inner(g, l).trail, way, m) =
              IF way = "entered" /\ m = l.node
              THEN Append(Those(Down(g, l), way, m), Child(g, l)) ELSE Those(Down(g, l), way, m)
<1>1. l.node \in AllNodes /\ l.trail \in Trails /\ l \in Loops
  BY LoopNode
<1>2. /\ Child(g, l) \in Followers /\ Down(g, l) \in Trails
      /\ Inner(g, l).trail = Enter(Down(g, l), l.node, Child(g, l))
  BY <1>1, StepTypes
<1>. DEFINE n == l.node
            c == Child(g, l)
            t == l.trail
            d == Down(g, l)
<1>3. n \in AllNodes /\ c \in Followers /\ t \in Trails /\ d \in Trails /\ d = GoDown(t, n, c)
  BY <1>1, <1>2 DEF Down
<1>. HIDE DEF n, c, t, d
<1>4. Those(GoDown(t, n, c), way, m) =
        IF way = "down" /\ n # Root /\ m = n THEN Append(Those(t, way, m), c) ELSE Those(t, way, m)
  BY <1>3, ThoseFacts
<1>5. Those(Enter(d, n, c), way, m) =
        IF way = "entered" /\ m = n THEN Append(Those(d, way, m), c) ELSE Those(d, way, m)
  BY <1>3, ThoseFacts
<1>. QED
  BY <1>2, <1>3, <1>4, <1>5 DEF n, c, t, d

LEMMA InnerListing ==
  ASSUME NEW g \in Wirings, NEW way \in Ways, NEW m \in AllNodes, Lists(g, way, m),
         NEW l \in Listing(g, way, m), ~Over(g, l), Child(g, l) \notin l.trail.visited
  PROVE  /\ Inner(g, l) \in Listing(g, way, m)
         /\ Those(Inner(g, l).trail, way, m) =
              IF way # "up" /\ l.node = m /\ m # Root
              THEN Append(Those(l.trail, way, m), Child(g, l)) ELSE Those(l.trail, way, m)
<1>. DEFINE n == l.node
            c == Child(g, l)
            i == Inner(g, l)
<1>1. /\ l \in Reached(g) /\ l \in Loops /\ n \in AllNodes /\ l.trail \in Trails
      /\ n \in Open(l.trail) <=> n # Root
  BY LoopNode DEF Listing
<1>2. c \in Followers /\ c \in AllNodes /\ i.node = c /\ i.next = 1
  BY <1>1, StepTypes, AllNodesFinite
<1>3. /\ i \in Reached(g) /\ Open(i.trail) = Open(l.trail) \cup {c}
      /\ i.trail.visited = l.trail.visited \cup {c}
  BY <1>1, InnerReached
<1>4. Those(i.trail, way, m) =
        IF way # "up" /\ n = m /\ m # Root
        THEN Append(Those(l.trail, way, m), c) ELSE Those(l.trail, way, m)
  <2>1. /\ Those(Down(g, l), way, m) =
              IF way = "down" /\ n # Root /\ m = n
              THEN Append(Those(l.trail, way, m), c) ELSE Those(l.trail, way, m)
        /\ Those(i.trail, way, m) =
              IF way = "entered" /\ m = n
              THEN Append(Those(Down(g, l), way, m), c) ELSE Those(Down(g, l), way, m)
    BY <1>1, DownLists
  <2>. QED
    BY <2>1 DEF Ways, Lists, Sole
<1>5. AllListed(g, l.trail, way, m) /\ c \notin Open(l.trail)
  BY DEF Listing, Open
<1>. HIDE DEF i, c, n
<1>6. AllListed(g, i.trail, way, m)
  BY <1>1, <1>3, <1>4, <1>5 DEF AllListed
<1>7. ASSUME c = m, m # Root
      PROVE  1 <= Len(g[m]) + 1 /\ Those(i.trail, way, m) = SubSeq(g[m], 1, 1 - 1)
  <2>1. Those(i.trail, way, m) = << >>
    BY <1>1, <1>4, <1>5, <1>7 DEF AllListed, c
  <2>2. SubSeq(g[m], 1, 1 - 1) = << >>
    BY SubSeqEmpty
  <2>3. Len(g[m]) \in Nat
    BY ListFacts
  <2>. QED
    BY <2>1, <2>2, <2>3
<1>8. i \in Listing(g, way, m)
  BY <1>2, <1>3, <1>6, <1>7 DEF Listing
<1>. QED
  BY <1>4, <1>8 DEF i, c, n

\* The observers listed when the loop is back from a child that it has entered.
LEMMA LeaveLists ==
  ASSUME NEW g \in Wirings, NEW way \in Ways, NEW m \in AllNodes, Lists(g, way, m),
         NEW l \in Listing(g, way, m), ~Over(g, l), Child(g, l) \notin l.trail.visited,
         NEW t \in ListedEnds(g, way, m)[Inner(g, l)]
  PROVE  /\ AllListed(g, Leave(t, Child(g, l)), way, m)
         /\ m \in Open(l.trail) =>
              Those(Leave(t, Child(g, l)), way, m) =
                IF l.node = m /\ way # "up"
                THEN Append(Those(l.trail, way, m), Child(g, l)) ELSE Those(l.trail, way, m)
<1>. DEFINE n == l.node
            c == Child(g, l)
            i == Inner(g, l)
            u == Leave(t, c)
<1>1. /\ l \in Reached(g) /\ l \in Loops /\ n \in AllNodes
      /\ \A x \in Open(l.trail) : x # Root
  BY LoopNode DEF Listing
<1>2. c \in Followers /\ c # Root /\ i \in Loops /\ i.node = c
  BY <1>1, StepTypes DEF Followers
<1>3. Open(i.trail) = Open(l.trail) \cup {c} /\ c \notin Open(l.trail)
  BY <1>1, InnerReached DEF Open
<1>4. /\ t \in Ended(g)[i] /\ AllListed(g, t, way, m)
      /\ c = m /\ m # Root => Those(t, way, m) = g[m]
      /\ m \in Open(i.trail) \ {c} => Those(t, way, m) = Those(i.trail, way, m)
  BY <1>2 DEF ListedEnds
<1>5. /\ t \in Trails /\ u \in Trails /\ u.visited = t.visited
      /\ Open(t) = Open(l.trail) \cup {c} /\ Open(u) = Open(l.trail)
      /\ c \in u.visited
  BY <1>1, <1>2, <1>4, InnerEnded, LeaveTrail
<1>6. Those(i.trail, way, m) =
        IF way # "up" /\ n = m /\ m # Root
        THEN Append(Those(l.trail, way, m), c) ELSE Those(l.trail, way, m)
  BY InnerListing
<1>. HIDE DEF c, i
<1>7. Those(u, way, m) = Those(t, way, m)
  BY <1>1, <1>2, <1>5, ThoseFacts
<1>. HIDE DEF u
<1>8. AllListed(g, u, way, m)
  BY <1>2, <1>4, <1>5, <1>7 DEF AllListed
<1>9. m \in Open(l.trail) =>
        Those(u, way, m) = IF n = m /\ way # "up"
                           THEN Append(Those(l.trail, way, m), c) ELSE Those(l.trail, way, m)
  BY <1>1, <1>3, <1>4, <1>6, <1>7
<1>. QED
  BY <1>8, <1>9 DEF u, c

\* The only node that observes a child enters it, at its turn.
LEMMA SoleChild ==
  ASSUME NEW g \in Wirings, NEW m \in AllNodes, Sole(g, m),
         NEW l \in Listing(g, "entered", m), ~Over(g, l), l.node = m
  PROVE  Child(g, l) \notin l.trail.visited
<1>. DEFINE c == Child(g, l)
            s == l.trail.entered
<1>1. SUFFICES ASSUME c \in l.trail.visited PROVE FALSE
  OBVIOUS
<1>2. l \in Reached(g) /\ l \in Loops /\ l.trail \in Trails /\ s \in Seq(Connections)
  BY LoopNode DEF Listing, Trails
<1>3. PICK i \in 1 .. Len(s) : s[i].child = c
  <2>1. c \in Range(Children(s))
    BY <1>1, <1>2 DEF Reached, Orderly
  <2>. QED
    BY <1>2, <2>1, ChildrenFacts, SeqFacts
<1>4. s[i] \in Range(s) /\ s[i].parent \in Walking(g) /\ c \in Range(g[s[i].parent])
  BY <1>2, <1>3, SeqFacts DEF Reached, Orderly
<1>5. c \in Range(g[m])
  BY <1>2, ChildBelow
<1>6. s[i].parent = m
  BY <1>4, <1>5 DEF Sole
<1>7. c \in Range(Kids(s, m))
  BY <1>2, <1>3, <1>4, <1>6, KidsMembers
<1>8. Kids(s, m) = SubSeq(g[m], 1, l.next - 1)
  BY DEF Listing, Sole, Those, Listed
<1>9. l.next \in 1 .. Len(g[m]) /\ l.next \in Nat /\ c = g[m][l.next]
  BY <1>2, StepTypes, LoopFields DEF Child
<1>10. PICK j \in 1 .. (l.next - 1) : c = g[m][j]
  <2>1. \A j \in 1 .. (l.next - 1) : g[m][j] \in Followers
    BY <1>9, ListFacts
  <2>2. /\ SubSeq(g[m], 1, l.next - 1) \in Seq(Followers)
        /\ Len(SubSeq(g[m], 1, l.next - 1)) = IF 1 <= l.next - 1 THEN (l.next - 1) - 1 + 1 ELSE 0
        /\ \A j \in 1 .. ((l.next - 1) - 1 + 1) : SubSeq(g[m], 1, l.next - 1)[j] = g[m][1 + j - 1]
    BY <1>9, <2>1, SubSeqProperties
  <2>3. PICK j \in 1 .. Len(SubSeq(g[m], 1, l.next - 1)) : SubSeq(g[m], 1, l.next - 1)[j] = c
    <3>. DEFINE passed == SubSeq(g[m], 1, l.next - 1)
    <3>1. passed \in Seq(Followers) /\ c \in Range(passed)
      BY <1>7, <1>8, <2>2
    <3>. HIDE DEF passed
    <3>2. DOMAIN passed = 1 .. Len(passed)
      BY <3>1, SeqFacts
    <3>3. \E j \in 1 .. Len(passed) : passed[j] = c
      BY <3>1, <3>2 DEF Range
    <3>. QED
      BY <3>3 DEF passed
  <2>. QED
    BY <1>9, <2>2, <2>3
<1>11. j # l.next /\ j \in DOMAIN g[m] /\ l.next \in DOMAIN g[m]
  BY <1>9, <1>10, ListFacts
<1>. QED
  BY <1>9, <1>10, <1>11 DEF Sole, IsInjective

LEMMA LoopsList ==
  ASSUME NEW g \in Wirings, NEW way \in Ways, NEW m \in AllNodes, Lists(g, way, m)
  PROVE  \A l \in Listing(g, way, m) : After(g)[l] \in ListedEnds(g, way, m)[l]
<1>. DEFINE P == Listing(g, way, m)
            Q == ListedEnds(g, way, m)
<1>1. P \in SUBSET Loops /\ P \subseteq Reached(g) /\ Q \in [Loops -> SUBSET Trails]
  BY DEF Listing, Reached, ListedEnds, Ended
<1>2. ASSUME NEW l \in P, Over(g, l) PROVE l.trail \in Q[l]
  <2>1. /\ l \in Loops /\ l \in Reached(g) /\ After(g)[l] = l.trail
        /\ l.node \in AllNodes /\ l.next \in Nat
    BY <1>1, <1>2, AfterExists, LoopFields DEF Value
  <2>2. l.trail \in Ended(g)[l]
    BY <2>1, LoopsEnd
  <2>3. ASSUME l.node = m, m # Root PROVE Those(l.trail, way, m) = g[m]
    <3>1. /\ l.next <= Len(g[m]) + 1
          /\ Those(l.trail, way, m) = SubSeq(g[m], 1, l.next - 1)
      BY <2>3 DEF Listing
    <3>2. g[m] \in Seq(Followers) /\ Len(g[m]) \in Nat
      BY ListFacts
    <3>3. l.next - 1 = Len(g[m])
      BY <1>2, <2>1, <2>3, <3>1, <3>2 DEF Over
    <3>. QED
      BY <3>1, <3>2, <3>3, SubSeqFull
  <2>. QED
    BY <2>1, <2>2, <2>3 DEF Listing, ListedEnds
<1>3. ASSUME NEW l \in P, ~Over(g, l), Child(g, l) \in l.trail.visited
      PROVE  /\ Rest(g, l, Down(g, l)) \in P
             /\ Q[Rest(g, l, Down(g, l))] \subseteq Q[l]
  <2>1. /\ l \in Loops /\ l \in Reached(g) /\ l.node \in AllNodes /\ l.trail \in Trails
        /\ Child(g, l) \in Followers /\ l \in Listing(g, way, m)
        /\ l.node \in Open(l.trail) <=> l.node # Root
    BY <1>1, <1>3, LoopNode, StepTypes
  <2>2. /\ Down(g, l) \in Trails /\ Down(g, l).visited = l.trail.visited
        /\ Down(g, l).entered = l.trail.entered /\ Down(g, l).left = l.trail.left
    BY <2>1, GoDownTrail DEF Down
  <2>3. Orderly(g, Down(g, l)) /\ Open(Down(g, l)) = Open(l.trail)
    BY <2>1, <2>2, SameOrderly DEF Reached
  <2>4. /\ Rest(g, l, Down(g, l)) \in Reached(g)
        /\ Ended(g)[Rest(g, l, Down(g, l))] \subseteq Ended(g)[l]
    BY <1>3, <2>1, <2>2, <2>3, RestReached
  <2>5. Those(Down(g, l), way, m) =
              IF way = "down" /\ l.node # Root /\ m = l.node
              THEN Append(Those(l.trail, way, m), Child(g, l)) ELSE Those(l.trail, way, m)
    BY <1>3, <2>1, DownLists
  <2>6. AllListed(g, Down(g, l), way, m)
    BY <2>1, <2>2, <2>3, <2>5 DEF Listing, AllListed
  <2>7. ~ (l.node = m /\ way = "entered")
    BY <1>3, <2>1, SoleChild DEF Lists
  <2>8. m \in Open(l.trail) =>
          Those(Down(g, l), way, m) = IF l.node = m /\ way # "up"
                                      THEN Append(Those(l.trail, way, m), Child(g, l))
                                      ELSE Those(l.trail, way, m)
    BY <2>1, <2>5, <2>7 DEF Ways
  <2>. HIDE DEF P, Q
  <2>9. /\ Rest(g, l, Down(g, l)) \in Listing(g, way, m)
        /\ ListedEnds(g, way, m)[Rest(g, l, Down(g, l))] \subseteq ListedEnds(g, way, m)[l]
    BY <1>3, <2>1, <2>2, <2>3, <2>4, <2>6, <2>8, RestListing
  <2>. QED
    BY <2>9 DEF P, Q
<1>4. ASSUME NEW l \in P, ~Over(g, l), Child(g, l) \notin l.trail.visited
      PROVE  /\ Inner(g, l) \in P
             /\ \A t \in Q[Inner(g, l)] :
                  /\ Rest(g, l, Leave(t, Child(g, l))) \in P
                  /\ Q[Rest(g, l, Leave(t, Child(g, l)))] \subseteq Q[l]
  <2>. DEFINE c == Child(g, l)
              i == Inner(g, l)
  <2>1. l \in Reached(g) /\ l \in Listing(g, way, m) /\ l \in Loops /\ i \in Loops
    BY <1>1, <1>4, StepTypes
  <2>2. i \in P
    BY <1>4, <2>1, InnerListing
  <2>3. ASSUME NEW t \in Q[i]
        PROVE  Rest(g, l, Leave(t, c)) \in P /\ Q[Rest(g, l, Leave(t, c))] \subseteq Q[l]
    <3>1. t \in Ended(g)[i]
      BY <2>1, <2>3 DEF ListedEnds
    <3>2. /\ Leave(t, c) \in Trails
          /\ Orderly(g, Leave(t, c))
          /\ Open(Leave(t, c)) = Open(l.trail)
          /\ l.trail.visited \subseteq Leave(t, c).visited
          /\ c \in Leave(t, c).visited
      BY <1>4, <2>1, <3>1, InnerEnded
    <3>3. /\ Rest(g, l, Leave(t, c)) \in Reached(g)
          /\ Ended(g)[Rest(g, l, Leave(t, c))] \subseteq Ended(g)[l]
      BY <1>4, <2>1, <3>2, RestReached
    <3>4. /\ AllListed(g, Leave(t, c), way, m)
          /\ m \in Open(l.trail) =>
               Those(Leave(t, c), way, m) = IF l.node = m /\ way # "up"
                                            THEN Append(Those(l.trail, way, m), c)
                                            ELSE Those(l.trail, way, m)
      BY <1>4, <2>1, <2>3, LeaveLists
    <3>5. /\ Rest(g, l, Leave(t, c)) \in Listing(g, way, m)
          /\ ListedEnds(g, way, m)[Rest(g, l, Leave(t, c))] \subseteq ListedEnds(g, way, m)[l]
      BY <1>4, <2>1, <3>2, <3>3, <3>4, RestListing
    <3>. QED
      BY <3>5
  <2>. QED
    BY <2>2, <2>3
<1>. HIDE DEF P, Q
<1>5. \A l \in P : After(g)[l] \in Q[l]
  BY <1>1, <1>2, <1>3, <1>4, LoopInduction
<1>. QED
  BY <1>5 DEF P, Q

\* A walk lists the observers of each node below the root, in their order.
LEMMA WalkLists ==
  ASSUME NEW g \in Wirings, NEW way \in Ways, NEW m \in AllNodes, Lists(g, way, m)
  PROVE  /\ Listed(Traversal(g), way) \in Seq(Connections)
         /\ Kids(Listed(Traversal(g), way), m) = IF m \in Below(g, Root) THEN g[m] ELSE << >>
<1>. DEFINE l == Loop(Root, 1, Unbegun)
            t == Traversal(g)
<1>1. /\ l \in Loops /\ l.node = Root /\ l.trail = Unbegun /\ l \in Reached(g)
      /\ t = After(g)[l]
  BY FirstLoop, FirstReached, AfterExists
<1>2. /\ Unbegun.visited = {} /\ Unbegun.down = << >> /\ Unbegun.up = << >>
      /\ Unbegun.entered = << >>
  BY DEF Unbegun
<1>3. Listed(Unbegun, way) = << >>
  BY <1>2 DEF Listed, Ways
<1>4. l \in Listing(g, way, m)
  <2>1. AllListed(g, Unbegun, way, m)
    BY <1>2, <1>3, KidsEmpty DEF AllListed, Those
  <2>. QED
    BY <1>1, <2>1 DEF Listing
<1>5. t \in ListedEnds(g, way, m)[l]
  BY <1>1, <1>4, LoopsList
<1>6. AllListed(g, t, way, m) /\ Open(t) = Open(Unbegun)
  BY <1>1, <1>5 DEF ListedEnds, Ended
<1>7. Open(t) = {}
  BY <1>2, <1>6 DEF Open
<1>8. t.visited = Below(g, Root) /\ t \in Trails
  BY WalkEnds
<1>. HIDE DEF t
<1>9. Those(t, way, m) = IF m \in Below(g, Root) THEN g[m] ELSE << >>
  BY <1>6, <1>7, <1>8 DEF AllListed
<1>. QED
  BY <1>8, <1>9, ListedType DEF Those, t

-----------------------------------------------------------------------------
(* So every connection below the root is reported once.                    *)

LEMMA TimesType ==
  ASSUME NEW S, NEW s \in Seq(S), NEW x
  PROVE  /\ IsFiniteSet({i \in DOMAIN s : s[i] = x})
         /\ Times(s, x) \in Nat
<1>1. DOMAIN s = 1 .. Len(s) /\ Len(s) \in Nat
  BY SeqFacts
<1>2. IsFiniteSet(1 .. Len(s)) /\ {i \in DOMAIN s : s[i] = x} \in SUBSET (1 .. Len(s))
  BY <1>1, FS_Interval
<1>3. IsFiniteSet({i \in DOMAIN s : s[i] = x})
  BY <1>2, FS_Subset
<1>. QED
  BY <1>3, FS_CardinalityType DEF Times

LEMMA TimesOfNone ==
  ASSUME NEW s, NEW x, \A i \in DOMAIN s : s[i] # x
  PROVE  Times(s, x) = 0
<1>1. {i \in DOMAIN s : s[i] = x} = {}
  OBVIOUS
<1>. QED
  BY <1>1, FS_EmptySet DEF Times

LEMMA TimesOfAppend ==
  ASSUME NEW S, NEW s \in Seq(S), NEW e \in S, NEW x
  PROVE  Times(Append(s, e), x) = IF e = x THEN Times(s, x) + 1 ELSE Times(s, x)
<1>. DEFINE u == Append(s, e)
            A == {i \in DOMAIN s : s[i] = x}
            B == {i \in DOMAIN u : u[i] = x}
            n == Len(s) + 1
<1>1. /\ Len(s) \in Nat /\ DOMAIN s = 1 .. Len(s) /\ DOMAIN u = 1 .. n
      /\ \A i \in 1 .. Len(s) : u[i] = s[i]
      /\ u[n] = e
  BY SeqFacts, AppendFacts
<1>2. IsFiniteSet(A)
  BY TimesType
<1>3. n \notin A
  BY <1>1
<1>. HIDE DEF u
<1>4. CASE e = x
  <2>1. B = A \cup {n}
    BY <1>1, <1>4
  <2>. HIDE DEF A, B, n
  <2>2. Cardinality(B) = Cardinality(A) + 1
    BY <1>2, <1>3, <2>1, FS_AddElement
  <2>. QED
    BY <1>4, <2>2 DEF Times, A, B, u
<1>5. CASE e # x
  <2>1. B = A
    BY <1>1, <1>5
  <2>. QED
    BY <1>5, <2>1 DEF Times, u
<1>. QED
  BY <1>4, <1>5

LEMMA KidsTimes ==
  ASSUME NEW walk \in Seq(Connections), NEW p, NEW o
  PROVE  Times(walk, Connection(p, o)) = Times(Kids(walk, p), o)
<1>. DEFINE x == Connection(p, o)
            P == {w \in Seq(Connections) : Times(w, x) = Times(Kids(w, p), o)}
<1>1. << >> \in P
  BY EmptySeq, KidsEmpty, EmptyRange, TimesOfNone
<1>2. ASSUME NEW w \in P, NEW e \in Connections PROVE Append(w, e) \in P
  <2>1. /\ Append(w, e) \in Seq(Connections) /\ Kids(w, p) \in Seq(Followers)
        /\ e.child \in Followers
        /\ e = x <=> e.parent = p /\ e.child = o
    <3>1. Append(w, e) \in Seq(Connections) /\ Kids(w, p) \in Seq(Followers)
      BY AppendFacts, KidsType
    <3>2. e.child \in Followers /\ e = [parent |-> e.parent, child |-> e.child]
      BY DEF Connections
    <3>3. e = x <=> e.parent = p /\ e.child = o
      BY <3>2 DEF Connection
    <3>. QED
      BY <3>1, <3>2, <3>3
  <2>. HIDE DEF x
  <2>2. Times(Append(w, e), x) = IF e = x THEN Times(w, x) + 1 ELSE Times(w, x)
    BY TimesOfAppend
  <2>3. Times(Append(Kids(w, p), e.child), o) =
          IF e.child = o THEN Times(Kids(w, p), o) + 1 ELSE Times(Kids(w, p), o)
    BY <2>1, TimesOfAppend
  <2>4. Kids(Append(w, e), p) = IF e.parent = p THEN Append(Kids(w, p), e.child) ELSE Kids(w, p)
    BY KidsAppend
  <2>5. Times(Append(w, e), x) = Times(Kids(Append(w, e), p), o)
    BY <2>1, <2>2, <2>3, <2>4
  <2>. QED
    BY <2>1, <2>5
<1>3. walk \in P
  <2>. HIDE DEF P
  <2>1. P \in SUBSET Seq(Connections)
    BY DEF P
  <2>. QED
    BY <1>1, <1>2, <2>1, AppendInduction
<1>. QED
  BY <1>3

LEMMA WalksAreOnce ==
  ASSUME TypeInv
  PROVE  WalkedOnce
<1>. DEFINE g == observers
            t == Traversal(g)
<1>1. g \in Wirings
  BY DEF TypeInv
<1>2. /\ IsInjective(Children(t.entered)) /\ Range(Children(t.entered)) = Below(g, Root)
      /\ IsInjective(t.left) /\ Range(t.left) = Below(g, Root)
  BY <1>1, WalkEnds DEF Orderly
<1>3. \A walk \in {NodesForwards(g), NodesBackwards(g)} :
        IsInjective(walk) /\ Range(walk) = Below(g, Root)
  BY <1>2 DEF NodesForwards, NodesBackwards
<1>4. ASSUME NEW n \in AllNodes, NEW o \in AllNodes
      PROVE  /\ Times(t.down, Connection(n, o)) = IF n \in Below(g, Root) THEN Times(g[n], o) ELSE 0
             /\ Times(t.up, Connection(n, o)) = IF n \in Below(g, Root) THEN Times(g[n], o) ELSE 0
  <2>1. /\ t.down \in Seq(Connections) /\ t.up \in Seq(Connections)
        /\ Kids(t.down, n) = IF n \in Below(g, Root) THEN g[n] ELSE << >>
        /\ Kids(t.up, n) = IF n \in Below(g, Root) THEN g[n] ELSE << >>
    <3>1. Listed(t, "down") = t.down /\ Listed(t, "up") = t.up
      BY DEF Listed
    <3>2. Lists(g, "down", n) /\ Lists(g, "up", n)
      BY DEF Lists
    <3>. QED
      BY <1>1, <3>1, <3>2, WalkLists DEF Ways
  <2>2. Times(<< >>, o) = 0
    BY EmptyRange, TimesOfNone
  <2>. QED
    BY <2>1, <2>2, KidsTimes
<1>5. \A walk \in {ConnectionsForwards(g), ConnectionsBackwards(g)}, n, o \in AllNodes :
        Times(walk, Connection(n, o)) = IF n \in Below(g, Root) THEN Times(g[n], o) ELSE 0
  <2>1. ConnectionsForwards(g) = t.down /\ ConnectionsBackwards(g) = t.up
    BY DEF ConnectionsForwards, ConnectionsBackwards
  <2>. HIDE DEF g, t
  <2>. QED
    BY <1>4, <2>1
<1>. QED
  BY <1>3, <1>5 DEF WalkedOnce

\* Whatever graph the program has built, with cycles, several paths to a node
\* and repeated connections, a walk calls node_fun once for each node below the
\* root, and connection_fun once for each of their connections.
THEOREM WalksOnce == Spec => []WalkedOnce
<1>1. TypeInv => WalkedOnce
  BY WalksAreOnce
<1>. QED
  BY <1>1, Typed, PTL

-----------------------------------------------------------------------------
(* The filter.                                                             *)

LEMMA CutLists ==
  ASSUME NEW g \in Wirings, NEW Rejected, NEW h \in Wirings,
         NEW p \in AllNodes, NEW c \in Followers, c \in Rejected, NEW n \in AllNodes
  PROVE  Cut(g, Rejected, h, Connection(p, c))[n] =
           IF n = p THEN Without(h[p], c) \o g[c] ELSE h[n]
<1>1. Cut(g, Rejected, h, Connection(p, c)) = Spliced(h, p, c, g[c])
  BY DEF Cut, CutFrom, Connection
<1>2. PICK d \in Wirings : d = Disconnected(h, p, c)
  BY DisconnectedType
<1>3. d[p] = Without(h[p], c) /\ (n # p => d[n] = h[n])
  BY <1>2 DEF Disconnected, Wirings
<1>4. Spliced(h, p, c, g[c])[n] = IF n = p THEN d[p] \o g[c] ELSE d[n]
  BY <1>2 DEF Spliced, Wirings
<1>. QED
  BY <1>1, <1>3, <1>4

\* Each rejected node has one parent at most, and that is kept.
Sparse(g, Rejected) ==
  \A r \in Rejected : \A p, q \in Parents(g, r) : p = q /\ p \notin Rejected

\* The observers of n when the filter has entered the nodes in gone.
Kept(g, Rejected, gone, n) ==
  (Range(g[n]) \ (Rejected \cap gone))
    \cup UNION {Range(g[r]) : r \in Rejected \cap gone \cap Range(g[n])}

Pruned(g, Rejected, gone, h) ==
  \A n \in Walking(g) \ Rejected : Range(h[n]) = Kept(g, Rejected, gone, n)

Gone(s, k) == {s[i].child : i \in 1 .. k}

LEMMA WalkingNodes ==
  ASSUME NEW g \in Wirings
  PROVE  /\ Root \in Walking(g) /\ Below(g, Root) \subseteq Walking(g)
         /\ Walking(g) \subseteq AllNodes
         /\ \A n \in Walking(g) : Range(g[n]) \subseteq Below(g, Root)
         /\ \A r, n : n \in Parents(g, r) <=> n \in Walking(g) /\ r \in Range(g[n])
<1>1. /\ Below(g, Root) \subseteq Followers /\ Range(g[Root]) \subseteq Below(g, Root)
      /\ \A m \in Below(g, Root) : Range(g[m]) \subseteq Below(g, Root)
  BY BelowIsLeast, AllNodesFinite DEF ClosedUnder
<1>. QED
  BY <1>1, AllNodesFinite DEF Walking, Parents

\* No observer of a rejected node is rejected.
LEMMA RejectedApart ==
  ASSUME NEW g \in Wirings, NEW Rejected, Sparse(g, Rejected),
         NEW r \in Rejected, r \in Walking(g), NEW o \in Range(g[r])
  PROVE  o \notin Rejected
<1>1. r \in Parents(g, o)
  BY WalkingNodes
<1>. QED
  BY <1>1 DEF Sparse

LEMMA CutPrunes ==
  ASSUME NEW g \in Wirings, NEW Rejected \in SUBSET Followers, Sparse(g, Rejected),
         NEW gone \in SUBSET Below(g, Root), NEW h \in Wirings, Pruned(g, Rejected, gone, h),
         NEW p \in Walking(g), NEW c \in Range(g[p])
  PROVE  Pruned(g, Rejected, gone \cup {c}, Cut(g, Rejected, h, Connection(p, c)))
<1>. DEFINE d == Cut(g, Rejected, h, Connection(p, c))
<1>1. p \in AllNodes /\ c \in Below(g, Root) /\ c \in Followers /\ c \in AllNodes
  BY WalkingNodes, BelowIsLeast, AllNodesFinite
<1>2. SUFFICES ASSUME NEW n \in Walking(g), n \notin Rejected
               PROVE  Range(d[n]) = Kept(g, Rejected, gone \cup {c}, n)
  BY DEF Pruned
<1>3. n \in AllNodes /\ Range(h[n]) = Kept(g, Rejected, gone, n)
  BY <1>2, WalkingNodes DEF Pruned
<1>4. CASE c \notin Rejected
  <2>1. d = h
    BY <1>4 DEF Cut, Connection
  <2>2. Kept(g, Rejected, gone \cup {c}, n) = Kept(g, Rejected, gone, n)
    BY <1>4 DEF Kept
  <2>. QED
    BY <1>3, <2>1, <2>2
<1>5. CASE c \in Rejected /\ n # p
  <2>1. d[n] = h[n]
    BY <1>1, <1>3, <1>5, CutLists
  <2>2. c \notin Range(g[n])
    <3>1. p \in Parents(g, c) /\ (c \in Range(g[n]) => n \in Parents(g, c))
      BY <1>2, WalkingNodes
    <3>. QED
      BY <1>5, <3>1 DEF Sparse
  <2>3. Kept(g, Rejected, gone \cup {c}, n) = Kept(g, Rejected, gone, n)
    BY <2>2 DEF Kept
  <2>. QED
    BY <1>3, <2>1, <2>3
<1>6. CASE c \in Rejected /\ n = p
  <2>1. d[n] = Without(h[n], c) \o g[c]
    <3>1. Cut(g, Rejected, h, Connection(p, c))[n] =
            IF n = p THEN Without(h[p], c) \o g[c] ELSE h[n]
      <4>1. p \in AllNodes /\ c \in Followers /\ c \in Rejected /\ n \in AllNodes
        BY <1>1, <1>3, <1>6
      <4>. QED
        BY <4>1, CutLists
    <3>. QED
      BY <1>6, <3>1
  <2>2. h[n] \in Seq(Followers) /\ g[c] \in Seq(Followers)
    BY <1>1, <1>3 DEF Wirings
  <2>3. Without(h[n], c) \in Seq(Followers) /\ Range(Without(h[n], c)) = Range(h[n]) \ {c}
    BY <2>2, WithoutType, WithoutRange
  <2>4. Range(d[n]) = (Range(h[n]) \ {c}) \cup Range(g[c])
    BY <2>1, <2>2, <2>3, RangeConcatenation
  <2>5. \A r \in Rejected \cap gone : c \notin Range(g[r])
    BY <1>6, WalkingNodes, RejectedApart
  <2>6. c \in Range(g[n]) /\ c \notin Range(g[c])
    <3>1. c \in Walking(g)
      BY <1>1, WalkingNodes
    <3>. QED
      BY <1>6, <3>1, RejectedApart
  <2>7. Kept(g, Rejected, gone \cup {c}, n)
          = (Kept(g, Rejected, gone, n) \ {c}) \cup Range(g[c])
    <3>1. Range(g[n]) \ (Rejected \cap (gone \cup {c})) = (Range(g[n]) \ (Rejected \cap gone)) \ {c}
      BY <1>6
    <3>2. UNION {Range(g[r]) : r \in Rejected \cap (gone \cup {c}) \cap Range(g[n])}
            = (UNION {Range(g[r]) : r \in Rejected \cap gone \cap Range(g[n])}) \cup Range(g[c])
      BY <1>6, <2>6
    <3>3. c \notin UNION {Range(g[r]) : r \in Rejected \cap gone \cap Range(g[n])}
      BY <2>5
    <3>. QED
      BY <2>6, <3>1, <3>2, <3>3 DEF Kept
  <2>. QED
    BY <1>3, <2>4, <2>7
<1>. QED
  BY <1>4, <1>5, <1>6

\* What is left when the filter has entered every node below the root.
LEMMA FilterPrunes ==
  ASSUME NEW g \in Wirings, NEW Rejected \in SUBSET Followers, Sparse(g, Rejected)
  PROVE  Pruned(g, Rejected, Below(g, Root), Filtered(g, Rejected))
<1>. DEFINE s == Traversal(g).entered
            B == Below(g, Root)
<1>1. /\ s \in Seq(Connections)
      /\ Range(Children(s)) = B
      /\ \A e \in Range(s) : e.parent \in Walking(g) /\ e.child \in Range(g[e.parent])
  BY WalkEnds DEF Trails, Orderly
<1>2. PICK h \in [0 .. Len(s) -> Wirings] :
           /\ h[0] = g
           /\ \A k \in 1 .. Len(s) : h[k] = Cut(g, Rejected, h[k - 1], s[k])
           /\ h[Len(s)] = Filtered(g, Rejected)
  BY <1>1, FilteredInSteps
<1>. HIDE DEF s
<1>. DEFINE n == Len(s)
            P == {k \in 0 .. n : Gone(s, k) \subseteq B /\ Pruned(g, Rejected, Gone(s, k), h[k])}
<1>3. /\ n \in Nat
      /\ \A k \in 1 .. n : s[k] \in Range(s) /\ s[k] \in Connections
      /\ \A k \in 1 .. n : s[k] = Connection(s[k].parent, s[k].child)
  <2>1. n \in Nat /\ \A k \in 1 .. n : s[k] \in Range(s) /\ s[k] \in Connections
    BY <1>1, SeqFacts
  <2>2. \A e \in Connections : e = Connection(e.parent, e.child)
    BY DEF Connections, Connection
  <2>. QED
    BY <2>1, <2>2
<1>4. 0 \in P
  <2>1. Gone(s, 0) = {}
    <3>1. 1 .. 0 = {}
      OBVIOUS
    <3>. QED
      BY <3>1 DEF Gone
  <2>2. \A m : Kept(g, Rejected, {}, m) = Range(g[m])
    BY DEF Kept
  <2>3. Pruned(g, Rejected, {}, g)
    BY <2>2 DEF Pruned
  <2>4. 0 \in 0 .. n /\ {} \subseteq B
    BY <1>3
  <2>. QED
    BY <1>2, <2>1, <2>3, <2>4
<1>5. ASSUME NEW k \in 1 .. n, k - 1 \in P PROVE k \in P
  <2>1. /\ k - 1 \in 0 .. n /\ k \in 0 .. n /\ h[k - 1] \in Wirings
        /\ h[k] = Cut(g, Rejected, h[k - 1], s[k])
        /\ Gone(s, k - 1) \subseteq B /\ Pruned(g, Rejected, Gone(s, k - 1), h[k - 1])
    BY <1>2, <1>3, <1>5
  <2>2. Gone(s, k) = Gone(s, k - 1) \cup {s[k].child}
    <3>1. 1 .. k = (1 .. (k - 1)) \cup {k}
      BY <1>3
    <3>. QED
      BY <3>1 DEF Gone
  <2>. DEFINE p == s[k].parent
              c == s[k].child
  <2>3. p \in Walking(g) /\ c \in Range(g[p]) /\ s[k] = Connection(p, c)
    BY <1>1, <1>3
  <2>4. c \in B
    BY <2>3, WalkingNodes
  <2>. HIDE DEF p, c
  <2>5. Pruned(g, Rejected, Gone(s, k - 1) \cup {c},
               Cut(g, Rejected, h[k - 1], Connection(p, c)))
    <3>. DEFINE gone == Gone(s, k - 1)
                f == h[k - 1]
    <3>1. gone \in SUBSET Below(g, Root) /\ f \in Wirings /\ Pruned(g, Rejected, gone, f)
      BY <2>1
    <3>. HIDE DEF gone, f
    <3>2. Pruned(g, Rejected, gone \cup {c}, Cut(g, Rejected, f, Connection(p, c)))
      BY <2>3, <3>1, CutPrunes
    <3>. QED
      BY <3>2 DEF gone, f
  <2>6. Pruned(g, Rejected, Gone(s, k), h[k])
    BY <2>1, <2>2, <2>3, <2>5 DEF c
  <2>. QED
    BY <2>1, <2>2, <2>4, <2>6 DEF c
<1>6. n \in P
  <2>. HIDE DEF P, n
  <2>1. \A k \in 0 .. n : k \in P
    BY <1>3, <1>4, <1>5, Steps
  <2>. QED
    BY <1>3, <2>1
<1>7. Gone(s, n) = B
  <2>1. Children(s) \in Seq(Followers) /\ Len(Children(s)) = n
        /\ \A i \in 1 .. n : Children(s)[i] = s[i].child
    BY <1>1, ChildrenFacts
  <2>2. Range(Children(s)) = {Children(s)[i] : i \in 1 .. n}
    BY <2>1, RangeEquality
  <2>. QED
    BY <1>1, <2>1, <2>2 DEF Gone
<1>. QED
  BY <1>2, <1>6, <1>7

LEMMA FilterKeepsReach ==
  ASSUME NEW g \in Wirings, NEW Rejected \in SUBSET Followers, Sparse(g, Rejected)
  PROVE  Prunes(g, Rejected)
<1>. DEFINE f == Filtered(g, Rejected)
            B == Below(g, Root)
            T == Below(f, Root)
<1>1. f \in Wirings
  <2>1. Traversal(g).entered \in Seq(Connections)
    BY WalkEnds DEF Trails
  <2>. QED
    BY <2>1, FilteredType
<1>2. \A n \in Walking(g) \ Rejected : Range(f[n]) = Kept(g, Rejected, B, n)
  BY FilterPrunes DEF Pruned
<1>. HIDE DEF f
<1>3. Root \in AllNodes /\ Root \notin Rejected /\ Root \in Walking(g)
  BY AllNodesFinite, WalkingNodes DEF Followers
<1>4. \A n \in Walking(g) \ Rejected : Range(f[n]) \subseteq B \ Rejected
  <2>1. ASSUME NEW n \in Walking(g) \ Rejected, NEW o \in Range(f[n]) PROVE o \in B \ Rejected
    <3>1. Range(g[n]) \subseteq B
      BY WalkingNodes
    <3>2. CASE o \in Range(g[n]) \ (Rejected \cap B)
      BY <3>1, <3>2
    <3>3. CASE \E r \in Rejected \cap B \cap Range(g[n]) : o \in Range(g[r])
      <4>1. PICK r \in Rejected \cap B : o \in Range(g[r])
        BY <3>3
      <4>. QED
        BY <4>1, WalkingNodes, RejectedApart
    <3>. QED
      BY <1>2, <2>1, <3>2, <3>3 DEF Kept
  <2>. QED
    BY <2>1
<1>5. T \subseteq B \ Rejected
  <2>1. ClosedUnder(f, B \ Rejected)
    BY <1>4, WalkingNodes DEF ClosedUnder
  <2>2. Range(f[Root]) \subseteq B \ Rejected
    BY <1>3, <1>4
  <2>3. \A S : Range(f[Root]) \subseteq S /\ ClosedUnder(f, S) => Below(f, Root) \subseteq S
    BY <1>1, <1>3, BelowIsLeast
  <2>. HIDE DEF B
  <2>. QED
    BY <2>1, <2>2, <2>3
<1>6. B \ Rejected \subseteq T
  <2>. DEFINE S == T \cup {r \in Rejected \cap B :
                             \E n \in (T \cup {Root}) \ Rejected : r \in Range(g[n])}
  <2>1. Range(f[Root]) \subseteq T /\ ClosedUnder(f, T)
    BY <1>1, <1>3, BelowIsLeast
  <2>2. \A n \in T \cup {Root} : n \in Walking(g) \ Rejected /\ Range(f[n]) \subseteq T
    BY <1>3, <1>5, <2>1, WalkingNodes DEF ClosedUnder
  <2>3. ASSUME NEW n \in T \cup {Root}, NEW o \in Range(g[n]) PROVE o \in S
    <3>1. o \in B
      BY <2>2, WalkingNodes
    <3>2. o \notin Rejected => o \in Range(f[n])
      BY <1>2, <2>2 DEF Kept
    <3>. QED
      BY <2>2, <3>1, <3>2
  <2>4. ASSUME NEW r \in S \ T, NEW o \in Range(g[r]) PROVE o \in S
    <3>1. PICK n \in (T \cup {Root}) \ Rejected : r \in Rejected \cap B /\ r \in Range(g[n])
      BY <2>4
    <3>2. o \in Range(f[n])
      BY <1>2, <2>2, <3>1 DEF Kept
    <3>. QED
      BY <2>2, <3>1, <3>2
  <2>5. Range(g[Root]) \subseteq S /\ ClosedUnder(g, S)
    <3>. HIDE DEF S, T
    <3>1. Range(g[Root]) \subseteq S
      BY <2>3
    <3>2. T \subseteq S
      BY DEF S
    <3>3. \A m \in S : Range(g[m]) \subseteq S
      BY <2>3, <2>4
    <3>. QED
      BY <3>1, <3>3 DEF ClosedUnder
  <2>6. B \subseteq S
    <3>. HIDE DEF S
    <3>. QED
      BY <1>3, <2>5, BelowIsLeast
  <2>. QED
    BY <2>6
<1>. QED
  BY <1>5, <1>6 DEF Prunes, f

\* Whatever graph the program has built, the filter takes the rejected nodes
\* out of it and keeps the others within the root's reach, if each rejected
\* node has one parent and that is kept.
THEOREM FilterPrunesSparse == Spec => []PrunesSparse
<1>1. TypeInv => PrunesSparse
  <2>1. SUFFICES ASSUME TypeInv, NEW Rejected \in SUBSET (Nodes \ {Root}),
                        \A r \in Rejected : \E p \in Nodes \ Rejected :
                          Parents(observers, r) \subseteq {p}
                 PROVE  Prunes(observers, Rejected)
    BY DEF PrunesSparse
  <2>2. observers \in Wirings /\ Rejected \in SUBSET Followers
    BY <2>1 DEF TypeInv, Followers, AllNodes
  <2>3. Sparse(observers, Rejected)
    BY <2>1 DEF Sparse
  <2>. QED
    BY <2>2, <2>3, FilterKeepsReach
<1>. QED
  BY <1>1, Typed, PTL

-----------------------------------------------------------------------------
(* What a list of connections has come to after the first k of them.       *)

LEMMA Prefix ==
  ASSUME NEW S, NEW s \in Seq(S), NEW k \in 1 .. Len(s)
  PROVE  /\ SubSeq(s, 1, k - 1) \in Seq(S)
         /\ SubSeq(s, 1, k) = Append(SubSeq(s, 1, k - 1), s[k])
<1>1. Len(s) \in Nat /\ \A i \in 1 .. Len(s) : s[i] \in S
  BY SeqFacts
<1>2. SubSeq(s, 1, k - 1) \in Seq(S)
  <2>1. \A i \in 1 .. (k - 1) : s[i] \in S
    BY <1>1
  <2>2. 1 \in Int /\ k - 1 \in Int
    BY <1>1
  <2>. QED
    BY <2>1, <2>2, SubSeqProperties
<1>3. SubSeq(s, 1, k) = SubSeq(s, 1, k - 1) \o << s[k] >>
  <2>1. 1 \in 1 .. Len(s) /\ k \in 1 .. Len(s)
    BY <1>1
  <2>. QED
    BY <2>1, SubSeqRecursiveSecond
<1>. QED
  BY <1>1, <1>2, <1>3, AppendIsConcat

\* The children of p among the first k connections of a walk.
Passed(walk, k, p) == Kids(SubSeq(walk, 1, k), p)

LEMMA PassedFacts ==
  ASSUME NEW walk \in Seq(Connections), NEW p
  PROVE  /\ Passed(walk, 0, p) = << >>
         /\ Passed(walk, Len(walk), p) = Kids(walk, p)
         /\ \A k \in 0 .. Len(walk) : Passed(walk, k, p) \in Seq(Followers)
         /\ \A k \in 1 .. Len(walk) :
              Passed(walk, k, p) = IF walk[k].parent = p
                                   THEN Append(Passed(walk, k - 1, p), walk[k].child)
                                   ELSE Passed(walk, k - 1, p)
<1>1. Len(walk) \in Nat /\ \A k \in 1 .. Len(walk) : walk[k] \in Connections
  BY SeqFacts
<1>2. Passed(walk, 0, p) = << >> /\ << >> \in Seq(Followers)
  <2>1. SubSeq(walk, 1, 0) = << >>
    BY SubSeqEmpty
  <2>. QED
    BY <2>1, KidsEmpty, EmptySeq DEF Passed
<1>3. Passed(walk, Len(walk), p) = Kids(walk, p)
  BY SubSeqFull DEF Passed
<1>4. ASSUME NEW k \in 1 .. Len(walk)
      PROVE  /\ Passed(walk, k, p) = IF walk[k].parent = p
                                     THEN Append(Passed(walk, k - 1, p), walk[k].child)
                                     ELSE Passed(walk, k - 1, p)
             /\ Passed(walk, k, p) \in Seq(Followers)
  <2>. DEFINE before == SubSeq(walk, 1, k - 1)
  <2>1. before \in Seq(Connections) /\ SubSeq(walk, 1, k) = Append(before, walk[k])
    BY Prefix
  <2>2. walk[k] \in Connections
    BY <1>1
  <2>. HIDE DEF before
  <2>3. Kids(Append(before, walk[k]), p) =
          IF walk[k].parent = p THEN Append(Kids(before, p), walk[k].child) ELSE Kids(before, p)
    BY <2>1, <2>2, KidsAppend
  <2>4. Append(before, walk[k]) \in Seq(Connections)
    BY <2>1, <2>2, AppendFacts
  <2>5. Kids(Append(before, walk[k]), p) \in Seq(Followers)
    BY <2>4, KidsType
  <2>. QED
    BY <2>1, <2>3, <2>5 DEF Passed, before
<1>5. \A k \in 0 .. Len(walk) : k = 0 \/ k \in 1 .. Len(walk)
  BY <1>1
<1>. QED
  BY <1>2, <1>3, <1>4, <1>5

LEMMA KidsOne ==
  ASSUME NEW e \in Connections, NEW p
  PROVE  /\ << e >> \in Seq(Connections)
         /\ Kids(<< e >>, p) = IF e.parent = p THEN << e.child >> ELSE << >>
<1>1. << >> \in Seq(Connections) /\ << >> \in Seq(Followers) /\ e.child \in Followers
  BY EmptySeq DEF Connections
<1>2. << e >> = Append(<< >>, e) /\ << e.child >> = Append(<< >>, e.child)
  OBVIOUS
<1>3. Append(<< >>, e) \in Seq(Connections)
  BY <1>1, AppendFacts
<1>4. Kids(Append(<< >>, e), p) =
        IF e.parent = p THEN Append(Kids(<< >>, p), e.child) ELSE Kids(<< >>, p)
  BY <1>1, KidsAppend
<1>. QED
  BY <1>2, <1>3, <1>4, KidsEmpty

LEMMA KidsConcat ==
  ASSUME NEW front \in Seq(Connections), NEW back \in Seq(Connections), NEW p
  PROVE  Kids(front \o back, p) = Kids(front, p) \o Kids(back, p)
<1>. DEFINE P == {s \in Seq(Connections) : Kids(front \o s, p) = Kids(front, p) \o Kids(s, p)}
<1>1. Kids(front, p) \in Seq(Followers)
  BY KidsType
<1>2. << >> \in P
  <2>1. front \o << >> = front /\ Kids(front, p) \o << >> = Kids(front, p)
    BY <1>1, ConcatEmptySeq
  <2>. QED
    BY <2>1, EmptySeq, KidsEmpty
<1>3. ASSUME NEW s \in P, NEW e \in Connections PROVE Append(s, e) \in P
  <2>. DEFINE u == front \o s
  <2>1. Append(s, e) \in Seq(Connections) /\ u \in Seq(Connections) /\ e.child \in Followers
    BY AppendFacts, ConcatProperties DEF Connections
  <2>2. front \o Append(s, e) = Append(u, e)
    BY AppendToConcat
  <2>3. Kids(s, p) \in Seq(Followers) /\ Kids(u, p) = Kids(front, p) \o Kids(s, p)
    BY KidsType
  <2>. HIDE DEF u
  <2>4. Kids(Append(u, e), p) =
          IF e.parent = p THEN Append(Kids(u, p), e.child) ELSE Kids(u, p)
    BY <2>1, KidsAppend
  <2>5. Kids(Append(s, e), p) =
          IF e.parent = p THEN Append(Kids(s, p), e.child) ELSE Kids(s, p)
    BY KidsAppend
  <2>6. Kids(front, p) \o Append(Kids(s, p), e.child)
          = Append(Kids(front, p) \o Kids(s, p), e.child)
    BY <1>1, <2>1, <2>3, AppendToConcat
  <2>. QED
    BY <2>1, <2>2, <2>3, <2>4, <2>5, <2>6
<1>4. back \in P
  <2>. HIDE DEF P
  <2>1. P \in SUBSET Seq(Connections)
    BY DEF P
  <2>. QED
    BY <1>2, <1>3, <2>1, AppendInduction
<1>. QED
  BY <1>4

-----------------------------------------------------------------------------
(* There is a metrics node for each connection that the program has made.  *)

\* The graphs that the program makes: it knows no metrics node.
Plain ==
  {g \in Wirings : \A n \in AllNodes : Range(g[n]) \subseteq Nodes /\ (n \notin Nodes => g[n] = << >>)}

Places(walk) == UNION {{n} \X (1 .. Len(Kids(walk, n))) : n \in AllNodes}

LEMMA PlacesCounted ==
  ASSUME NEW walk \in Seq(Connections)
  PROVE  IsFiniteSet(Places(walk)) /\ Cardinality(Places(walk)) = Len(walk)
<1>. DEFINE P == {w \in Seq(Connections) :
                    IsFiniteSet(Places(w)) /\ Cardinality(Places(w)) = Len(w)}
<1>1. << >> \in P
  <2>1. Len(<< >>) = 0 /\ << >> \in Seq(Connections) /\ 1 .. 0 = {}
    BY EmptySeq
  <2>2. Places(<< >>) = {}
    BY <2>1, KidsEmpty DEF Places
  <2>. QED
    BY <2>1, <2>2, FS_EmptySet
<1>2. ASSUME NEW w \in P, NEW e \in Connections PROVE Append(w, e) \in P
  <2>. DEFINE u == Append(w, e)
              k == Len(Kids(w, e.parent)) + 1
  <2>1. u \in Seq(Connections) /\ Len(u) = Len(w) + 1 /\ e.parent \in AllNodes /\ e.child \in Followers
    BY AppendFacts DEF Connections
  <2>2. \A n \in AllNodes : Len(Kids(w, n)) \in Nat /\ Kids(w, n) \in Seq(Followers)
    BY KidsType, SeqFacts
  <2>3. \A n \in AllNodes : Kids(u, n) = IF e.parent = n THEN Append(Kids(w, n), e.child) ELSE Kids(w, n)
    BY KidsAppend
  <2>. HIDE DEF u
  <2>4. \A n \in AllNodes : Len(Kids(u, n)) = IF n = e.parent THEN k ELSE Len(Kids(w, n))
    <3>1. \A n \in AllNodes : Len(Append(Kids(w, n), e.child)) = Len(Kids(w, n)) + 1
      BY <2>1, <2>2, AppendFacts
    <3>. QED
      BY <2>3, <3>1
  <2>5. Places(u) = Places(w) \cup {<<e.parent, k>>}
    <3>1. ASSUME NEW n \in AllNodes
          PROVE  {n} \X (1 .. Len(Kids(u, n))) =
                   IF n = e.parent THEN ({n} \X (1 .. Len(Kids(w, n)))) \cup {<<e.parent, k>>}
                   ELSE {n} \X (1 .. Len(Kids(w, n)))
      <4>1. CASE n = e.parent
        <5>1. 1 .. k = (1 .. Len(Kids(w, n))) \cup {k}
          BY <2>2, <4>1
        <5>. QED
          BY <2>4, <4>1, <5>1
      <4>2. CASE n # e.parent
        BY <2>4, <4>2
      <4>. QED
        BY <4>1, <4>2
    <3>. QED
      BY <2>1, <3>1 DEF Places
  <2>6. <<e.parent, k>> \notin Places(w)
    <3>1. ASSUME <<e.parent, k>> \in Places(w) PROVE FALSE
      <4>1. PICK n \in AllNodes : <<e.parent, k>> \in {n} \X (1 .. Len(Kids(w, n)))
        BY <3>1 DEF Places
      <4>2. e.parent = n /\ k \in 1 .. Len(Kids(w, n))
        BY <4>1
      <4>. QED
        BY <2>2, <4>2
    <3>. QED
      BY <3>1
  <2>7. IsFiniteSet(Places(w)) /\ Cardinality(Places(w)) = Len(w)
    OBVIOUS
  <2>8. /\ IsFiniteSet(Places(w) \cup {<<e.parent, k>>})
        /\ Cardinality(Places(w) \cup {<<e.parent, k>>}) = Cardinality(Places(w)) + 1
    <3>. DEFINE A == Places(w)
                x == <<e.parent, k>>
    <3>. HIDE DEF A, x
    <3>1. IsFiniteSet(A) /\ x \notin A
      BY <2>6, <2>7 DEF A, x
    <3>2. IsFiniteSet(A \cup {x}) /\ Cardinality(A \cup {x}) = Cardinality(A) + 1
      BY <3>1, FS_AddElement
    <3>. QED
      BY <3>2 DEF A, x
  <2>. QED
    BY <2>1, <2>5, <2>7, <2>8 DEF u
<1>3. walk \in P
  <2>. HIDE DEF P
  <2>1. P \in SUBSET Seq(Connections)
    BY DEF P
  <2>. QED
    BY <1>1, <1>2, <2>1, AppendInduction
<1>. QED
  BY <1>3

\* The connections that the program has made.
Made(g) == {l \in Links(g) : l[1] \in Nodes}

LEMMA LinksFinite ==
  ASSUME NEW g \in Wirings
  PROVE  IsFiniteSet(Links(g)) /\ IsFiniteSet(Made(g)) /\ Cardinality(Made(g)) \in Nat
<1>1. \A n \in AllNodes : IsFiniteSet(DOMAIN g[n])
  BY ListFacts, FS_Interval
<1>2. \A n \in AllNodes : IsFiniteSet({n} \X DOMAIN g[n])
  BY <1>1, FS_Singleton, FS_Product
<1>3. IsFiniteSet({{n} \X DOMAIN g[n] : n \in AllNodes})
  <2>. DEFINE f == [n \in AllNodes |-> {n} \X DOMAIN g[n]]
  <2>1. f \in Surjection(AllNodes, {{n} \X DOMAIN g[n] : n \in AllNodes})
    BY DEF Surjection
  <2>. QED
    BY <2>1, AllNodesFinite, FS_Surjection
<1>4. IsFiniteSet(UNION {{n} \X DOMAIN g[n] : n \in AllNodes})
  <2>. DEFINE U == {{n} \X DOMAIN g[n] : n \in AllNodes}
  <2>1. \A T \in U : IsFiniteSet(T)
    BY <1>2
  <2>. HIDE DEF U
  <2>2. IsFiniteSet(UNION U)
    BY <1>3, <2>1, FS_UNION DEF U
  <2>. QED
    BY <2>2 DEF U
<1>5. IsFiniteSet(Links(g)) /\ Made(g) \in SUBSET Links(g)
  BY <1>4 DEF Links, Made
<1>. QED
  BY <1>5, FS_Subset, FS_CardinalityType

LEMMA WalkIsShort ==
  ASSUME NEW g \in Plain, Small(g)
  PROVE  /\ Walked(g) \in Seq(Connections)
         /\ \A n \in AllNodes : Kids(Walked(g), n) = IF n \in Below(g, Root) THEN g[n] ELSE << >>
         /\ Len(Walked(g)) <= Len(MetricsNodes)
<1>. DEFINE w == Walked(g)
<1>1. g \in Wirings
  BY DEF Plain
<1>2. \A n \in AllNodes :
        /\ w \in Seq(Connections)
        /\ Kids(w, n) = IF n \in Below(g, Root) THEN g[n] ELSE << >>
  <2>1. w = Listed(Traversal(g), "up")
    BY DEF Walked, ConnectionsBackwards, Listed
  <2>2. \A n \in AllNodes : Lists(g, "up", n)
    BY DEF Lists
  <2>. HIDE DEF w
  <2>. QED
    BY <1>1, <2>1, <2>2, WalkLists DEF Ways
<1>3. w \in Seq(Connections)
  BY <1>2, AllNodesFinite
<1>4. Places(w) \in SUBSET Made(g)
  <2>1. ASSUME NEW l \in Places(w) PROVE l \in Made(g)
    <3>1. PICK n \in AllNodes : l \in {n} \X (1 .. Len(Kids(w, n)))
      BY <2>1 DEF Places
    <3>. HIDE DEF w
    <3>2. CASE n \in Below(g, Root) /\ n \in Nodes
      <4>1. l \in {n} \X DOMAIN g[n] /\ l[1] = n
        BY <1>1, <1>2, <3>1, <3>2, ListFacts
      <4>. QED
        BY <3>2, <4>1 DEF Made, Links
    <3>3. CASE ~ (n \in Below(g, Root) /\ n \in Nodes)
      <4>1. Kids(w, n) = << >>
        BY <1>2, <3>3 DEF Plain
      <4>2. Len(<< >>) = 0 /\ 1 .. 0 = {}
        BY EmptySeq
      <4>. QED
        BY <3>1, <4>1, <4>2
    <3>. QED
      BY <3>2, <3>3
  <2>. QED
    BY <2>1
<1>5. Len(w) <= Cardinality(Made(g))
  <2>. DEFINE A == Places(w)
              M == Made(g)
  <2>1. A \in SUBSET M /\ IsFiniteSet(M) /\ Cardinality(A) = Len(w)
    BY <1>1, <1>3, <1>4, LinksFinite, PlacesCounted
  <2>. HIDE DEF A, M, w
  <2>2. Cardinality(A) <= Cardinality(M)
    BY <2>1, FS_Subset
  <2>. QED
    BY <2>1, <2>2 DEF M
<1>6. Cardinality(Made(g)) <= MaxLinks
  BY DEF Small, Made
<1>7. /\ Len(w) \in Nat /\ Cardinality(Made(g)) \in Nat
      /\ MaxLinks \in 0 .. Len(MetricsNodes) /\ Len(MetricsNodes) \in Nat
  BY <1>1, <1>3, LinksFinite, GraphAssumption, SeqFacts
<1>8. Len(w) <= Len(MetricsNodes)
  <2>. HIDE DEF w
  <2>. QED
    BY <1>5, <1>6, <1>7
<1>. QED
  BY <1>2, <1>3, <1>8

-----------------------------------------------------------------------------
(* Instrumentation.                                                        *)

\* Of g, with w its connections in the order of the walk: the connections to
\* the metrics nodes, of which the k-th goes where the walk's k-th has been.
Meters(w) == [i \in DOMAIN w |-> Connection(w[i].parent, MetricsNodes[i])]

LEMMA MetricsFacts ==
  /\ Len(MetricsNodes) \in Nat /\ DOMAIN MetricsNodes = 1 .. Len(MetricsNodes)
  /\ \A i \in 1 .. Len(MetricsNodes) :
       /\ MetricsNodes[i] \in Range(MetricsNodes) /\ MetricsNodes[i] \in Followers
       /\ MetricsNodes[i] \in AllNodes /\ MetricsNodes[i] \notin Nodes
  /\ \A i, j \in 1 .. Len(MetricsNodes) : MetricsNodes[i] = MetricsNodes[j] => i = j
  /\ \A m \in Range(MetricsNodes) : \E i \in 1 .. Len(MetricsNodes) : MetricsNodes[i] = m
  /\ \A n \in AllNodes : n \in Nodes \/ n \in Range(MetricsNodes)
  /\ Nodes \subseteq AllNodes /\ Range(MetricsNodes) \cap Nodes = {}
<1>1. /\ Len(MetricsNodes) \in Nat /\ DOMAIN MetricsNodes = 1 .. Len(MetricsNodes)
      /\ \A i \in 1 .. Len(MetricsNodes) : MetricsNodes[i] \in Range(MetricsNodes)
      /\ \A m \in Range(MetricsNodes) : \E i \in 1 .. Len(MetricsNodes) : MetricsNodes[i] = m
  BY GraphAssumption, SeqFacts
<1>2. \A i, j \in 1 .. Len(MetricsNodes) : MetricsNodes[i] = MetricsNodes[j] => i = j
  BY <1>1, GraphAssumption DEF IsInjective
<1>. QED
  BY <1>1, <1>2, GraphAssumption, AllNodesFinite DEF AllNodes

LEMMA MetersType ==
  ASSUME NEW w \in Seq(Connections), Len(w) <= Len(MetricsNodes)
  PROVE  /\ Meters(w) \in Seq(Connections) /\ Len(Meters(w)) = Len(w)
         /\ \A i \in 1 .. Len(w) :
              /\ i \in 1 .. Len(MetricsNodes)
              /\ Meters(w)[i].parent = w[i].parent /\ Meters(w)[i].child = MetricsNodes[i]
<1>1. Len(w) \in Nat /\ DOMAIN w = 1 .. Len(w) /\ \A i \in 1 .. Len(w) : w[i] \in Connections
  BY SeqFacts
<1>2. \A i \in 1 .. Len(w) : i \in 1 .. Len(MetricsNodes)
  BY <1>1, MetricsFacts
<1>3. \A i \in 1 .. Len(w) : Connection(w[i].parent, MetricsNodes[i]) \in Connections
  BY <1>1, <1>2, MetricsFacts, ConnectionType DEF Connections
<1>4. Meters(w) = [i \in 1 .. Len(w) |-> Connection(w[i].parent, MetricsNodes[i])]
  BY <1>1 DEF Meters
<1>5. [i \in 1 .. Len(w) |-> Connection(w[i].parent, MetricsNodes[i])] \in Seq(Connections)
  BY <1>1, <1>3, IsASeq
<1>6. Len(Meters(w)) = Len(w)
  <2>1. DOMAIN Meters(w) = 1 .. Len(w)
    BY <1>4
  <2>2. DOMAIN Meters(w) = 1 .. Len(Meters(w)) /\ Len(Meters(w)) \in Nat
    BY <1>4, <1>5, SeqFacts
  <2>. QED
    BY <1>1, <2>1, <2>2
<1>. QED
  BY <1>2, <1>4, <1>5, <1>6 DEF Connection

\* The metrics nodes of p, in the order of its observers.
PairedAt(w, k, p) ==
  /\ Len(Passed(Meters(w), k, p)) = Len(Passed(w, k, p))
  /\ IsInjective(Passed(Meters(w), k, p))
  /\ \A j \in 1 .. Len(Passed(w, k, p)) :
       \E i \in 1 .. k : /\ Passed(Meters(w), k, p)[j] = MetricsNodes[i]
                         /\ w[i].parent = p /\ w[i].child = Passed(w, k, p)[j]

LEMMA WalkPairs ==
  ASSUME NEW w \in Seq(Connections), Len(w) <= Len(MetricsNodes), NEW p
  PROVE  \A k \in 0 .. Len(w) : PairedAt(w, k, p)
<1>. DEFINE n == Len(w)
            u == Meters(w)
            S == {k \in 0 .. n : PairedAt(w, k, p)}
<1>1. n \in Nat /\ u \in Seq(Connections) /\ Len(u) = n
  BY SeqFacts, MetersType
<1>. HIDE DEF u
<1>2. \A k \in 0 .. n : Passed(w, k, p) \in Seq(Followers) /\ Passed(u, k, p) \in Seq(Followers)
  BY <1>1, PassedFacts
<1>3. 0 \in S
  <2>1. Passed(w, 0, p) = << >> /\ Passed(u, 0, p) = << >>
    BY <1>1, PassedFacts
  <2>2. IsInjective(<< >>) /\ Len(<< >>) = 0 /\ 1 .. 0 = {}
    BY EmptySeq, EmptyRange DEF IsInjective
  <2>. QED
    BY <1>1, <2>1, <2>2 DEF PairedAt, u
<1>4. ASSUME NEW k \in 1 .. n, k - 1 \in S PROVE k \in S
  <2>. DEFINE a == Passed(w, k - 1, p)
              b == Passed(u, k - 1, p)
              c == w[k].child
              m == MetricsNodes[k]
  <2>1. /\ k \in 0 .. n /\ k - 1 \in 0 .. n /\ a \in Seq(Followers) /\ b \in Seq(Followers)
        /\ k \in 1 .. Len(MetricsNodes) /\ m \in Followers /\ u[k].parent = w[k].parent /\ u[k].child = m
    <3>1. k \in 0 .. n /\ k - 1 \in 0 .. n
      BY <1>1
    <3>2. a \in Seq(Followers) /\ b \in Seq(Followers)
      BY <1>2, <3>1
    <3>3. /\ k \in 1 .. Len(MetricsNodes)
          /\ u[k].parent = w[k].parent /\ u[k].child = m
      BY MetersType DEF u
    <3>. QED
      BY <3>1, <3>2, <3>3, MetricsFacts
  <2>2. c \in Followers
    <3>1. w[k] \in Connections
      BY SeqFacts
    <3>. QED
      BY <3>1 DEF Connections
  <2>3. /\ Passed(w, k, p) = IF w[k].parent = p THEN Append(a, c) ELSE a
        /\ Passed(u, k, p) = IF w[k].parent = p THEN Append(b, m) ELSE b
    <3>1. Passed(w, k, p) = IF w[k].parent = p THEN Append(a, c) ELSE a
      BY PassedFacts
    <3>2. Passed(u, k, p) = IF u[k].parent = p THEN Append(b, u[k].child) ELSE b
      <4>1. \A j \in 1 .. Len(u) : Passed(u, j, p) = IF u[j].parent = p
                                                   THEN Append(Passed(u, j - 1, p), u[j].child)
                                                   ELSE Passed(u, j - 1, p)
        BY <1>1, PassedFacts
      <4>2. k \in 1 .. Len(u)
        BY <1>1
      <4>. QED
        BY <4>1, <4>2
    <3>3. u[k].parent = w[k].parent /\ u[k].child = m
      BY <2>1
    <3>4. Passed(u, k, p) = IF w[k].parent = p THEN Append(b, m) ELSE b
      BY <3>2, <3>3
    <3>. QED
      BY <3>1, <3>4
  <2>4. /\ Len(b) = Len(a) /\ IsInjective(b)
        /\ \A j \in 1 .. Len(a) :
             \E i \in 1 .. (k - 1) : b[j] = MetricsNodes[i] /\ w[i].parent = p /\ w[i].child = a[j]
    BY <1>4 DEF PairedAt, u
  <2>. HIDE DEF a, b, c
  <2>5. \A j \in 1 .. Len(a) :
          \E i \in 1 .. k : b[j] = MetricsNodes[i] /\ w[i].parent = p /\ w[i].child = a[j]
    <3>1. \A i \in 1 .. (k - 1) : i \in 1 .. k
      BY <1>1
    <3>. QED
      BY <2>4, <3>1
  <2>6. CASE w[k].parent # p
    <3>1. Passed(w, k, p) = a /\ Passed(Meters(w), k, p) = b
      BY <2>3, <2>6 DEF u
    <3>2. PairedAt(w, k, p)
      BY <2>4, <2>5, <3>1 DEF PairedAt
    <3>. QED
      BY <2>1, <3>2
  <2>7. CASE w[k].parent = p
    <3>1. /\ Len(Append(a, c)) = Len(a) + 1 /\ Len(Append(b, m)) = Len(a) + 1 /\ Len(a) \in Nat
          /\ \A j \in 1 .. Len(a) : Append(a, c)[j] = a[j] /\ Append(b, m)[j] = b[j]
          /\ Append(a, c)[Len(a) + 1] = c /\ Append(b, m)[Len(a) + 1] = m
      BY <2>1, <2>2, <2>4, AppendFacts, SeqFacts
    <3>2. m \notin Range(b)
      <4>1. ASSUME m \in Range(b) PROVE FALSE
        <5>1. PICK j \in 1 .. Len(b) : b[j] = m
          BY <2>1, <4>1, SeqFacts
        <5>2. PICK i \in 1 .. (k - 1) : m = MetricsNodes[i]
          BY <2>4, <5>1
        <5>3. i \in 1 .. Len(MetricsNodes) /\ i # k
          BY <1>1, <2>1, MetricsFacts
        <5>. QED
          BY <2>1, <5>2, <5>3, MetricsFacts
      <4>. QED
        BY <4>1
    <3>3. IsInjective(Append(b, m))
      BY <2>1, <2>4, <3>2, AppendNew
    <3>4. ASSUME NEW j \in 1 .. (Len(a) + 1)
          PROVE  \E i \in 1 .. k : /\ Append(b, m)[j] = MetricsNodes[i]
                                   /\ w[i].parent = p /\ w[i].child = Append(a, c)[j]
      <4>1. j \in 1 .. Len(a) \/ j = Len(a) + 1
        BY <3>1
      <4>2. CASE j \in 1 .. Len(a)
        BY <2>5, <3>1, <4>2
      <4>3. CASE j = Len(a) + 1
        <5>1. k \in 1 .. k
          BY <1>1
        <5>. QED
          BY <2>7, <3>1, <4>3, <5>1 DEF c
      <4>. QED
        BY <4>1, <4>2, <4>3
    <3>5. PairedAt(w, k, p)
      <4>1. Passed(w, k, p) = Append(a, c) /\ Passed(Meters(w), k, p) = Append(b, m)
        BY <2>3, <2>7 DEF u
      <4>. HIDE DEF m
      <4>. QED
        BY <3>1, <3>3, <3>4, <4>1 DEF PairedAt
    <3>. QED
      BY <2>1, <3>5
  <2>. QED
    BY <2>6, <2>7
<1>. HIDE DEF S, n
<1>5. \A k \in 0 .. n : k \in S
  BY <1>1, <1>3, <1>4, Steps
<1>. QED
  BY <1>5 DEF S, n

LEMMA InsertedLists ==
  ASSUME NEW h \in Wirings, NEW p \in AllNodes, NEW m \in Followers, NEW c \in Followers, m # p
  PROVE  \A x \in AllNodes :
           Inserted(h, p, m, c)[x] = IF x = p THEN Append(Without(h[p], c), m)
                                     ELSE IF x = m THEN Append(h[m], c) ELSE h[x]
<1>1. PICK d \in Wirings : d = Disconnected(h, p, c)
  BY DisconnectedType
<1>2. PICK e \in Wirings : e = Connected(d, p, m)
  BY ConnectedType
<1>3. m \in AllNodes
  BY AllNodesFinite
<1>4. \A x \in AllNodes : d[x] = IF x = p THEN Without(h[p], c) ELSE h[x]
  BY <1>1 DEF Disconnected, Wirings
<1>5. \A x \in AllNodes : e[x] = IF x = p THEN Append(d[p], m) ELSE d[x]
  BY <1>2 DEF Connected, Wirings
<1>6. \A x \in AllNodes : Connected(e, m, c)[x] = IF x = m THEN Append(e[m], c) ELSE e[x]
  BY <1>3 DEF Connected, Wirings
<1>7. Inserted(h, p, m, c) = Connected(e, m, c)
  BY <1>1, <1>2 DEF Inserted
<1>. QED
  BY <1>3, <1>4, <1>5, <1>6, <1>7

\* What the first k insertions have made of g.
Metering(g, w, k, h) ==
  /\ \A n \in Nodes : n \notin Below(g, Root) => h[n] = g[n]
  /\ \A n \in Below(g, Root) : \E rest \in Seq(Followers) :
       /\ Range(rest) = Range(g[n]) \ Range(Passed(w, k, n))
       /\ h[n] = rest \o Passed(Meters(w), k, n)
  /\ \A i \in 1 .. Len(MetricsNodes) :
       h[MetricsNodes[i]] = IF i <= k THEN << w[i].child >> ELSE << >>

\* The walk goes over the connections of g below the root, and no others.
Covers(g, w) ==
  /\ w \in Seq(Connections) /\ Len(w) <= Len(MetricsNodes)
  /\ \A n \in AllNodes : Kids(w, n) = IF n \in Below(g, Root) THEN g[n] ELSE << >>

LEMMA PlainBelow ==
  ASSUME NEW g \in Plain
  PROVE  g \in Wirings /\ Below(g, Root) \subseteq Nodes /\ Below(g, Root) \subseteq AllNodes
<1>1. g \in Wirings /\ Root \in AllNodes /\ \A n \in AllNodes : Range(g[n]) \subseteq Nodes
  BY AllNodesFinite DEF Plain
<1>2. Nodes \subseteq AllNodes
  BY DEF AllNodes
<1>3. Range(g[Root]) \subseteq Nodes /\ ClosedUnder(g, Nodes)
  BY <1>1, <1>2 DEF ClosedUnder
<1>. QED
  BY <1>1, <1>2, <1>3, BelowIsLeast

\* Only metrics nodes are put into the graph.
LEMMA MetersReach ==
  ASSUME NEW w \in Seq(Connections), Len(w) <= Len(MetricsNodes), NEW p,
         NEW k \in 0 .. Len(w)
  PROVE  Range(Passed(Meters(w), k, p)) \cap Nodes = {}
<1>1. Len(w) \in Nat /\ Meters(w) \in Seq(Connections) /\ Len(Meters(w)) = Len(w)
  BY SeqFacts, MetersType
<1>2. Passed(Meters(w), k, p) \in Seq(Followers)
  BY <1>1, PassedFacts
<1>3. PairedAt(w, k, p)
  BY WalkPairs
<1>4. ASSUME NEW o \in Range(Passed(Meters(w), k, p)) PROVE o \notin Nodes
  <2>1. PICK j \in 1 .. Len(Passed(Meters(w), k, p)) : Passed(Meters(w), k, p)[j] = o
    BY <1>2, <1>4, SeqFacts
  <2>2. PICK i \in 1 .. k : o = MetricsNodes[i]
    BY <1>3, <2>1 DEF PairedAt
  <2>3. i \in 1 .. Len(MetricsNodes)
    BY <1>1, MetricsFacts
  <2>. QED
    BY <2>2, <2>3, MetricsFacts
<1>. QED
  BY <1>4

LEMMA WalkedConnections ==
  ASSUME NEW g \in Plain, NEW w, Covers(g, w)
  PROVE  \A i \in 1 .. Len(w) :
           /\ w[i] = Connection(w[i].parent, w[i].child)
           /\ w[i].parent \in Below(g, Root) /\ w[i].parent \in Nodes /\ w[i].parent \in AllNodes
           /\ w[i].child \in Range(g[w[i].parent]) /\ w[i].child \in Followers
           /\ w[i].child \in Nodes
<1>. SUFFICES ASSUME NEW i \in 1 .. Len(w)
              PROVE  /\ w[i] = Connection(w[i].parent, w[i].child)
                     /\ w[i].parent \in Below(g, Root) /\ w[i].parent \in Nodes
                     /\ w[i].parent \in AllNodes
                     /\ w[i].child \in Range(g[w[i].parent]) /\ w[i].child \in Followers
                     /\ w[i].child \in Nodes
  OBVIOUS
<1>. DEFINE p == w[i].parent
            c == w[i].child
<1>1. w \in Seq(Connections) /\ w[i] \in Connections /\ w[i] \in Range(w)
  BY SeqFacts DEF Covers
<1>2. w[i] = Connection(p, c) /\ p \in AllNodes /\ c \in Followers
  BY <1>1 DEF Connections, Connection
<1>3. c \in Range(Kids(w, p))
  BY <1>1, KidsMembers
<1>4. Kids(w, p) = IF p \in Below(g, Root) THEN g[p] ELSE << >>
  BY <1>2 DEF Covers
<1>5. p \in Below(g, Root) /\ c \in Range(g[p])
  BY <1>3, <1>4, EmptyRange
<1>6. p \in Nodes /\ c \in Nodes
  BY <1>2, <1>5, EmptyRange DEF Plain
<1>. QED
  BY <1>2, <1>5, <1>6

LEMMA InsertMeters ==
  ASSUME NEW g \in Plain, NEW w, Covers(g, w), NEW h \in Wirings, NEW k \in 1 .. Len(w),
         Metering(g, w, k - 1, h)
  PROVE  Metering(g, w, k, Inserted(h, w[k].parent, MetricsNodes[k], w[k].child))
<1>. DEFINE p == w[k].parent
            c == w[k].child
            m == MetricsNodes[k]
            d == Inserted(h, p, m, c)
            u == Meters(w)
<1>1. /\ w \in Seq(Connections) /\ Len(w) \in Nat /\ k - 1 \in 0 .. Len(w) /\ k \in Int
      /\ u \in Seq(Connections) /\ Len(u) = Len(w)
      /\ k \in 1 .. Len(MetricsNodes) /\ u[k].parent = p /\ u[k].child = m
  BY SeqFacts, MetersType DEF Covers
<1>2. /\ p \in Below(g, Root) /\ p \in Nodes /\ p \in AllNodes
      /\ c \in Range(g[p]) /\ c \in Followers /\ c \in Nodes
  BY WalkedConnections
<1>3. m \in Followers /\ m \in AllNodes /\ m \notin Nodes /\ m # p
  BY <1>1, <1>2, MetricsFacts
<1>. HIDE DEF p, c, m, u
<1>4. \A x \in AllNodes : d[x] = IF x = p THEN Append(Without(h[p], c), m)
                                 ELSE IF x = m THEN Append(h[m], c) ELSE h[x]
  BY <1>2, <1>3, InsertedLists
<1>. HIDE DEF d
<1>5. ASSUME NEW n \in Nodes, n \notin Below(g, Root) PROVE d[n] = g[n]
  <2>1. n \in AllNodes /\ n # p /\ n # m
    BY <1>2, <1>3, <1>5, MetricsFacts
  <2>. QED
    BY <1>4, <1>5, <2>1 DEF Metering
<1>6. ASSUME NEW n \in Below(g, Root)
      PROVE  \E rest \in Seq(Followers) :
               /\ Range(rest) = Range(g[n]) \ Range(Passed(w, k, n))
               /\ d[n] = rest \o Passed(u, k, n)
  <2>1. PICK rest \in Seq(Followers) :
               /\ Range(rest) = Range(g[n]) \ Range(Passed(w, k - 1, n))
               /\ h[n] = rest \o Passed(u, k - 1, n)
    BY <1>6 DEF Metering, u
  <2>2. /\ Passed(w, k, n) = IF p = n THEN Append(Passed(w, k - 1, n), c) ELSE Passed(w, k - 1, n)
        /\ Passed(u, k, n) = IF p = n THEN Append(Passed(u, k - 1, n), m) ELSE Passed(u, k - 1, n)
        /\ Passed(w, k - 1, n) \in Seq(Followers) /\ Passed(u, k - 1, n) \in Seq(Followers)
    <3>1. /\ Passed(w, k, n) = IF w[k].parent = n THEN Append(Passed(w, k - 1, n), w[k].child)
                               ELSE Passed(w, k - 1, n)
          /\ Passed(w, k - 1, n) \in Seq(Followers)
      BY <1>1, PassedFacts
    <3>2. /\ Passed(u, k, n) = IF u[k].parent = n THEN Append(Passed(u, k - 1, n), u[k].child)
                               ELSE Passed(u, k - 1, n)
          /\ Passed(u, k - 1, n) \in Seq(Followers)
      BY <1>1, PassedFacts
    <3>. QED
      BY <1>1, <3>1, <3>2 DEF p, c
  <2>3. n \in Nodes /\ n \in AllNodes /\ n # m
    BY <1>3, <1>6, PlainBelow, MetricsFacts
  <2>4. CASE n # p
    <3>1. d[n] = h[n]
      BY <1>4, <2>3, <2>4
    <3>. QED
      BY <2>1, <2>2, <2>4, <3>1
  <2>5. CASE n = p
    <3>. DEFINE a == Passed(w, k - 1, n)
                b == Passed(u, k - 1, n)
    <3>1. a \in Seq(Followers) /\ b \in Seq(Followers)
      BY <2>2
    <3>2. Passed(w, k, n) = Append(a, c) /\ Passed(u, k, n) = Append(b, m)
      BY <2>2, <2>5
    <3>3. Range(b) \cap Nodes = {}
      <4>1. Range(Passed(Meters(w), k - 1, n)) \cap Nodes = {}
        BY <1>1, MetersReach DEF Covers
      <4>. QED
        BY <4>1 DEF u
    <3>4. h[n] = rest \o b /\ Range(rest) = Range(g[n]) \ Range(a)
      BY <2>1
    <3>5. d[n] = Append(Without(h[n], c), m)
      BY <1>4, <2>3, <2>5
    <3>. HIDE DEF a, b
    <3>6. Without(rest \o b, c) = Without(rest, c) \o Without(b, c)
      BY <3>1, WithoutConcat
    <3>7. Without(b, c) = b
      BY <1>2, <3>1, <3>3, WithoutNone
    <3>8. /\ Without(rest, c) \in Seq(Followers)
          /\ Range(Without(rest, c)) = Range(rest) \ {c}
      BY WithoutType, WithoutRange
    <3>9. Append(Without(rest, c) \o b, m) = Without(rest, c) \o Append(b, m)
      <4>. DEFINE r == Without(rest, c)
      <4>1. r \in Seq(Followers)
        BY <3>8
      <4>. HIDE DEF r
      <4>2. r \o Append(b, m) = Append(r \o b, m)
        BY <1>3, <3>1, <4>1, AppendToConcat
      <4>. QED
        BY <4>2 DEF r
    <3>10. Range(Append(a, c)) = Range(a) \cup {c}
      BY <1>2, <3>1, AppendFacts
    <3>11. d[n] = Without(rest, c) \o Passed(u, k, n)
      BY <3>2, <3>4, <3>5, <3>6, <3>7, <3>9
    <3>12. Range(Without(rest, c)) = Range(g[n]) \ Range(Passed(w, k, n))
      BY <3>2, <3>4, <3>8, <3>10
    <3>. QED
      BY <3>8, <3>11, <3>12
  <2>. QED
    BY <2>4, <2>5
<1>7. ASSUME NEW i \in 1 .. Len(MetricsNodes)
      PROVE  d[MetricsNodes[i]] = IF i <= k THEN << w[i].child >> ELSE << >>
  <2>1. /\ MetricsNodes[i] \in AllNodes /\ MetricsNodes[i] # p
        /\ MetricsNodes[i] = m <=> i = k
    BY <1>1, <1>2, MetricsFacts DEF m
  <2>2. h[MetricsNodes[i]] = IF i <= k - 1 THEN << w[i].child >> ELSE << >>
    BY DEF Metering
  <2>3. CASE i = k
    <3>1. d[m] = Append(h[m], c)
      BY <1>3, <1>4
    <3>3. h[m] = << >>
      <4>1. MetricsNodes[i] = m /\ ~ (i <= k - 1)
        BY <1>1, <2>1, <2>3
      <4>. QED
        BY <2>2, <4>1
    <3>2. Append(<< >>, c) = << c >>
      OBVIOUS
    <3>. QED
      BY <1>1, <2>1, <2>3, <3>1, <3>2, <3>3 DEF c
  <2>4. CASE i # k
    <3>1. d[MetricsNodes[i]] = h[MetricsNodes[i]]
      BY <1>4, <2>1, <2>4
    <3>2. i <= k - 1 <=> i <= k
      BY <1>1, <2>4
    <3>. QED
      BY <2>2, <3>1, <3>2
  <2>. QED
    BY <2>3, <2>4
<1>8. Metering(g, w, k, d)
  BY <1>5, <1>6, <1>7 DEF Metering, u
<1>. QED
  BY <1>8 DEF d, p, c, m

\* What instrumentation makes of a graph of the program: a metrics node in the
\* place of each connection below the root.
Metered(g, h) ==
  /\ h \in Wirings
  /\ \A n \in Nodes : n \notin Below(g, Root) => h[n] = g[n]
  /\ \A n \in Below(g, Root) :
       /\ Len(h[n]) = Len(g[n]) /\ IsInjective(h[n])
       /\ \A j \in 1 .. Len(g[n]) :
            h[n][j] \in Range(MetricsNodes) /\ h[h[n][j]] = << g[n][j] >>
  /\ \A m \in Range(MetricsNodes) : h[m] = << >> \/ \E n \in Below(g, Root) : m \in Range(h[n])
  /\ \A m \in Range(MetricsNodes), n, q \in AllNodes :
       m \in Range(h[n]) /\ m \in Range(h[q]) => n = q

LEMMA AllInserted ==
  ASSUME NEW g \in Plain, NEW w, Covers(g, w), w = Walked(g)
  PROVE  Instrumented(g) \in Wirings /\ Metering(g, w, Len(w), Instrumented(g))
<1>. DEFINE n == Len(w)
<1>1. w \in Seq(Connections) /\ n \in Nat /\ n <= Len(MetricsNodes) /\ g \in Wirings
  BY SeqFacts, PlainBelow DEF Covers
<1>2. PICK h \in [0 .. n -> Wirings] :
           /\ h[0] = g
           /\ \A k \in 1 .. n : h[k] = Inserted(h[k - 1], w[k].parent, MetricsNodes[k], w[k].child)
           /\ h[n] = Instrumented(g)
  BY <1>1, InstrumentedInSteps
<1>. DEFINE S == {k \in 0 .. n : Metering(g, w, k, h[k])}
<1>3. 0 \in S
  <2>1. ASSUME NEW m \in Below(g, Root)
        PROVE  \E rest \in Seq(Followers) :
                 /\ Range(rest) = Range(g[m]) \ Range(Passed(w, 0, m))
                 /\ g[m] = rest \o Passed(Meters(w), 0, m)
    <3>1. m \in AllNodes /\ g[m] \in Seq(Followers)
      BY <1>1, PlainBelow DEF Wirings
    <3>2. Passed(w, 0, m) = << >> /\ Passed(Meters(w), 0, m) = << >>
      BY <1>1, MetersType, PassedFacts
    <3>3. Range(g[m]) = Range(g[m]) \ Range(<< >>) /\ g[m] = g[m] \o << >>
      BY <3>1, EmptyRange, ConcatEmptySeq
    <3>. QED
      BY <3>1, <3>2, <3>3
  <2>2. ASSUME NEW i \in 1 .. Len(MetricsNodes)
        PROVE  g[MetricsNodes[i]] = << >> /\ ~ (i <= 0)
    BY MetricsFacts DEF Plain
  <2>3. Metering(g, w, 0, g)
    BY <2>1, <2>2 DEF Metering
  <2>. QED
    BY <1>1, <1>2, <2>3
<1>4. ASSUME NEW k \in 1 .. n, k - 1 \in S PROVE k \in S
  <2>. DEFINE f == h[k - 1]
  <2>1. /\ f \in Wirings /\ Metering(g, w, k - 1, f) /\ k \in 0 .. n
        /\ h[k] = Inserted(f, w[k].parent, MetricsNodes[k], w[k].child)
    <3>1. k - 1 \in 0 .. n /\ Metering(g, w, k - 1, h[k - 1])
      BY <1>4
    <3>2. k \in 0 .. n
      BY <1>1
    <3>. QED
      BY <1>2, <3>1, <3>2
  <2>. HIDE DEF f
  <2>2. Metering(g, w, k, Inserted(f, w[k].parent, MetricsNodes[k], w[k].child))
    BY <2>1, InsertMeters
  <2>. QED
    BY <2>1, <2>2
<1>5. n \in S
  <2>. HIDE DEF S, n
  <2>1. \A k \in 0 .. n : k \in S
    BY <1>1, <1>3, <1>4, Steps
  <2>. QED
    BY <1>1, <2>1
<1>. QED
  BY <1>1, <1>2, <1>5

LEMMA NoneLeft ==
  ASSUME NEW S, NEW s \in Seq(S), Range(s) = {}
  PROVE  s = << >>
<1>1. Len(s) \in Nat /\ \A i \in 1 .. Len(s) : s[i] \in Range(s)
  BY SeqFacts
<1>2. ~ (Len(s) \in Nat \ {0})
  BY <1>1
<1>. QED
  BY <1>1, <1>2, EmptySeq

LEMMA InstrumentedIsMetered ==
  ASSUME NEW g \in Plain, NEW w, Covers(g, w), w = Walked(g)
  PROVE  Metered(g, Instrumented(g))
<1>. DEFINE h == Instrumented(g)
            B == Below(g, Root)
            u == Meters(w)
            n == Len(w)
<1>1. h \in Wirings /\ Metering(g, w, n, h)
  BY AllInserted
<1>. HIDE DEF h
<1>2. /\ w \in Seq(Connections) /\ n \in Nat /\ n <= Len(MetricsNodes) /\ n \in 0 .. n
      /\ u \in Seq(Connections) /\ Len(u) = n /\ g \in Wirings
      /\ B \subseteq Nodes /\ B \subseteq AllNodes
      /\ \A i \in 1 .. n : i \in 1 .. Len(MetricsNodes)
  BY SeqFacts, MetersType, PlainBelow DEF Covers
<1>3. ASSUME NEW p \in B
      PROVE  /\ h[p] = Kids(u, p) /\ h[p] \in Seq(Followers) /\ g[p] \in Seq(Followers)
             /\ Len(h[p]) = Len(g[p]) /\ IsInjective(h[p])
             /\ \A j \in 1 .. Len(g[p]) :
                  \E i \in 1 .. n : /\ h[p][j] = MetricsNodes[i]
                                    /\ w[i].parent = p /\ w[i].child = g[p][j]
  <2>1. Passed(w, n, p) = g[p] /\ Passed(u, n, p) = Kids(u, p)
    <3>1. Passed(w, n, p) = Kids(w, p) /\ Passed(u, Len(u), p) = Kids(u, p)
      BY <1>2, PassedFacts
    <3>. QED
      BY <1>2, <1>3, <3>1 DEF Covers
  <2>2. PICK rest \in Seq(Followers) :
               /\ Range(rest) = Range(g[p]) \ Range(Passed(w, n, p))
               /\ h[p] = rest \o Passed(u, n, p)
    BY <1>1, <1>3 DEF Metering
  <2>3. rest = << >>
    BY <2>1, <2>2, NoneLeft
  <2>4. h[p] \in Seq(Followers) /\ g[p] \in Seq(Followers) /\ Kids(u, p) \in Seq(Followers)
    BY <1>1, <1>2, <1>3, KidsType DEF Wirings
  <2>5. h[p] = Kids(u, p)
    BY <2>1, <2>2, <2>3, <2>4, ConcatEmptySeq
  <2>6. PairedAt(w, n, p)
    BY <1>2, WalkPairs
  <2>7. Passed(Meters(w), Len(w), p) = h[p] /\ Passed(w, Len(w), p) = g[p]
    BY <2>1, <2>5
  <2>8. /\ Len(h[p]) = Len(g[p]) /\ IsInjective(h[p])
        /\ \A j \in 1 .. Len(g[p]) :
             \E i \in 1 .. n : /\ h[p][j] = MetricsNodes[i]
                               /\ w[i].parent = p /\ w[i].child = g[p][j]
    <3>. HIDE DEF u
    <3>. QED
      BY <2>6, <2>7 DEF PairedAt
  <2>. QED
    BY <2>4, <2>5, <2>8
<1>4. \A i \in 1 .. Len(MetricsNodes) :
        h[MetricsNodes[i]] = IF i <= n THEN << w[i].child >> ELSE << >>
  BY <1>1 DEF Metering
<1>5. ASSUME NEW p \in B, NEW j \in 1 .. Len(g[p])
      PROVE  h[p][j] \in Range(MetricsNodes) /\ h[h[p][j]] = << g[p][j] >>
  <2>1. PICK i \in 1 .. n : h[p][j] = MetricsNodes[i] /\ w[i].child = g[p][j]
    BY <1>3
  <2>2. i \in 1 .. Len(MetricsNodes) /\ i <= n
    BY <1>2
  <2>. QED
    BY <1>4, <2>1, <2>2, MetricsFacts
<1>6. ASSUME NEW m \in Range(MetricsNodes), h[m] # << >>
      PROVE  \E p \in B : m \in Range(h[p])
  <2>1. PICK i \in 1 .. Len(MetricsNodes) : m = MetricsNodes[i]
    BY MetricsFacts
  <2>2. i \in 1 .. n
    <3>1. h[MetricsNodes[i]] = IF i <= n THEN << w[i].child >> ELSE << >>
      BY <1>4
    <3>2. i <= n
      BY <1>6, <2>1, <3>1
    <3>. QED
      BY <1>2, <3>2
  <2>3. w[i].parent \in B /\ u[i] \in Range(u) /\ u[i].parent = w[i].parent /\ u[i].child = m
    BY <1>2, <2>1, <2>2, WalkedConnections, MetersType, SeqFacts
  <2>4. m \in Range(Kids(u, w[i].parent))
    BY <1>2, <2>3, KidsMembers
  <2>. QED
    BY <1>3, <2>3, <2>4
<1>7. ASSUME NEW m \in Range(MetricsNodes), NEW q \in AllNodes, m \in Range(h[q])
      PROVE  \E i \in 1 .. n : m = MetricsNodes[i] /\ w[i].parent = q
  <2>1. PICK j \in 1 .. Len(h[q]) : h[q][j] = m
    <3>1. h[q] \in Seq(Followers)
      BY <1>1 DEF Wirings
    <3>. QED
      BY <1>7, <3>1, SeqFacts
  <2>2. CASE q \in B
    BY <1>3, <2>1, <2>2
  <2>3. CASE q \in Nodes /\ q \notin B
    <3>1. h[q] = g[q]
      BY <1>1, <2>3 DEF Metering
    <3>2. Range(g[q]) \subseteq Nodes
      BY DEF Plain
    <3>. QED
      BY <1>7, <3>1, <3>2, MetricsFacts
  <2>4. CASE q \notin Nodes
    <3>1. PICK k \in 1 .. Len(MetricsNodes) : q = MetricsNodes[k]
      BY <2>4, MetricsFacts
    <3>2. h[q] = IF k <= n THEN << w[k].child >> ELSE << >>
      BY <1>4, <3>1
    <3>3. CASE k <= n
      <4>1. k \in 1 .. n /\ w[k].child \in Nodes
        BY <1>2, <3>3, WalkedConnections
      <4>2. h[q] = << w[k].child >>
        BY <3>2, <3>3
      <4>3. Range(<< w[k].child >>) = {w[k].child}
        BY DEF Range
      <4>. QED
        BY <1>7, <4>1, <4>2, <4>3, MetricsFacts
    <3>4. CASE ~ (k <= n)
      BY <1>7, <3>2, <3>4, EmptyRange
    <3>. QED
      BY <3>3, <3>4
  <2>. QED
    BY <2>2, <2>3, <2>4
<1>8. \A m \in Range(MetricsNodes), p, q \in AllNodes :
        m \in Range(h[p]) /\ m \in Range(h[q]) => p = q
  <2>1. ASSUME NEW m \in Range(MetricsNodes), NEW p \in AllNodes, NEW q \in AllNodes,
               m \in Range(h[p]), m \in Range(h[q])
        PROVE  p = q
    <3>1. PICK i \in 1 .. n : m = MetricsNodes[i] /\ w[i].parent = p
      BY <1>7, <2>1
    <3>2. PICK k \in 1 .. n : m = MetricsNodes[k] /\ w[k].parent = q
      BY <1>7, <2>1
    <3>3. i = k
      BY <1>2, <3>1, <3>2, MetricsFacts
    <3>. QED
      BY <3>1, <3>2, <3>3
  <2>. QED
    BY <2>1
<1>9. \A p \in Nodes : p \notin B => h[p] = g[p]
  BY <1>1 DEF Metering
<1>10. \A m \in Range(MetricsNodes) : h[m] = << >> \/ \E p \in B : m \in Range(h[p])
  BY <1>6
<1>11. Metered(g, h)
  <2>. HIDE DEF B
  <2>1. \A p \in B : /\ Len(h[p]) = Len(g[p]) /\ IsInjective(h[p])
                     /\ \A j \in 1 .. Len(g[p]) :
                          h[p][j] \in Range(MetricsNodes) /\ h[h[p][j]] = << g[p][j] >>
    BY <1>3, <1>5
  <2>. QED
    BY <1>1, <1>8, <1>9, <1>10, <2>1 DEF Metered, B
<1>. QED
  BY <1>11 DEF h

\* The program's nodes below the root stay there, and the metrics nodes there
\* have one parent each.
LEMMA MeteredBelow ==
  ASSUME NEW g \in Plain, NEW h, Metered(g, h)
  PROVE  /\ Below(h, Root) \cap Nodes = Below(g, Root)
         /\ \A m \in Below(h, Root) \ Nodes :
              m \in Range(MetricsNodes) /\ \E n \in Below(g, Root) : m \in Range(h[n])
         /\ \A n \in Below(g, Root) : Range(h[n]) \subseteq Range(MetricsNodes)
         /\ \A n \in Below(g, Root) : \A m \in Range(h[n]) :
              \E j \in 1 .. Len(g[n]) : m = h[n][j] /\ h[m] = << g[n][j] >>
<1>. DEFINE B == Below(g, Root)
            C == Below(h, Root)
            S == B \cup {m \in Range(MetricsNodes) : \E n \in B : m \in Range(h[n])}
<1>1. /\ g \in Wirings /\ B \subseteq Nodes /\ B \subseteq AllNodes /\ Root \in Nodes /\ Root \in AllNodes
      /\ Root \notin B /\ h \in Wirings
  BY PlainBelow, BelowIsLeast, AllNodesFinite, GraphAssumption DEF Metered, Followers
<1>2. h[Root] = g[Root]
  BY <1>1 DEF Metered
<1>3. /\ Range(g[Root]) \subseteq B /\ ClosedUnder(g, B)
      /\ \A T : Range(g[Root]) \subseteq T /\ ClosedUnder(g, T) => B \subseteq T
  BY <1>1, BelowIsLeast
<1>4. /\ C \subseteq Followers /\ Range(h[Root]) \subseteq C /\ ClosedUnder(h, C)
      /\ \A T : Range(h[Root]) \subseteq T /\ ClosedUnder(h, T) => C \subseteq T
  BY <1>1, BelowIsLeast
<1>. HIDE DEF B, C
<1>5. ASSUME NEW n \in B, NEW m \in Range(h[n])
      PROVE  /\ m \in Range(MetricsNodes)
             /\ \E j \in 1 .. Len(g[n]) : m = h[n][j] /\ h[m] = << g[n][j] >>
  <2>1. h[n] \in Seq(Followers)
    BY <1>1 DEF Wirings
  <2>2. PICK j \in 1 .. Len(h[n]) : h[n][j] = m
    BY <2>1, SeqFacts
  <2>3. Len(h[n]) = Len(g[n])
    BY DEF Metered, B
  <2>. QED
    BY <2>2, <2>3 DEF Metered, B
<1>6. C \subseteq S
  <2>1. ASSUME NEW m \in Range(MetricsNodes), NEW n \in B, m \in Range(h[n])
        PROVE  Range(h[m]) \subseteq B
    <3>1. PICK j \in 1 .. Len(g[n]) : h[m] = << g[n][j] >>
      BY <1>5, <2>1
    <3>2. g[n] \in Seq(Followers)
      BY <1>1 DEF Wirings
    <3>3. g[n][j] \in Range(g[n]) /\ Range(g[n]) \subseteq B
      BY <1>3, <3>2, SeqFacts DEF ClosedUnder
    <3>4. Range(<< g[n][j] >>) = {g[n][j]}
      BY DEF Range
    <3>. QED
      BY <3>1, <3>3, <3>4
  <2>2. ClosedUnder(h, S)
    BY <1>5, <2>1 DEF ClosedUnder
  <2>3. Range(h[Root]) \subseteq S
    BY <1>2, <1>3
  <2>. HIDE DEF S
  <2>. QED
    BY <1>4, <2>2, <2>3
<1>7. B \subseteq C
  <2>. DEFINE T == B \cap C
  <2>1. Range(g[Root]) \subseteq T
    BY <1>2, <1>3, <1>4
  <2>2. ASSUME NEW n \in T, NEW o \in Range(g[n]) PROVE o \in T
    <3>1. g[n] \in Seq(Followers) /\ h[n] \in Seq(Followers)
      BY <1>1, <2>2 DEF Wirings
    <3>2. PICK j \in 1 .. Len(g[n]) : g[n][j] = o
      BY <2>2, <3>1, SeqFacts
    <3>3. Len(h[n]) = Len(g[n]) /\ h[h[n][j]] = << o >>
      BY <2>2, <3>2 DEF Metered, B
    <3>4. h[n][j] \in Range(h[n])
      BY <3>1, <3>2, <3>3, SeqFacts
    <3>5. h[n][j] \in C
      BY <1>4, <2>2, <3>4 DEF ClosedUnder
    <3>6. Range(h[h[n][j]]) \subseteq C
      BY <1>4, <3>5 DEF ClosedUnder
    <3>7. o \in Range(<< o >>)
      BY DEF Range
    <3>8. o \in B
      BY <1>3, <2>2 DEF ClosedUnder
    <3>. QED
      BY <3>3, <3>6, <3>7, <3>8
  <2>3. ClosedUnder(g, T)
    BY <2>2 DEF ClosedUnder
  <2>. HIDE DEF T
  <2>4. B \subseteq T
    BY <1>3, <2>1, <2>3
  <2>. QED
    BY <2>4 DEF T
<1>8. Range(MetricsNodes) \cap Nodes = {}
  BY GraphAssumption
<1>9. C \cap Nodes = B
  BY <1>1, <1>6, <1>7, <1>8
<1>10. \A m \in C \ Nodes : m \in Range(MetricsNodes) /\ \E n \in B : m \in Range(h[n])
  BY <1>1, <1>6
<1>11. \A n \in B : Range(h[n]) \subseteq Range(MetricsNodes)
  BY <1>5
<1>. QED
  BY <1>5, <1>9, <1>10, <1>11 DEF B, C

-----------------------------------------------------------------------------
(* The end of the instrumentation.                                         *)

\* Only the nodes of the program below the root have metrics nodes.
LEMMA MetersAbove ==
  ASSUME NEW g \in Plain, NEW h, Metered(g, h),
         NEW p \in AllNodes, NEW m \in Range(MetricsNodes), m \in Range(h[p])
  PROVE  p \in Below(g, Root)
<1>. SUFFICES ASSUME p \notin Below(g, Root) PROVE FALSE
  OBVIOUS
<1>1. m \notin Nodes /\ (p \in Nodes \/ p \in Range(MetricsNodes))
  BY MetricsFacts
<1>2. CASE p \in Nodes
  <2>1. h[p] = g[p]
    BY <1>2 DEF Metered
  <2>. QED
    BY <1>1, <2>1 DEF Plain
<1>3. CASE p \in Range(MetricsNodes)
  <2>1. h[p] # << >>
    BY EmptyRange
  <2>2. PICK n \in Below(g, Root) : p \in Range(h[n])
    BY <1>3, <2>1 DEF Metered
  <2>3. PICK j \in 1 .. Len(g[n]) : h[p] = << g[n][j] >>
    BY <2>2, MeteredBelow
  <2>4. g[n][j] \in Range(g[n])
    <3>1. g[n] \in Seq(Followers)
      BY PlainBelow DEF Wirings
    <3>. QED
      BY <3>1, SeqFacts
  <2>5. Range(g[n]) \subseteq Nodes
    BY PlainBelow DEF Plain
  <2>6. Range(<< g[n][j] >>) = {g[n][j]}
    BY DEF Range
  <2>. QED
    BY <1>1, <2>3, <2>4, <2>5, <2>6
<1>. QED
  BY <1>1, <1>2, <1>3

\* The children of p after the first k connections of a walk.
Ahead(walk, k, p) == Kids(SubSeq(walk, k + 1, Len(walk)), p)

LEMMA AheadFacts ==
  ASSUME NEW walk \in Seq(Connections), NEW p
  PROVE  /\ Ahead(walk, 0, p) = Kids(walk, p)
         /\ Ahead(walk, Len(walk), p) = << >>
         /\ \A k \in 0 .. Len(walk) :
              /\ Ahead(walk, k, p) \in Seq(Followers)
              /\ Passed(walk, k, p) \o Ahead(walk, k, p) = Kids(walk, p)
         /\ \A k \in 1 .. Len(walk) :
              Ahead(walk, k - 1, p) = IF walk[k].parent = p
                                      THEN << walk[k].child >> \o Ahead(walk, k, p)
                                      ELSE Ahead(walk, k, p)
<1>. DEFINE n == Len(walk)
            Later(k) == SubSeq(walk, k + 1, n)
<1>1. n \in Nat /\ \A i \in 1 .. n : walk[i] \in Connections
  BY SeqFacts
<1>2. Ahead(walk, 0, p) = Kids(walk, p)
  <2>1. SubSeq(walk, 1, n) = walk /\ 0 + 1 = 1
    BY SubSeqFull
  <2>. QED
    BY <2>1 DEF Ahead
<1>3. Ahead(walk, n, p) = << >>
  <2>1. SubSeq(walk, n + 1, n) = << >>
    BY <1>1, SubSeqEmpty
  <2>. QED
    BY <2>1, KidsEmpty DEF Ahead
<1>4. ASSUME NEW k \in 0 .. n PROVE Later(k) \in Seq(Connections)
  <2>1. \A i \in (k + 1) .. n : walk[i] \in Connections
    BY <1>1
  <2>. QED
    BY <1>1, <2>1, SubSeqProperties
<1>5. ASSUME NEW k \in 0 .. n
      PROVE  /\ Ahead(walk, k, p) \in Seq(Followers)
             /\ Passed(walk, k, p) \o Ahead(walk, k, p) = Kids(walk, p)
  <2>. DEFINE a == SubSeq(walk, 1, k)
              b == Later(k)
  <2>1. a \in Seq(Connections) /\ b \in Seq(Connections)
    <3>1. \A i \in 1 .. k : walk[i] \in Connections
      BY <1>1
    <3>2. a \in Seq(Connections)
      BY <3>1, SubSeqProperties
    <3>. QED
      BY <1>4, <3>2
  <2>2. a \o b = walk
    <3>1. 1 \in 1 .. Len(walk) + 1 /\ k \in (1 - 1) .. Len(walk) /\ n \in k .. Len(walk)
      BY <1>1
    <3>2. SubSeq(walk, 1, k) \o SubSeq(walk, k + 1, n) = SubSeq(walk, 1, n)
      BY <3>1, ConcatAdjacentSubSeq
    <3>. QED
      BY <3>2, SubSeqFull
  <2>. HIDE DEF a, b
  <2>3. Kids(a \o b, p) = Kids(a, p) \o Kids(b, p) /\ Kids(b, p) \in Seq(Followers)
    BY <2>1, KidsConcat, KidsType
  <2>. QED
    BY <2>2, <2>3 DEF Ahead, Passed, a, b
<1>6. ASSUME NEW k \in 1 .. n
      PROVE  Ahead(walk, k - 1, p) = IF walk[k].parent = p
                                     THEN << walk[k].child >> \o Ahead(walk, k, p)
                                     ELSE Ahead(walk, k, p)
  <2>. DEFINE b == Later(k)
              e == walk[k]
  <2>1. b \in Seq(Connections) /\ e \in Connections
    BY <1>1, <1>4
  <2>2. Later(k - 1) = << e >> \o b
    <3>1. k \in 1 .. Len(walk) /\ n \in k .. Len(walk)
      BY <1>1
    <3>2. SubSeq(walk, k, n) = << walk[k] >> \o SubSeq(walk, k + 1, n)
      BY <3>1, SubSeqRecursiveFirst
    <3>3. (k - 1) + 1 = k
      BY <1>1
    <3>. QED
      BY <3>2, <3>3
  <2>. HIDE DEF b, e
  <2>3. /\ << e >> \in Seq(Connections)
        /\ Kids(<< e >>, p) = IF e.parent = p THEN << e.child >> ELSE << >>
    BY <2>1, KidsOne
  <2>4. Kids(<< e >> \o b, p) = Kids(<< e >>, p) \o Kids(b, p)
    BY <2>1, <2>3, KidsConcat
  <2>5. Kids(b, p) \in Seq(Followers)
    BY <2>1, KidsType
  <2>6. << >> \o Kids(b, p) = Kids(b, p)
    BY <2>5, ConcatEmptySeq
  <2>7. Ahead(walk, k - 1, p) = Kids(<< e >> \o b, p) /\ Ahead(walk, k, p) = Kids(b, p)
    BY <2>2 DEF Ahead, b
  <2>. QED
    BY <2>3, <2>4, <2>6, <2>7 DEF e
<1>. QED
  BY <1>2, <1>3, <1>5, <1>6

\* What the filter has made of h when it has gone along k connections.
Unmetering(g, h, s, k, f) ==
  /\ \A n \in Below(g, Root) :
       f[n] = Ahead(s, k, n) \o SubSeq(g[n], 1, Len(Passed(s, k, n)))
  /\ \A n \in AllNodes \ Below(g, Root) : f[n] = h[n]

\* The filter comes to each metrics node once, from its parent.
Enters(g, h, s) ==
  /\ s \in Seq(Connections)
  /\ \A n \in Below(g, Root) : Kids(s, n) = h[n]
  /\ \A e \in Range(s) : e.child \in Range(h[e.parent])

LEMMA CutsMeter ==
  ASSUME NEW g \in Plain, NEW h, Metered(g, h), NEW s, Enters(g, h, s),
         NEW f \in Wirings, NEW k \in 1 .. Len(s), Unmetering(g, h, s, k - 1, f)
  PROVE  Unmetering(g, h, s, k, Cut(h, Range(MetricsNodes), f, s[k]))
<1>. DEFINE M == Range(MetricsNodes)
            B == Below(g, Root)
            p == s[k].parent
            c == s[k].child
            d == Cut(h, M, f, s[k])
<1>1. /\ s \in Seq(Connections) /\ s[k] \in Connections /\ s[k] \in Range(s)
      /\ Len(s) \in Nat /\ k \in Nat /\ k \in 0 .. Len(s) /\ k - 1 \in 0 .. Len(s)
  <2>1. s \in Seq(Connections)
    BY DEF Enters
  <2>2. Len(s) \in Nat /\ s[k] \in Connections /\ s[k] \in Range(s)
    BY <2>1, SeqFacts
  <2>. QED
    BY <2>1, <2>2
<1>2. p \in AllNodes /\ c \in Followers /\ c \in Range(h[p]) /\ s[k] = Connection(p, c)
  BY <1>1 DEF Enters, Connections, Connection
<1>3. h \in Wirings /\ B \subseteq AllNodes /\ g \in Wirings
  BY PlainBelow DEF Metered
<1>4. ASSUME NEW n \in B
      PROVE  /\ Passed(s, k, n) = IF p = n THEN Append(Passed(s, k - 1, n), c) ELSE Passed(s, k - 1, n)
             /\ Ahead(s, k - 1, n) = IF p = n THEN << c >> \o Ahead(s, k, n) ELSE Ahead(s, k, n)
             /\ f[n] = Ahead(s, k - 1, n) \o SubSeq(g[n], 1, Len(Passed(s, k - 1, n)))
  <2>1. Passed(s, k, n) = IF p = n THEN Append(Passed(s, k - 1, n), c) ELSE Passed(s, k - 1, n)
    BY <1>1, PassedFacts
  <2>2. Ahead(s, k - 1, n) = IF p = n THEN << c >> \o Ahead(s, k, n) ELSE Ahead(s, k, n)
    BY <1>1, AheadFacts
  <2>. QED
    BY <2>1, <2>2 DEF Unmetering
<1>5. \A n \in AllNodes \ B : f[n] = h[n]
  BY DEF Unmetering
<1>. HIDE DEF p, c, d
<1>6. CASE c \notin M
  <2>1. d = f
    BY <1>2, <1>6 DEF d, Cut, c
  <2>2. p \notin B
    BY <1>2, <1>6, MeteredBelow
  <2>3. \A n \in B : Passed(s, k, n) = Passed(s, k - 1, n) /\ Ahead(s, k - 1, n) = Ahead(s, k, n)
    BY <1>4, <2>2
  <2>4. \A n \in B : f[n] = Ahead(s, k, n) \o SubSeq(g[n], 1, Len(Passed(s, k, n)))
    BY <1>4, <2>3
  <2>5. Unmetering(g, h, s, k, f)
    BY <1>5, <2>4 DEF Unmetering
  <2>. QED
    BY <2>1, <2>5 DEF d
<1>7. CASE c \in M
  <2>1. p \in B
    BY <1>2, <1>7, MetersAbove
  <2>2. \A n \in AllNodes : d[n] = IF n = p THEN Without(f[p], c) \o h[c] ELSE f[n]
    <3>1. \A n \in AllNodes : Cut(h, M, f, Connection(p, c))[n] =
                                IF n = p THEN Without(f[p], c) \o h[c] ELSE f[n]
      BY <1>2, <1>3, <1>7, CutLists
    <3>. QED
      BY <1>2, <3>1 DEF d
  <2>3. \A n \in AllNodes \ B : d[n] = h[n]
    BY <1>5, <2>1, <2>2
  <2>4. ASSUME NEW n \in B, n # p
        PROVE  d[n] = Ahead(s, k, n) \o SubSeq(g[n], 1, Len(Passed(s, k, n)))
    BY <1>3, <1>4, <2>2, <2>4
  <2>. DEFINE a == Passed(s, k - 1, p)
              z == Ahead(s, k, p)
              L == Len(a)
              r == SubSeq(g[p], 1, L)
  <2>5. /\ a \in Seq(Followers) /\ z \in Seq(Followers) /\ L \in Nat
        /\ g[p] \in Seq(Followers) /\ h[p] \in Seq(Followers)
    <3>1. a \in Seq(Followers)
      BY <1>1, PassedFacts
    <3>2. z \in Seq(Followers)
      BY <1>1, AheadFacts
    <3>. QED
      BY <1>2, <1>3, <3>1, <3>2, SeqFacts DEF Wirings
  <2>6. h[p] = a \o (<< c >> \o z)
    <3>1. h[p] = Kids(s, p)
      BY <2>1 DEF Enters
    <3>2. a \o Ahead(s, k - 1, p) = Kids(s, p)
      BY <1>1, AheadFacts
    <3>3. Ahead(s, k - 1, p) = << c >> \o z
      BY <1>4, <2>1
    <3>. QED
      BY <3>1, <3>2, <3>3
  <2>7. f[p] = (<< c >> \o z) \o r
    BY <1>4, <2>1
  <2>8. Passed(s, k, p) = Append(a, c)
    BY <1>4, <2>1
  <2>. HIDE DEF a, z, L, r
  <2>9. << c >> \in Seq(Followers) /\ Len(<< c >>) = 1 /\ << c >>[1] = c
    BY <1>2
  <2>10. /\ << c >> \o z \in Seq(Followers) /\ Len(<< c >> \o z) = 1 + Len(z)
         /\ (<< c >> \o z)[1] = c
         /\ \A i \in 1 .. Len(z) : (<< c >> \o z)[i + 1] = z[i]
         /\ Len(z) \in Nat
    <3>1. Len(z) \in Nat
      BY <2>5, SeqFacts
    <3>2. /\ << c >> \o z \in Seq(Followers) /\ Len(<< c >> \o z) = 1 + Len(z)
          /\ \A i \in 1 .. 1 + Len(z) :
               (<< c >> \o z)[i] = IF i <= 1 THEN << c >>[i] ELSE z[i - 1]
      BY <2>5, <2>9, ConcatProperties
    <3>3. (<< c >> \o z)[1] = c
      BY <2>9, <3>1, <3>2
    <3>4. ASSUME NEW i \in 1 .. Len(z) PROVE (<< c >> \o z)[i + 1] = z[i]
      <4>1. i + 1 \in 1 .. 1 + Len(z) /\ ~ (i + 1 <= 1) /\ (i + 1) - 1 = i
        BY <3>1
      <4>. QED
        BY <3>2, <4>1
    <3>. QED
      BY <3>1, <3>2, <3>3, <3>4
  <2>11. /\ Len(h[p]) = L + 1 + Len(z) /\ h[p][L + 1] = c
         /\ \A i \in 1 .. Len(z) : h[p][L + 1 + i] = z[i]
    <3>. DEFINE y == << c >> \o z
    <3>1. y \in Seq(Followers) /\ Len(y) = 1 + Len(z)
      BY <2>10
    <3>. HIDE DEF y
    <3>2. /\ Len(a \o y) = L + Len(y)
          /\ \A i \in 1 .. L + Len(y) : (a \o y)[i] = IF i <= L THEN a[i] ELSE y[i - L]
      <4>1. a \in Seq(Followers) /\ y \in Seq(Followers)
        BY <2>5, <3>1
      <4>2. /\ Len(a \o y) = Len(a) + Len(y)
            /\ \A i \in 1 .. Len(a) + Len(y) :
                 (a \o y)[i] = IF i <= Len(a) THEN a[i] ELSE y[i - Len(a)]
        BY <4>1, ConcatProperties
      <4>. QED
        BY <4>2 DEF L
    <3>3. h[p] = a \o y
      BY <2>6 DEF y
    <3>4. h[p][L + 1] = y[1]
      <4>1. L + 1 \in 1 .. L + Len(y) /\ ~ (L + 1 <= L) /\ (L + 1) - L = 1
        BY <2>5, <2>10, <3>1
      <4>. QED
        BY <3>2, <3>3, <4>1
    <3>5. ASSUME NEW i \in 1 .. Len(z) PROVE h[p][L + 1 + i] = y[i + 1]
      <4>1. /\ L + 1 + i \in 1 .. L + Len(y) /\ ~ (L + 1 + i <= L)
            /\ (L + 1 + i) - L = i + 1
        BY <2>5, <2>10, <3>1
      <4>. QED
        BY <3>2, <3>3, <4>1
    <3>6. Len(h[p]) = L + 1 + Len(z)
      BY <2>5, <2>10, <3>1, <3>2, <3>3
    <3>. QED
      BY <2>10, <3>4, <3>5, <3>6 DEF y
  <2>12. Len(h[p]) = Len(g[p]) /\ IsInjective(h[p])
    BY <2>1 DEF Metered
  <2>13. L + 1 \in 1 .. Len(g[p])
    BY <2>5, <2>10, <2>11, <2>12
  <2>14. h[c] = << g[p][L + 1] >>
    <3>1. h[h[p][L + 1]] = << g[p][L + 1] >>
      BY <2>1, <2>13 DEF Metered
    <3>. QED
      BY <2>11, <3>1
  <2>15. c \notin Range(z)
    <3>1. ASSUME c \in Range(z) PROVE FALSE
      <4>1. PICK i \in 1 .. Len(z) : z[i] = c
        BY <2>5, <3>1, SeqFacts
      <4>2. L + 1 \in DOMAIN h[p] /\ L + 1 + i \in DOMAIN h[p] /\ L + 1 # L + 1 + i
        <5>1. DOMAIN h[p] = 1 .. Len(h[p]) /\ Len(h[p]) = L + 1 + Len(z)
          BY <2>5, <2>11, SeqFacts
        <5>2. L \in Nat /\ Len(z) \in Nat /\ i \in Nat /\ 1 <= i /\ i <= Len(z)
          BY <2>5, <2>10
        <5>3. L + 1 \in 1 .. (L + 1 + Len(z)) /\ L + 1 + i \in 1 .. (L + 1 + Len(z)) /\ L + 1 # L + 1 + i
          BY <5>2
        <5>. QED
          BY <5>1, <5>3
      <4>3. h[p][L + 1] = h[p][L + 1 + i]
        BY <2>11, <4>1
      <4>. QED
        BY <2>12, <4>2, <4>3 DEF IsInjective
    <3>. QED
      BY <3>1
  <2>16. r \in Seq(Followers) /\ Range(r) \subseteq Nodes
         /\ SubSeq(g[p], 1, L + 1) = Append(r, g[p][L + 1]) /\ g[p][L + 1] \in Followers
    <3>1. (L + 1) - 1 = L
      BY <2>5
    <3>2. r \in Seq(Followers) /\ SubSeq(g[p], 1, L + 1) = Append(r, g[p][L + 1])
      BY <2>5, <2>13, <3>1, Prefix DEF r
    <3>3. ASSUME NEW o \in Range(r) PROVE o \in Nodes
      <4>1. PICK i \in 1 .. Len(r) : r[i] = o
        BY <3>2, <3>3, SeqFacts
      <4>2. Len(g[p]) \in Nat /\ \A j \in 1 .. Len(g[p]) : g[p][j] \in Followers /\ g[p][j] \in Range(g[p])
        BY <2>5, SeqFacts
      <4>3. \A j \in 1 .. L : g[p][j] \in Followers
        BY <2>5, <2>13, <4>2
      <4>4. /\ Len(r) = IF 1 <= L THEN L - 1 + 1 ELSE 0
            /\ \A j \in 1 .. L - 1 + 1 : r[j] = g[p][1 + j - 1]
        BY <2>5, <4>3, SubSeqProperties DEF r
      <4>5. o = g[p][i] /\ i \in 1 .. Len(g[p])
        BY <2>5, <2>13, <4>1, <4>2, <4>4
      <4>6. o \in Range(g[p])
        BY <4>2, <4>5
      <4>. QED
        BY <1>2, <4>6 DEF Plain
    <3>4. g[p][L + 1] \in Followers
      BY <2>5, <2>13, SeqFacts
    <3>. QED
      BY <3>2, <3>3, <3>4
  <2>17. Without(f[p], c) = z \o r
    <3>1. Without(<< c >>, c) = << >>
      <4>1. << >> \in Seq(Followers) /\ << c >> = Append(<< >>, c)
        BY EmptySeq
      <4>2. Without(Append(<< >>, c), c) = Without(<< >>, c)
        BY <1>2, <4>1, WithoutAppend
      <4>. QED
        BY <4>1, <4>2, WithoutEmpty
    <3>2. Without(<< c >> \o z, c) = << >> \o z
      <4>1. Without(<< c >> \o z, c) = Without(<< c >>, c) \o Without(z, c)
        <5>. DEFINE x == << c >>
        <5>1. x \in Seq(Followers) /\ z \in Seq(Followers)
          BY <2>5, <2>9
        <5>. HIDE DEF x
        <5>2. Without(x \o z, c) = Without(x, c) \o Without(z, c)
          BY <5>1, WithoutConcat
        <5>. QED
          BY <5>2 DEF x
      <4>2. Without(z, c) = z
        BY <2>5, <2>15, WithoutNone
      <4>. QED
        BY <3>1, <4>1, <4>2
    <3>3. << >> \o z = z
      BY <2>5, ConcatEmptySeq
    <3>4. Without(r, c) = r
      <4>1. c \notin Range(r)
        BY <1>7, <2>16, MetricsFacts
      <4>. QED
        BY <2>16, <4>1, WithoutNone
    <3>5. Without((<< c >> \o z) \o r, c) = Without(<< c >> \o z, c) \o Without(r, c)
      <4>. DEFINE x == << c >> \o z
      <4>1. x \in Seq(Followers) /\ r \in Seq(Followers)
        BY <2>10, <2>16
      <4>. HIDE DEF x
      <4>2. Without(x \o r, c) = Without(x, c) \o Without(r, c)
        BY <4>1, WithoutConcat
      <4>. QED
        BY <4>2 DEF x
    <3>. QED
      BY <2>7, <3>2, <3>3, <3>4, <3>5
  <2>18. d[p] = z \o SubSeq(g[p], 1, L + 1)
    <3>. DEFINE o == g[p][L + 1]
    <3>1. d[p] = (z \o r) \o << o >>
      BY <1>2, <2>2, <2>14, <2>17
    <3>2. o \in Followers
      BY <2>16
    <3>. HIDE DEF o
    <3>3. z \o Append(r, o) = Append(z \o r, o)
      BY <2>5, <2>16, <3>2, AppendToConcat
    <3>4. z \o r \in Seq(Followers)
      BY <2>5, <2>16, ConcatProperties
    <3>5. Append(z \o r, o) = (z \o r) \o << o >>
      BY <3>2, <3>4, AppendIsConcat
    <3>6. SubSeq(g[p], 1, L + 1) = Append(r, o)
      BY <2>16 DEF o
    <3>. QED
      BY <3>1, <3>3, <3>5, <3>6
  <2>19. Len(Passed(s, k, p)) = L + 1
    BY <1>2, <2>5, <2>8, AppendFacts DEF L
  <2>20. d[p] = Ahead(s, k, p) \o SubSeq(g[p], 1, Len(Passed(s, k, p)))
    BY <2>18, <2>19 DEF z
  <2>21. \A n \in B : d[n] = Ahead(s, k, n) \o SubSeq(g[n], 1, Len(Passed(s, k, n)))
    BY <2>4, <2>20
  <2>22. Unmetering(g, h, s, k, d)
    BY <2>3, <2>21 DEF Unmetering
  <2>. QED
    BY <2>22 DEF d
<1>. QED
  BY <1>6, <1>7

\* The end of profiling gives the program its graph back.
LEMMA MetersAreRemoved ==
  ASSUME NEW g \in Plain, NEW h, Metered(g, h)
  PROVE  Collected(Filtered(h, Range(MetricsNodes))) = g
<1>. DEFINE M == Range(MetricsNodes)
            B == Below(g, Root)
            s == Traversal(h).entered
            n == Len(s)
<1>1. h \in Wirings /\ g \in Wirings /\ B \subseteq Nodes /\ B \subseteq AllNodes
  BY PlainBelow DEF Metered
<1>2. s \in Seq(Connections) /\ n \in Nat
      /\ \A e \in Range(s) : e.child \in Range(h[e.parent])
  <2>1. Traversal(h) \in Trails /\ Orderly(h, Traversal(h))
    BY <1>1, WalkEnds
  <2>2. s \in Seq(Connections)
    BY <2>1 DEF Trails
  <2>. QED
    BY <2>1, <2>2, SeqFacts DEF Orderly
<1>3. ASSUME NEW p \in B PROVE Kids(s, p) = h[p]
  <2>1. p \in Below(h, Root) /\ Range(h[p]) \subseteq M /\ p \in AllNodes
    BY <1>1, MeteredBelow
  <2>2. p # Root
    BY <1>1, BelowIsLeast, AllNodesFinite DEF Followers
  <2>3. \A o \in Range(h[p]) : \A q \in Walking(h) : o \in Range(h[q]) => q = p
    BY <1>1, <2>1, WalkingNodes DEF Metered
  <2>4. Sole(h, p)
    BY <1>1, <2>2, <2>3 DEF Sole, Metered
  <2>5. Kids(Listed(Traversal(h), "entered"), p) = IF p \in Below(h, Root) THEN h[p] ELSE << >>
    BY <1>1, <2>1, <2>4, WalkLists DEF Ways, Lists
  <2>6. Listed(Traversal(h), "entered") = s
    BY DEF Listed
  <2>. QED
    BY <2>1, <2>5, <2>6
<1>. HIDE DEF s
<1>4. Enters(g, h, s)
  BY <1>2, <1>3 DEF Enters
<1>5. PICK f \in [0 .. n -> Wirings] :
           /\ f[0] = h
           /\ \A k \in 1 .. n : f[k] = Cut(h, M, f[k - 1], s[k])
           /\ f[n] = Filtered(h, M)
  BY <1>1, <1>2, FilteredInSteps DEF s
<1>. DEFINE S == {k \in 0 .. n : Unmetering(g, h, s, k, f[k])}
<1>6. 0 \in S
  <2>1. ASSUME NEW p \in B
        PROVE  h[p] = Ahead(s, 0, p) \o SubSeq(g[p], 1, Len(Passed(s, 0, p)))
    <3>1. Ahead(s, 0, p) = h[p] /\ Passed(s, 0, p) = << >>
      BY <1>2, <1>3, AheadFacts, PassedFacts
    <3>2. SubSeq(g[p], 1, 0) = << >> /\ Len(<< >>) = 0
      BY SubSeqEmpty, EmptySeq
    <3>3. h[p] \in Seq(Followers)
      BY <1>1 DEF Wirings
    <3>. QED
      BY <3>1, <3>2, <3>3, ConcatEmptySeq
  <2>2. Unmetering(g, h, s, 0, h)
    BY <2>1 DEF Unmetering
  <2>. QED
    BY <1>2, <1>5, <2>2
<1>7. ASSUME NEW k \in 1 .. n, k - 1 \in S PROVE k \in S
  <2>. DEFINE d == f[k - 1]
  <2>1. d \in Wirings /\ Unmetering(g, h, s, k - 1, d) /\ k \in 0 .. n /\ f[k] = Cut(h, M, d, s[k])
    <3>1. k - 1 \in 0 .. n /\ Unmetering(g, h, s, k - 1, f[k - 1])
      BY <1>7
    <3>2. k \in 0 .. n
      BY <1>2
    <3>. QED
      BY <1>5, <3>1, <3>2
  <2>. HIDE DEF d
  <2>2. Unmetering(g, h, s, k, Cut(h, M, d, s[k]))
    BY <1>4, <2>1, CutsMeter
  <2>. QED
    BY <2>1, <2>2
<1>8. n \in S
  <2>. HIDE DEF S, n
  <2>1. \A k \in 0 .. n : k \in S
    BY <1>2, <1>6, <1>7, Steps
  <2>. QED
    BY <1>2, <2>1
<1>. DEFINE d == Filtered(h, M)
<1>9. Unmetering(g, h, s, n, d)
  BY <1>5, <1>8
<1>. HIDE DEF d
<1>10. ASSUME NEW p \in Nodes PROVE d[p] = g[p]
  <2>1. CASE p \in B
    <3>1. d[p] = Ahead(s, n, p) \o SubSeq(g[p], 1, Len(Passed(s, n, p)))
      BY <1>9, <2>1 DEF Unmetering
    <3>2. Ahead(s, n, p) = << >> /\ Passed(s, n, p) = h[p]
      BY <1>2, <1>3, <2>1, AheadFacts, PassedFacts
    <3>3. Len(h[p]) = Len(g[p]) /\ g[p] \in Seq(Followers)
      BY <1>1, <2>1 DEF Metered, Wirings
    <3>4. SubSeq(g[p], 1, Len(g[p])) = g[p] /\ << >> \o g[p] = g[p]
      BY <3>3, SubSeqFull, ConcatEmptySeq
    <3>. QED
      BY <3>1, <3>2, <3>3, <3>4
  <2>2. CASE p \notin B
    <3>1. p \in AllNodes /\ h[p] = g[p]
      BY <2>2, MetricsFacts DEF Metered
    <3>. QED
      BY <1>9, <2>2, <3>1 DEF Unmetering
  <2>. QED
    BY <2>1, <2>2
<1>11. ASSUME NEW x \in AllNodes
       PROVE  (IF x \in Nodes \/ \E p \in Nodes : x \in Range(d[p]) THEN d[x] ELSE << >>) = g[x]
  <2>1. CASE x \in Nodes
    BY <1>10, <2>1
  <2>2. CASE x \notin Nodes
    <3>1. \A p \in Nodes : Range(g[p]) \subseteq Nodes
      BY MetricsFacts DEF Plain
    <3>2. ~ \E p \in Nodes : x \in Range(d[p])
      BY <1>10, <2>2, <3>1
    <3>3. g[x] = << >>
      BY <2>2 DEF Plain
    <3>. QED
      BY <2>2, <3>2, <3>3
  <2>. QED
    BY <2>1, <2>2
<1>12. Collected(d) = [x \in AllNodes |-> g[x]]
  BY <1>11 DEF Collected
<1>13. g = [x \in AllNodes |-> g[x]]
  BY <1>1 DEF Wirings
<1>. QED
  BY <1>12, <1>13 DEF d

\* Every connection below the root goes through a metrics node of its own.
LEMMA MetersEverything ==
  ASSUME NEW g \in Plain, NEW h, Metered(g, h)
  PROVE  /\ \A n \in Below(h, Root) \cap Nodes : Range(h[n]) \subseteq Range(MetricsNodes)
         /\ \A m \in Below(h, Root) \ Nodes :
              /\ Len(h[m]) = 1
              /\ Cardinality({l \in Links(h) : h[l[1]][l[2]] = m}) = 1
<1>1. \A n \in Below(h, Root) \cap Nodes : Range(h[n]) \subseteq Range(MetricsNodes)
  BY MeteredBelow
<1>2. ASSUME NEW m \in Below(h, Root) \ Nodes
      PROVE  Len(h[m]) = 1 /\ Cardinality({l \in Links(h) : h[l[1]][l[2]] = m}) = 1
  <2>1. PICK n \in Below(g, Root) : m \in Range(MetricsNodes) /\ m \in Range(h[n])
    BY MeteredBelow
  <2>2. PICK j \in 1 .. Len(g[n]) : m = h[n][j] /\ h[m] = << g[n][j] >>
    BY <2>1, MeteredBelow
  <2>3. Len(h[m]) = 1
    BY <2>2
  <2>4. n \in AllNodes /\ h \in Wirings /\ Len(h[n]) = Len(g[n]) /\ IsInjective(h[n])
    BY PlainBelow DEF Metered
  <2>5. \A q \in AllNodes : DOMAIN h[q] = 1 .. Len(h[q]) /\ h[q] \in Seq(Followers)
    BY <2>4, SeqFacts DEF Wirings
  <2>. DEFINE Lines == {l \in Links(h) : h[l[1]][l[2]] = m}
  <2>6. <<n, j>> \in Lines
    <3>1. <<n, j>> \in {n} \X DOMAIN h[n]
      BY <2>2, <2>4, <2>5
    <3>. QED
      BY <2>2, <2>4, <3>1 DEF Links
  <2>7. ASSUME NEW l \in Lines PROVE l = <<n, j>>
    <3>1. PICK q \in AllNodes : l \in {q} \X DOMAIN h[q]
      BY <2>7 DEF Links
    <3>2. l = <<q, l[2]>> /\ l[1] = q /\ l[2] \in DOMAIN h[q] /\ h[q][l[2]] = m
      BY <2>7, <3>1
    <3>3. m \in Range(h[q])
      BY <3>2 DEF Range
    <3>4. q = n
      BY <2>1, <2>4, <3>3 DEF Metered
    <3>5. j \in DOMAIN h[n]
      BY <2>2, <2>4, <2>5
    <3>6. l[2] = j
      BY <2>2, <2>4, <3>2, <3>4, <3>5 DEF IsInjective
    <3>. QED
      BY <3>2, <3>4, <3>6
  <2>8. Lines = {<<n, j>>}
    BY <2>6, <2>7
  <2>9. Cardinality({<<n, j>>}) = 1
    BY FS_Singleton
  <2>. HIDE DEF Lines
  <2>10. Cardinality(Lines) = 1
    BY <2>8, <2>9
  <2>. QED
    BY <2>3, <2>10 DEF Lines
<1>. QED
  BY <1>1, <1>2

\* Profiling is always of a graph that the program has made.
Profiled ==
  IF metrics_instrumented
  THEN \E g \in Plain : Small(g) /\ observers = Instrumented(g)
  ELSE observers \in Plain /\ Small(observers)

LEMMA WithoutIsShorter ==
  ASSUME NEW S, NEW list \in Seq(S), NEW node
  PROVE  Len(Without(list, node)) <= Len(list)
<1>. DEFINE P == {s \in Seq(S) : Len(Without(s, node)) <= Len(s)}
<1>1. << >> \in P
  <2>1. << >> \in Seq(S) /\ Len(<< >>) = 0
    BY EmptySeq
  <2>. QED
    BY <2>1, WithoutEmpty
<1>2. ASSUME NEW s \in P, NEW o \in S PROVE Append(s, o) \in P
  <2>1. Append(s, o) \in Seq(S) /\ Len(Append(s, o)) = Len(s) + 1
    BY AppendFacts
  <2>2. Without(s, node) \in Seq(S)
    BY WithoutType
  <2>3. Len(Append(Without(s, node), o)) = Len(Without(s, node)) + 1
    BY <2>2, AppendFacts
  <2>4. Without(Append(s, o), node) =
           IF o = node THEN Without(s, node) ELSE Append(Without(s, node), o)
    BY WithoutAppend
  <2>5. Len(s) \in Nat /\ Len(Without(s, node)) \in Nat
    BY <2>2, SeqFacts
  <2>. QED
    BY <2>1, <2>3, <2>4, <2>5
<1>3. list \in P
  <2>. HIDE DEF P
  <2>1. P \in SUBSET Seq(S)
    BY DEF P
  <2>. QED
    BY <1>1, <1>2, <2>1, AppendInduction
<1>. QED
  BY <1>3

LEMMA SmallAtFirst ==
  ASSUME Init
  PROVE  observers \in Plain /\ Small(observers)
<1>1. observers \in Wirings /\ \A n \in AllNodes : observers[n] = << >>
  BY EmptySeq DEF Init, Wirings
<1>2. observers \in Plain
  BY <1>1, EmptyRange DEF Plain
<1>3. Made(observers) = {}
  BY <1>1, EmptyRange DEF Made, Links
<1>4. Small(observers)
  <2>1. Cardinality({}) = 0 /\ 0 <= MaxLinks
    BY FS_EmptySet, GraphAssumption
  <2>. QED
    BY <1>3, <2>1 DEF Small, Made
<1>. QED
  BY <1>2, <1>4

LEMMA ConnectedPlain ==
  ASSUME NEW g \in Plain, NEW n \in Nodes, NEW o \in Nodes \ {Root}
  PROVE  Connected(g, n, o) \in Plain
<1>1. g \in Wirings /\ n \in AllNodes /\ o \in Followers
  BY PlainBelow, MetricsFacts DEF Followers
<1>2. Connected(g, n, o) \in Wirings
  BY <1>1, ConnectedType
<1>3. \A x \in AllNodes : Connected(g, n, o)[x] = IF x = n THEN Append(g[n], o) ELSE g[x]
  BY <1>1 DEF Connected, Wirings
<1>4. g[n] \in Seq(Followers)
  BY <1>1 DEF Wirings
<1>5. Range(Append(g[n], o)) = Range(g[n]) \cup {o}
  BY <1>1, <1>4, AppendFacts
<1>. QED
  BY <1>1, <1>2, <1>3, <1>5 DEF Plain

LEMMA DisconnectedPlain ==
  ASSUME NEW g \in Plain, Small(g), NEW n \in Nodes, NEW o
  PROVE  Disconnected(g, n, o) \in Plain /\ Small(Disconnected(g, n, o))
<1>. DEFINE d == Disconnected(g, n, o)
<1>1. g \in Wirings /\ n \in AllNodes
  BY PlainBelow, MetricsFacts
<1>2. d \in Wirings
  BY <1>1, DisconnectedType
<1>3. \A x \in AllNodes : d[x] = IF x = n THEN Without(g[n], o) ELSE g[x]
  BY <1>1 DEF Disconnected, Wirings
<1>4. g[n] \in Seq(Followers)
  BY <1>1 DEF Wirings
<1>5. /\ Range(Without(g[n], o)) = Range(g[n]) \ {o}
      /\ Len(Without(g[n], o)) <= Len(g[n])
  BY <1>4, WithoutRange, WithoutIsShorter
<1>. HIDE DEF d
<1>6. d \in Plain
  BY <1>2, <1>3, <1>5 DEF Plain
<1>7. \A x \in AllNodes : DOMAIN d[x] \subseteq DOMAIN g[x]
  <2>1. /\ DOMAIN d[n] = 1 .. Len(d[n]) /\ Len(d[n]) \in Nat
        /\ DOMAIN g[n] = 1 .. Len(g[n]) /\ Len(g[n]) \in Nat
    BY <1>1, <1>2, ListFacts
  <2>2. Len(d[n]) <= Len(g[n])
    BY <1>1, <1>3, <1>5
  <2>3. DOMAIN d[n] \subseteq DOMAIN g[n]
    BY <2>1, <2>2
  <2>. QED
    BY <1>3, <2>3
<1>8. Made(d) \in SUBSET Made(g)
  BY <1>7 DEF Made, Links
<1>9. Small(d)
  <2>. DEFINE A == Made(d)
              C == Made(g)
  <2>1. A \in SUBSET C /\ IsFiniteSet(C) /\ Cardinality(A) \in Nat /\ Cardinality(C) \in Nat
    BY <1>1, <1>2, <1>8, LinksFinite
  <2>2. Cardinality(C) <= MaxLinks
    BY DEF Small, Made
  <2>. HIDE DEF A, C
  <2>3. Cardinality(A) <= Cardinality(C)
    BY <2>1, FS_Subset
  <2>4. MaxLinks \in Int
    BY GraphAssumption
  <2>5. Cardinality(A) <= MaxLinks
    BY <2>1, <2>2, <2>3, <2>4
  <2>. QED
    BY <2>5 DEF Small, Made, A
<1>. QED
  BY <1>6, <1>9 DEF d

LEMMA FilteredPlain ==
  ASSUME NEW g \in Plain, NEW Rejected
  PROVE  Filtered(g, Rejected) \in Plain
<1>. DEFINE s == Traversal(g).entered
            n == Len(s)
<1>1. /\ g \in Wirings /\ s \in Seq(Connections) /\ n \in Nat
      /\ \A e \in Range(s) : e.parent \in Walking(g)
  <2>1. g \in Wirings
    BY PlainBelow
  <2>2. Traversal(g) \in Trails /\ Orderly(g, Traversal(g))
    BY <2>1, WalkEnds
  <2>3. s \in Seq(Connections)
    BY <2>2 DEF Trails
  <2>. QED
    BY <2>1, <2>2, <2>3, SeqFacts DEF Orderly
<1>2. \A x \in Walking(g) : x \in Nodes
  BY PlainBelow, GraphAssumption DEF Walking
<1>3. PICK h \in [0 .. n -> Wirings] :
           /\ h[0] = g
           /\ \A k \in 1 .. n : h[k] = Cut(g, Rejected, h[k - 1], s[k])
           /\ h[n] = Filtered(g, Rejected)
  BY <1>1, FilteredInSteps
<1>. HIDE DEF s
<1>. DEFINE S == {k \in 0 .. n : h[k] \in Plain}
<1>4. 0 \in S
  BY <1>1, <1>3
<1>5. ASSUME NEW k \in 1 .. n, k - 1 \in S PROVE k \in S
  <2>. DEFINE d == h[k - 1]
              e == s[k]
  <2>1. d \in Plain /\ k \in 0 .. n /\ h[k] = Cut(g, Rejected, d, e) /\ d \in Wirings
    <3>1. k - 1 \in 0 .. n /\ h[k - 1] \in Plain
      BY <1>5
    <3>2. k \in 0 .. n
      BY <1>1
    <3>. QED
      BY <1>3, <3>1, <3>2
  <2>2. e \in Connections /\ e.parent \in Nodes
    <3>1. e \in Connections /\ e \in Range(s)
      BY <1>1, SeqFacts
    <3>. QED
      BY <1>1, <1>2, <3>1
  <2>3. /\ e.parent \in AllNodes /\ e.child \in Followers /\ e.child \in AllNodes
        /\ e = Connection(e.parent, e.child)
    BY <2>2, AllNodesFinite DEF Connections, Connection
  <2>. HIDE DEF d, e
  <2>4. CASE e.child \notin Rejected
    BY <2>1, <2>4 DEF Cut
  <2>5. CASE e.child \in Rejected
    <3>. DEFINE p == e.parent
                c == e.child
                f == h[k]
    <3>1. f \in Wirings
      BY <1>3, <2>1
    <3>2. \A x \in AllNodes : f[x] = IF x = p THEN Without(d[p], c) \o g[c] ELSE d[x]
      <4>1. \A x \in AllNodes : Cut(g, Rejected, d, Connection(p, c))[x] =
                                  IF x = p THEN Without(d[p], c) \o g[c] ELSE d[x]
        BY <1>1, <2>1, <2>3, <2>5, CutLists
      <4>. QED
        BY <2>1, <2>3, <4>1
    <3>. HIDE DEF f, p, c
    <3>3. p \in Nodes /\ p \in AllNodes /\ c \in AllNodes
      BY <2>2, <2>3 DEF p, c
    <3>4. d[p] \in Seq(Followers) /\ g[c] \in Seq(Followers)
      BY <1>1, <2>1, <3>3 DEF Wirings
    <3>5. Without(d[p], c) \in Seq(Followers) /\ Range(Without(d[p], c)) = Range(d[p]) \ {c}
      BY <3>4, WithoutType, WithoutRange
    <3>6. Range(Without(d[p], c) \o g[c]) = Range(Without(d[p], c)) \cup Range(g[c])
      BY <3>4, <3>5, RangeConcatenation
    <3>7. Range(d[p]) \subseteq Nodes /\ Range(g[c]) \subseteq Nodes
      BY <2>1, <3>3 DEF Plain
    <3>8. \A x \in AllNodes : Range(f[x]) \subseteq Nodes /\ (x \notin Nodes => f[x] = << >>)
      BY <2>1, <3>2, <3>3, <3>5, <3>6, <3>7 DEF Plain
    <3>9. f \in Plain
      BY <3>1, <3>8 DEF Plain
    <3>. QED
      BY <2>1, <3>9 DEF f
  <2>. QED
    BY <2>4, <2>5
<1>6. n \in S
  <2>. HIDE DEF S, n
  <2>1. \A k \in 0 .. n : k \in S
    BY <1>1, <1>4, <1>5, Steps
  <2>. QED
    BY <1>1, <2>1
<1>. QED
  BY <1>3, <1>6

LEMMA ProfilingUndone ==
  ASSUME NEW g \in Plain, Small(g)
  PROVE  /\ Metered(g, Instrumented(g))
         /\ Collected(Filtered(Instrumented(g), Range(MetricsNodes))) = g
<1>. DEFINE w == Walked(g)
<1>1. Covers(g, w)
  BY WalkIsShort DEF Covers
<1>2. Metered(g, Instrumented(g))
  <2>. HIDE DEF w
  <2>1. w = Walked(g)
    BY DEF w
  <2>. QED
    BY <1>1, <2>1, InstrumentedIsMetered
<1>. QED
  BY <1>2, MetersAreRemoved

LEMMA NextProfiled ==
  ASSUME Profiled, Next
  PROVE  Profiled'
<1>1. ASSUME NEW n \in Nodes, NEW o \in Nodes \ {Root}, Connect(n, o)
      PROVE  Profiled'
  <2>1. /\ observers \in Plain
        /\ observers' = Connected(observers, n, o) /\ Small(observers')
        /\ metrics_instrumented' = metrics_instrumented /\ ~metrics_instrumented
    BY <1>1 DEF Connect, MayEdit, Profiled
  <2>2. observers' \in Plain
    BY <2>1, ConnectedPlain
  <2>. QED
    BY <2>1, <2>2 DEF Profiled, Small, Links
<1>2. ASSUME NEW n \in Nodes, NEW o \in Nodes \ {Root}, Disconnect(n, o)
      PROVE  Profiled'
  <2>1. /\ observers \in Plain /\ Small(observers)
        /\ observers' = Disconnected(observers, n, o)
        /\ metrics_instrumented' = metrics_instrumented /\ ~metrics_instrumented
    BY <1>2 DEF Disconnect, MayEdit, Profiled
  <2>2. observers' \in Plain /\ Small(observers')
    BY <2>1, DisconnectedPlain
  <2>. QED
    BY <2>1, <2>2 DEF Profiled, Small, Links
<1>3. ASSUME NEW Rejected \in SUBSET (Nodes \ {Root}), FilterNodes(Rejected)
      PROVE  Profiled'
  <2>1. /\ observers \in Plain
        /\ observers' = Filtered(observers, Rejected) /\ Small(observers')
        /\ metrics_instrumented' = metrics_instrumented /\ ~metrics_instrumented
    BY <1>3 DEF FilterNodes, Profiled
  <2>2. observers' \in Plain
    BY <2>1, FilteredPlain
  <2>. QED
    BY <2>1, <2>2 DEF Profiled, Small, Links
<1>4. ASSUME InstrumentMetrics PROVE Profiled'
  <2>1. /\ observers \in Plain /\ Small(observers)
        /\ observers' = Instrumented(observers) /\ metrics_instrumented'
    BY <1>4 DEF InstrumentMetrics, Profiled
  <2>2. \E g \in Plain : Small(g) /\ observers' = Instrumented(g)
    BY <2>1
  <2>. QED
    BY <2>1, <2>2 DEF Profiled
<1>5. ASSUME DeinstrumentMetrics PROVE Profiled'
  <2>1. PICK g \in Plain : Small(g) /\ observers = Instrumented(g)
    BY <1>5 DEF DeinstrumentMetrics, Profiled
  <2>2. observers' = g /\ ~metrics_instrumented'
    BY <1>5, <2>1, ProfilingUndone DEF DeinstrumentMetrics
  <2>. QED
    BY <2>1, <2>2 DEF Profiled, Small, Links
<1>. QED
  BY <1>1, <1>2, <1>3, <1>4, <1>5 DEF Next

LEMMA ProfiledRuns ==
  ASSUME TypeInv, Profiled
  PROVE  Profiles
<1>1. AllMetered
  <2>1. SUFFICES ASSUME metrics_instrumented
                 PROVE  /\ \A n \in Below(observers, Root) \cap Nodes :
                             Range(observers[n]) \subseteq Range(MetricsNodes)
                        /\ \A m \in Below(observers, Root) \ Nodes :
                             /\ Len(observers[m]) = 1
                             /\ Cardinality({l \in Links(observers) : observers[l[1]][l[2]] = m}) = 1
    BY DEF AllMetered
  <2>2. PICK g \in Plain : Small(g) /\ observers = Instrumented(g)
    BY <2>1 DEF Profiled
  <2>3. Metered(g, observers)
    BY <2>2, ProfilingUndone
  <2>. QED
    BY <2>3, MetersEverything
<1>2. RoundTrip
  BY ProfilingUndone DEF RoundTrip, Profiled
<1>. QED
  BY <1>1, <1>2 DEF Profiles

\* Whatever graph the program has built, profiling puts a metrics node of its
\* own into every connection below the root, and its end gives the program its
\* graph back, the same connections in the same order.
THEOREM ProfilingIsUndone == Spec => []Profiles
<1>1. Init => Profiled
  <2>1. SUFFICES ASSUME Init PROVE Profiled
    OBVIOUS
  <2>2. observers \in Plain /\ Small(observers)
    BY <2>1, SmallAtFirst
  <2>3. ~metrics_instrumented
    BY <2>1 DEF Init
  <2>. QED
    BY <2>2, <2>3 DEF Profiled
<1>2. Profiled /\ [Next]_vars => Profiled'
  <2>1. ASSUME Profiled, UNCHANGED vars PROVE Profiled'
    <3>1. observers' = observers /\ metrics_instrumented' = metrics_instrumented
      BY <2>1 DEF vars
    <3>2. CASE metrics_instrumented
      <4>1. PICK g \in Plain : Small(g) /\ observers = Instrumented(g)
        BY <2>1, <3>2 DEF Profiled
      <4>2. \E d \in Plain : Small(d) /\ observers' = Instrumented(d)
        BY <3>1, <4>1
      <4>. QED
        BY <3>1, <3>2, <4>2 DEF Profiled
    <3>3. CASE ~metrics_instrumented
      <4>1. observers \in Plain /\ Small(observers)
        BY <2>1, <3>3 DEF Profiled
      <4>. QED
        BY <3>1, <3>3, <4>1 DEF Profiled, Small, Links
    <3>. QED
      BY <3>2, <3>3
  <2>. QED
    BY <2>1, NextProfiled
<1>3. TypeInv /\ Profiled => Profiles
  BY ProfiledRuns
<1>. QED
  BY <1>1, <1>2, <1>3, Typed, PTL DEF Spec
=============================================================================
