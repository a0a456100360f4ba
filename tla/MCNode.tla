------------------------------ MODULE MCNode ------------------------------
(* Small graphs for TLC.  Links are written <<parent, child>>; the k-th link *)
(* of a parent in the sequence is its k-th observer.                         *)
EXTENDS Node, FiniteSets, TLC

CONSTANTS a, b, c, t1, t2, m1, m2

\* observer lists after a sequence of connect calls
Lists(calls) ==
  [n \in Nodes |->
     {[at |-> Cardinality({j \in 1..i : calls[j][1] = n}), to |-> calls[i][2]] :
        i \in {i \in 1..Len(calls) : calls[i][1] = n}}]

\* a sends to b and c, and b to c
Triangle == {Lists(<< <<a, b>>, <<a, c>>, <<b, c>> >>)}
Down == (a :> 2 @@ b :> 1 @@ c :> 0)

\* both threads enter at a, and one of them also below it
FromTop == (t1 :> {a} @@ t2 :> {a, b})
\* b passes some messages on, and c copies what it receives with its header
Mixed == (a :> "sink" @@ b :> "filter" @@ c :> "header")
===========================================================================
