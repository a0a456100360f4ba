--------------------------- MODULE MCInterpreter ----------------------------
(* A generator feeds, through a node, an EveryN above a Python function, a   *)
(* buffer, and a filter above a Python node, a saver and a callback; the     *)
(* Python program sends to the first node, and to the buffer through another *)
(* one, and makes the calls that are safe there.                             *)
EXTENDS Interpreter, TLC
CONSTANTS g, u, v, e, p, l, b, s, f, y, d, c
Graph == g :> <<u>> @@ u :> <<e, b, f>> @@ v :> <<b>> @@ e :> <<p>> @@ p :> <<l>>
           @@ b :> <<s>> @@ f :> <<y>> @@ y :> <<d>> @@ d :> <<c>>
           @@ [n \in {l, s, c} |-> <<>>]
Kinds == [n \in {g, u, v} |-> "node"] @@ e :> "every" @@ p :> "map" @@ l :> "last"
           @@ b :> "buffer" @@ s :> "last" @@ f :> "filter" @@ y :> "python object"
           @@ d :> "saver" @@ c :> "callback"
SafeCalls == {<<"signal", u>>, <<"signal object", v>>, <<"receive", b>>, <<"chop", b>>,
              <<"last_message", s>>, <<"has_observers", b>>, <<"connect", u>>,
              <<"start", g>>, <<"stop", g>>}
\* the property that the binding of LastOne has
LastMessage == {<<"start", g>>, <<"last_message", l>>}
\* what SignalsEveryNth and SnapshotsStayInOrder ask of the graph and of the calls
Depth == [n \in {g, v} |-> 0] @@ u :> 1 @@ [n \in {e, b, f} |-> 2]
           @@ [n \in {p, s, y} |-> 3] @@ [n \in {l, d} |-> 4] @@ c :> 5
ASSUME DepthAssumption ==
  /\ LeadsDown(Depth)
  /\ \A n \in Nodes : Kind[n] = "every" => \E o \in Nodes : OnlyThrough(n, o)
  /\ \A n \in Nodes : Kind[n] = "last" =>
       \/ \E b1 \in Nodes : RemembersBuffer(n, b1)
       \/ \E above \in SUBSET Nodes : BelowNoBuffer(n, above)
=============================================================================
