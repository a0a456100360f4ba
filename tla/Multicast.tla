----------------------------- MODULE Multicast -----------------------------
(***************************************************************************)
(* What a Node promises its observers, without threads, mutexes and call   *)
(* stacks: the notifications of one node take place one after the other,   *)
(* each is numbered, and each goes once through every connection that is   *)
(* there when it begins or is added while it lasts, save the connections   *)
(* that are removed before their turn.                                     *)
(***************************************************************************)
EXTENDS Naturals

CONSTANTS
  Nodes,       \* the nodes of the graph
  Links,       \* the connections of one node: records with a field "to"
  Graphs       \* the connections the program may start from

VARIABLES
  links,       \* links[n]: the connections of n
  sent,        \* sent[n]: the notifications n has made, to itself or to others
  busy,        \* the nodes with a notification under way
  due,         \* due[n]: the connections it has still to go through
  got          \* got[o][n]: the last notification of n that o received

mvars == <<links, sent, busy, due, got>>

Init ==
  /\ links \in Graphs
  /\ sent = [n \in Nodes |-> 0]
  /\ busy = {}
  /\ due = [n \in Nodes |-> {}]
  /\ got = [o \in Nodes |-> [n \in Nodes |-> 0]]

\* n begins a notification of the observers it has now.
Begin(n) ==
  /\ n \notin busy
  /\ busy' = busy \cup {n}
  /\ sent' = [sent EXCEPT ![n] = @ + 1]
  /\ due' = [due EXCEPT ![n] = links[n]]
  /\ UNCHANGED <<links, got>>

\* n notifies itself alone.
Skip(n) ==
  /\ n \notin busy
  /\ sent' = [sent EXCEPT ![n] = @ + 1]
  /\ UNCHANGED <<links, busy, due, got>>

\* The notification goes through the next connection.
Hand(n) ==
  /\ n \in busy
  /\ \E l \in due[n] :
       /\ got' = [got EXCEPT ![l.to][n] = sent[n]]
       /\ due' = [due EXCEPT ![n] = @ \ {l}]
  /\ UNCHANGED <<links, sent, busy>>

\* The notification has gone through all of them.
End(n) ==
  /\ n \in busy
  /\ due[n] = {}
  /\ busy' = busy \ {n}
  /\ UNCHANGED <<links, sent, due, got>>

\* A new connection takes part in the notification under way.
Connect(n) ==
  \E l \in Links \ links[n] :
    /\ links' = [links EXCEPT ![n] = @ \cup {l}]
    /\ due' = IF n \in busy THEN [due EXCEPT ![n] = @ \cup {l}] ELSE due
    /\ UNCHANGED <<sent, busy, got>>

\* All the connections to one observer go away.
Disconnect(n) ==
  \E o \in Nodes :
    /\ links' = [links EXCEPT ![n] = {l \in @ : l.to # o}]
    /\ due' = [due EXCEPT ![n] = {l \in @ : l.to # o}]
    /\ UNCHANGED <<sent, busy, got>>

Next == \E n \in Nodes :
  Begin(n) \/ Skip(n) \/ Hand(n) \/ End(n) \/ Connect(n) \/ Disconnect(n)

Spec == Init /\ [][Next]_mvars

=============================================================================
