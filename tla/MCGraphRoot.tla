---------------------------- MODULE MCGraphRoot ----------------------------
(* A sensor, a producer and a sink; the sensor feeds both, and the root is   *)
(* connected to the sensor.  The sensor and the producer have threads.       *)
EXTENDS GraphRoot, TLC
CONSTANTS root, sensor, producer, sink
Metrics == <<1, 2, 3, 4>>
NoLinks == [n \in Nodes \cup Range(Metrics) |-> <<>>]
Fork == {root :> <<sensor>> @@ sensor :> <<sink, producer>> @@ producer :> <<sink>> @@ NoLinks,
         root :> <<producer, sensor>> @@ sensor :> <<producer, sink>> @@ NoLinks}
===========================================================================
