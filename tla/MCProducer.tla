----------------------------- MODULE MCProducer -----------------------------
(* Two upstream threads and one producer that is stopped and restarted.      *)
EXTENDS Producer
CONSTANTS u1, u2
=============================================================================
