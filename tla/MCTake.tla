------------------------------- MODULE MCTake -------------------------------
(* Three messages are wanted from two threads that send six.                 *)
EXTENDS Take
CONSTANTS s1, s2
=============================================================================
