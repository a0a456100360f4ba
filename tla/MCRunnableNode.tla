--------------------------- MODULE MCRunnableNode ---------------------------
(* Two nodes: one whose loop runs until it is stopped, one that ends itself. *)
EXTENDS RunnableNode
CONSTANTS endless, player
=============================================================================
