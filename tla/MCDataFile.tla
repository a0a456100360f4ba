----------------------------- MODULE MCDataFile -----------------------------
(* Two threads record a short and a longer message.                          *)
EXTENDS DataFile, TLC
CONSTANTS short, long
Sizes == (short :> 1 @@ long :> 2)
=============================================================================
