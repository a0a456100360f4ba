----------------------------- MODULE MCMetrics -----------------------------
(* Messages of two sources: usual ones, and ones whose sender's clock is     *)
(* ahead, so that their latency is negative.                                 *)
EXTENDS Metrics
CONSTANTS a, b
Usual == <<2, 4, 6, 2>>
Ahead == <<4, 2, 2, -2>>
TwoSamples == {Usual, Ahead}
OneSample == {Usual}
===========================================================================
