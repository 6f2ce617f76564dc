---------------------------- MODULE MCSampling ----------------------------
(* Sampling for TLC: samplings with Total up to 2, three merges.           *)
EXTENDS Sampling
=============================================================================
