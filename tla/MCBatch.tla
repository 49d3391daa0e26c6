--------------------------------- MODULE MCBatch ---------------------------------
(* Batch for TLC: more inputs than may be inferred at a time.                *)
EXTENDS Batch, TLC
=============================================================================
