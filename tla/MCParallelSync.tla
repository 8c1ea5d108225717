--------------------------- MODULE MCParallelSync ---------------------------
(* Instances of ParallelSync for TLC.                                      *)
EXTENDS ParallelSync

CONSTANTS w1, w2
=============================================================================
