---------------------------- MODULE MCIngestion ----------------------------
(* Instances of Ingestion for TLC.                                         *)
EXTENDS Ingestion

CONSTANTS p1, p2
=============================================================================
