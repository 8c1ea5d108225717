---------------------------- MODULE MCJetstream ----------------------------
(* Instance of Jetstream for TLC.                                          *)
EXTENDS Jetstream, TLC

\* What the posts say is of no matter.
Symmetric == Permutations(Texts)
=============================================================================
