----------------------------- MODULE MCOutbound -----------------------------
(* Instance of Outbound: one action the scheduler proposes, one by hand. *)
EXTENDS Outbound

CONSTANTS s, c, noAct
=============================================================================
