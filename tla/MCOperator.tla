----------------------------- MODULE MCOperator -----------------------------
(* Instance of Operator: a host with a daemon and command processes, and an *)
(* operator who also writes from afar.                                      *)
EXTENDS Operator

CONSTANTS d1, noArg, badArg

Req(op, arg) == [op |-> op, arg |-> arg]
Locals == {Req("pause", noArg), Req("approve", badArg)}
Remotes == {Req("pause", noArg), Req("resume", noArg), Req("unknown", noArg)}
Ask(id, companion, post, like, narrow, expires) ==
    [id |-> id, companion |-> companion, kinds |-> [post |-> post, like |-> like],
     narrow |-> narrow, expires |-> expires]
ArmPlans == {Ask("arm", "arm-actions", 2, 1, TRUE, FALSE)}
GrantAsks == {Ask("other", "other", 0, 1, TRUE, TRUE)}
Proposals == {[kind |-> "post", digest |-> d1, fits |-> TRUE]}
Order == <<"arm", "arm-actions", "other">>
Armed == [FailClosed EXCEPT !.writes_enabled = TRUE, !.dry_run = FALSE]
Either == {FailClosed, Armed}
SomePolicy == {[post |-> 0, like |-> 1]}
=============================================================================
