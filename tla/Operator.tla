------------------------------ MODULE Operator ------------------------------
(***************************************************************************)
(* Operator control: the control file (src/src/app/control/state.cpp), the *)
(* local `atperson control` commands, the remote channel that applies the  *)
(* operator's records in sequence (control/remote.cpp, remote_poll.cpp),   *)
(* authorization envelopes (control/envelope.cpp) and the arming command   *)
(* that writes envelopes, policy and control (autonomy/arming.cpp), beside *)
(* a daemon that polls the channel and attempts actions once a cycle.      *)
(*                                                                         *)
(* No lock covers these files: every command reads a whole file, changes   *)
(* its copy and renames it over the old one.  A read and a rename are each *)
(* one step, and any other process may run between them.                   *)
(*                                                                         *)
(* What is abstracted.  A policy and an envelope give each kind a ceiling  *)
(* (0: not enabled, not listed) over one window that lasts the whole run.  *)
(* An action either meets an envelope's scope terms and score floors or it *)
(* does not.  The outbound budget is a count per kind; the module Outbound *)
(* has the rest of an attempt.  last_sync_at is not kept: nothing reads it *)
(* back.  Listing is newest first, as remote_poll.cpp takes it to be.      *)
(***************************************************************************)
EXTENDS Integers, Sequences, FiniteSets, SequencesExt

CONSTANTS
    Digests, NoDigest, BadDigest,  \* arguments: 16 hex digits, none, something else
    MaxApproved,                   \* kMaxApprovedDigests
    TextKinds, TextlessKinds,      \* post and reply; like, repost and follow
    IdOrder,                       \* envelope ids, in the order of their file names
    Plans,                         \* what `autonomy arm` may be asked:
                                   \* [id, companion, kinds, narrow, expires]
    Grants,                        \* what `control envelope grant` may be asked, alike
    Offers,                        \* actions the scheduler may attempt: [kind, digest, fits]
    LocalOps, RemoteOps,           \* requests issued here and from afar: [op, arg]
    AccountDid, OperatorDid, NoDid, \* who the daemon is, who may command it
    MaxRecords, MaxApplies,        \* ATPERSON_REMOTE_MAX_RECORDS, _MAX_APPLIES
    Tools,                         \* one-shot command processes
    Commands,                      \* what they run
    InitControls, InitPolicies,    \* the control and policy files at the start
    MaxSeq, MaxCommands, MaxEmits, MaxFaults  \* bounds

Kinds == TextKinds \union TextlessKinds
\* The switches of the control file that one operation sets, and to what.
Switch ==
    [ pause |-> <<"paused", TRUE>>, resume |-> <<"paused", FALSE>>,
      writes_on |-> <<"writes_enabled", TRUE>>, writes_off |-> <<"writes_enabled", FALSE>>,
      dry_run_on |-> <<"dry_run", TRUE>>, dry_run_off |-> <<"dry_run", FALSE>>,
      offline_on |-> <<"offline_mode", TRUE>>, offline_off |-> <<"offline_mode", FALSE>>,
      approval_on |-> <<"approval_required", TRUE>>,
      approval_off |-> <<"approval_required", FALSE>>,
      shutdown |-> <<"shutdown", TRUE>>, cancel_shutdown |-> <<"shutdown", FALSE>> ]
TakesArgument == {"approve", "revoke"}
Ops == DOMAIN Switch \union TakesArgument
Requests == [op : Ops \union {"unknown"}, arg : Digests \union {NoDigest, BadDigest}]

ControlState == [paused : BOOLEAN, writes_enabled : BOOLEAN, dry_run : BOOLEAN,
                 offline_mode : BOOLEAN, approval_required : BOOLEAN, shutdown : BOOLEAN,
                 approved : SUBSET Digests]
\* load_control_state of a missing file: fail closed.
FailClosed == [paused |-> FALSE, writes_enabled |-> FALSE, dry_run |-> TRUE,
               offline_mode |-> FALSE, approval_required |-> TRUE, shutdown |-> FALSE,
               approved |-> {}]

Ids == ToSet(IdOrder)
Envelope == [kinds : [Kinds -> Nat], narrow : BOOLEAN, expires : BOOLEAN]
None == [none |-> TRUE]

ASSUME OperatorAssumption ==
    /\ NoDigest \notin Digests /\ BadDigest \notin Digests /\ IsFiniteSet(Digests)
    /\ MaxApproved \in Nat \ {0} /\ MaxRecords \in Nat \ {0} /\ MaxApplies \in Nat \ {0}
    /\ LocalOps \subseteq Requests /\ RemoteOps \subseteq Requests /\ IdOrder \in Seq(Ids)
    /\ \A c \in InitControls : c \in ControlState /\ Cardinality(c.approved) <= MaxApproved
    /\ InitPolicies \subseteq [Kinds -> Nat]
    /\ \A p \in Plans \union Grants :
           /\ p.id \in Ids /\ p.companion \in Ids /\ p.kinds \in [Kinds -> Nat] /\ \E k \in Kinds : p.kinds[k] > 0
           /\ p.narrow \in BOOLEAN /\ p.expires \in BOOLEAN
    /\ \A a \in Offers : a.kind \in Kinds /\ a.digest \in Digests /\ a.fits \in BOOLEAN
    /\ {MaxSeq, MaxCommands, MaxEmits, MaxFaults} \subseteq Nat

VARIABLES
    control,     \* control-state.json
    cursor,      \* remote-control-cursor.json: the last sequence applied
    policy,      \* outbound policy: kind -> ceiling
    envelopes,   \* envelope files: id -> Envelope or None
    remote,      \* records in the operator's repository: sequence -> request or None
    used,        \* actions of each kind counted in the window
    late,        \* the instant envelopes may expire at has passed
    proc,        \* what each process is doing, and the copies it holds
    commands, emits, faults,     \* counters for the bounds
    applied,     \* history: sequences of the requests saved into the control file
    inert        \* history: an arm began while writes were off, and the control
                 \* file has not been saved since

files == <<control, cursor, policy, envelopes, remote, used, late>>
vars == <<files, proc, commands, emits, faults, applied, inert>>

Procs == Tools \union {"daemon"}
Idle == [at |-> "idle"]
At(p, step) == proc[p].at = step
Become(p, r) == proc' = [proc EXCEPT ![p] = r]

Init ==
    /\ control \in InitControls /\ cursor = 0
    /\ policy \in InitPolicies
    /\ envelopes = [i \in Ids |-> None]
    /\ remote = [n \in 1..MaxSeq |-> None]
    /\ used = [k \in Kinds |-> 0] /\ late = FALSE
    /\ proc = [p \in Procs |-> Idle]
    /\ commands = 0 /\ emits = 0 /\ faults = 0
    /\ applied = <<>> /\ inert = FALSE

-----------------------------------------------------------------------------
(* Control requests.                                                         *)

\* validate: what save_control_state refuses to write.
valid(state) == Cardinality(state.approved) <= MaxApproved /\ state.approved \subseteq Digests

\* The shape an operation's argument must have.
well_formed(q) ==
    /\ q.op \in Ops
    /\ IF q.op \in TakesArgument THEN q.arg \in Digests ELSE q.arg = NoDigest

full(state, q) ==
    q.op = "approve" /\ q.arg \notin state.approved /\ Cardinality(state.approved) >= MaxApproved

mutate(state, q) ==
    CASE q.op \in DOMAIN Switch -> [state EXCEPT ![Switch[q.op][1]] = Switch[q.op][2]]
      [] q.op = "approve" -> [state EXCEPT !.approved = @ \union {q.arg}]
      [] q.op = "revoke" -> [state EXCEPT !.approved = @ \ {q.arg}]

\* Mutation: any later sequence is accepted, not only the next.
accepts_later(state, watermark, seq, q) == seq > watermark /\ well_formed(q) /\ ~full(state, q)

\* apply_control_request accepts exactly the next sequence, well formed, with room.
accepts(state, watermark, seq, q) ==
    /\ seq = watermark + 1
    /\ well_formed(q)
    /\ ~full(state, q)

\* Renaming a new control file into place.
save_control_state(state) == control' = state /\ inert' = FALSE

-----------------------------------------------------------------------------
(* Envelopes.                                                                *)

\* parse_authorization_envelope: an envelope narrows the policy or is invalid.
parses(e, pol) ==
    \A k \in Kinds : e.kinds[k] > 0 => pol[k] > 0 /\ e.kinds[k] <= pol[k]

save_authorization_envelope(i, e) == envelopes' = [envelopes EXCEPT ![i] = e]
revoke_authorization_envelope(ids) ==
    envelopes' = [i \in Ids |-> IF i \in ids THEN None ELSE envelopes[i]]

covers_action(e, a, usage, isLate) ==
    /\ ~(e.expires /\ isLate)
    /\ e.kinds[a.kind] > 0
    /\ usage[a.kind] < e.kinds[a.kind]
    /\ e.narrow => a.fits

\* list_authorization_envelopes: the files there are, by their place in the order.
present == {n \in DOMAIN IdOrder : envelopes[IdOrder[n]] # None}

\* The first envelope that covers the action, unless one before it does not
\* parse: load_authorization_envelope throws and the attempt is over.
find_covering_envelope(a, pol, usage) ==
    LET decisive == {n \in present :
                        LET e == envelopes[IdOrder[n]]
                        IN  ~parses(e, pol) \/ covers_action(e, a, usage, late)}
    IN  IF decisive = {} THEN "not_covered"
        ELSE IF parses(envelopes[IdOrder[CHOOSE n \in decisive : \A m \in decisive : n <= m]], pol)
             THEN "covered" ELSE "thrown"

\* The gates of execute_outbound_action in their order, without the duplicate
\* and spacing rules of the module Outbound.
verdict(state, pol, usage, a, coverage) ==
    IF state.offline_mode THEN "spooled"
    ELSE IF state.paused THEN "denied"
    ELSE IF usage[a.kind] >= pol[a.kind] THEN "deferred"
    ELSE IF state.dry_run THEN "dry_run"
    ELSE IF ~state.writes_enabled THEN "denied"
    ELSE IF ~state.approval_required \/ a.digest \in state.approved \/ coverage = "covered"
         THEN "write" ELSE "denied"

-----------------------------------------------------------------------------
(* Local commands.                                                           *)

Start(t, name, r) ==
    /\ name \in Commands /\ At(t, "idle") /\ commands < MaxCommands
    /\ commands' = commands + 1
    /\ Become(t, r)
    /\ UNCHANGED <<files, emits, faults, applied>>

\* A step of a running command that leaves the counters alone.
Step == UNCHANGED <<commands, emits, faults>>

\* `atperson control <op>`: load, change the copy, save.  A full list or an
\* argument that is no digest ends the command, and revoking what is not
\* approved saves nothing.
ControlLoad(t) ==
    /\ \E q \in LocalOps : Start(t, "control", [at |-> "edit", ctl |-> control, q |-> q])
    /\ UNCHANGED inert

ControlSave(t) ==
    /\ At(t, "edit")
    /\ LET ctl == proc[t].ctl q == proc[t].q
       IN  IF \/ ~well_formed(q) \/ full(ctl, q)
              \/ q.op = "revoke" /\ q.arg \notin ctl.approved
           THEN UNCHANGED <<control, inert>>
           ELSE save_control_state(mutate(ctl, q))
    /\ Become(t, Idle)
    /\ UNCHANGED <<cursor, policy, envelopes, remote, used, late, applied>> /\ Step

\* `atperson sync` refuses while paused, and after the traversal saves the
\* control state it read before it, for last_sync_at.
SyncLoad(t) ==
    /\ ~control.paused
    /\ Start(t, "sync", [at |-> "traverse", ctl |-> control])
    /\ UNCHANGED inert

SyncSave(t) ==
    /\ At(t, "traverse")
    /\ save_control_state(proc[t].ctl)
    /\ Become(t, Idle)
    /\ UNCHANGED <<cursor, policy, envelopes, remote, used, late, applied>> /\ Step

\* `control envelope grant`: refused when the id exists (or when what exists
\* does not parse), and when it would not narrow the policy.
GrantLoad(t) ==
    /\ \E g \in Grants : /\ envelopes[g.id] = None /\ parses(g, policy)
                         /\ Start(t, "grant", [at |-> "grant", g |-> g])
    /\ UNCHANGED inert

as_envelope(p, kinds, narrow) ==
    [kinds |-> [k \in Kinds |-> IF k \in kinds THEN p.kinds[k] ELSE 0],
     narrow |-> narrow, expires |-> p.expires]

GrantSave(t) ==
    /\ At(t, "grant")
    /\ LET g == proc[t].g
       IN  save_authorization_envelope(g.id, as_envelope(g, Kinds, g.narrow))
    /\ Become(t, Idle)
    /\ UNCHANGED <<control, cursor, policy, remote, used, late, applied, inert>> /\ Step

\* `control envelope revoke` removes the file.
RevokeEnvelope(t) ==
    /\ "revoke_envelope" \in Commands /\ At(t, "idle") /\ commands < MaxCommands
    /\ \E i \in Ids : revoke_authorization_envelope({i})
    /\ commands' = commands + 1
    /\ UNCHANGED <<control, cursor, policy, remote, used, late, proc, emits, faults,
                   applied, inert>>

-----------------------------------------------------------------------------
(* Arming and disarming.                                                     *)

listed(p) == {k \in Kinds : p.kinds[k] > 0}

\* plan_arm: the listed kinds get their ceilings in the policy, the control
\* state opens, and kinds with and without text get an envelope each; scope
\* and floors stay with the text.
plan_arm(p, ctl, pol) ==
    LET text == listed(p) \intersect TextKinds
        textless == listed(p) \intersect TextlessKinds
        base == IF text = {} THEN {} ELSE {<<p.id, as_envelope(p, text, p.narrow)>>}
        other == IF textless = {} THEN {}
                 ELSE {<<IF text = {} THEN p.id ELSE p.companion,
                         as_envelope(p, textless, FALSE)>>}
    IN  [control |-> [ctl EXCEPT !.paused = FALSE, !.writes_enabled = TRUE, !.dry_run = FALSE],
         policy |-> [k \in Kinds |-> IF k \in listed(p) THEN p.kinds[k] ELSE pol[k]],
         envelopes |-> base \union other]

\* `autonomy arm --apply` reads control and policy and plans; apply_arm then
\* removes both ids, saves the envelopes, the policy and, last, the control.
ArmLoad(t) ==
    /\ \E p \in Plans :
           Start(t, "arm", [at |-> "arm_revoke", id |-> p.id, companion |-> p.companion,
                            plan |-> plan_arm(p, control, policy)])
    /\ inert' = (~control.writes_enabled /\ ~At("daemon", "write"))

\* Mutation: the control state is opened first instead of last.
ArmRevoke_open_first(t) ==
    /\ At(t, "arm_revoke")
    /\ control' = proc[t].plan.control
    /\ revoke_authorization_envelope({proc[t].id, proc[t].companion})
    /\ Become(t, [proc[t] EXCEPT !.at = "arm_envelopes"])
    /\ UNCHANGED <<cursor, policy, remote, used, late, applied, inert>> /\ Step

ArmRevoke(t) ==
    /\ At(t, "arm_revoke")
    /\ revoke_authorization_envelope({proc[t].id, proc[t].companion})
    /\ Become(t, [proc[t] EXCEPT !.at = "arm_envelopes"])
    /\ UNCHANGED <<control, cursor, policy, remote, used, late, applied, inert>> /\ Step

ArmEnvelopes(t) ==
    /\ At(t, "arm_envelopes")
    /\ \E e \in proc[t].plan.envelopes :
           /\ save_authorization_envelope(e[1], e[2])
           /\ LET rest == proc[t].plan.envelopes \ {e}
              IN  Become(t, [proc[t] EXCEPT !.plan.envelopes = rest,
                                            !.at = IF rest = {} THEN "arm_policy" ELSE @])
    /\ UNCHANGED <<control, cursor, policy, remote, used, late, applied, inert>> /\ Step

ArmPolicy(t) ==
    /\ At(t, "arm_policy")
    /\ policy' = proc[t].plan.policy
    /\ Become(t, [proc[t] EXCEPT !.at = "arm_control"])
    /\ UNCHANGED <<control, cursor, envelopes, remote, used, late, applied, inert>> /\ Step

ArmControl(t) ==
    /\ At(t, "arm_control")
    /\ save_control_state(proc[t].plan.control)
    /\ Become(t, Idle)
    /\ UNCHANGED <<cursor, policy, envelopes, remote, used, late, applied>> /\ Step

\* `autonomy disarm`: writes off first, then both envelopes.
DisarmLoad(t) ==
    /\ \E p \in Plans : Start(t, "disarm", [at |-> "disarm", ctl |-> control, id |-> p.id,
                                            companion |-> p.companion])
    /\ UNCHANGED inert

DisarmControl(t) ==
    /\ At(t, "disarm")
    /\ save_control_state([proc[t].ctl EXCEPT !.writes_enabled = FALSE])
    /\ Become(t, [proc[t] EXCEPT !.at = "disarm_revoke"])
    /\ UNCHANGED <<cursor, policy, envelopes, remote, used, late, applied>> /\ Step

DisarmRevoke(t) ==
    /\ At(t, "disarm_revoke")
    /\ revoke_authorization_envelope({proc[t].id, proc[t].companion})
    /\ Become(t, Idle)
    /\ UNCHANGED <<control, cursor, policy, remote, used, late, applied, inert>> /\ Step

-----------------------------------------------------------------------------
(* The remote channel.                                                       *)

put(seq, q) ==
    /\ emits < MaxEmits /\ emits' = emits + 1
    /\ remote' = [remote EXCEPT ![seq] = q]
    /\ UNCHANGED <<control, cursor, policy, envelopes, used, late, proc, commands, faults,
                   applied, inert>>

\* `control remote emit` numbers the request from the local cursor: a second
\* emit before a poll replaces the first.
Emit == \E q \in RemoteOps : well_formed(q) /\ cursor < MaxSeq /\ put(cursor + 1, q)

\* Any other client of the operator's account, or an emit whose cursor file is
\* unreadable or on another host, may use any sequence and any text.
EmitElsewhere == \E q \in RemoteOps, n \in 1..MaxSeq : put(n, q)

\* wf_agent_list_records_typed: the newest records, at most MaxRecords, each with
\* its sequence; poll reverses them into ascending order.
listing ==
    LET written == {n \in 1..MaxSeq : remote[n] # None}
        newest == {n \in written : Cardinality({m \in written : m > n}) < MaxRecords}
    IN  {[seq |-> n, q |-> remote[n]] : n \in newest}

\* An operator that is not configured, or that is the entity's own account,
\* commands nothing: the pass ends with no candidates.
check_operator_channel == OperatorDid # NoDid /\ OperatorDid # AccountDid

Polling == [at |-> "poll", todo |-> IF check_operator_channel THEN listing ELSE {},
            wm |-> cursor, n |-> 0]
\* The daemon goes on to the scheduler when its poll ends, whatever it did.
PollEnd(p) == Become(p, IF p = "daemon" THEN [at |-> "offers"] ELSE Idle)

\* `control remote poll`.
PollStart(t) == Start(t, "poll", Polling) /\ UNCHANGED inert

\* The candidate a poll comes to next, in ascending order.
is_next(c, todo) == c \in todo /\ \A d \in todo : c.seq <= d.seq

\* Mutation: the apply budget also counts the records passed over.
PollNext_counts_all(p) ==
    /\ At(p, "poll")
    /\ LET s == proc[p]
       IN  \/ s.todo = {} /\ PollEnd(p)
           \/ \E c \in s.todo :
                 /\ is_next(c, s.todo)
                 /\ IF s.n >= MaxApplies THEN PollEnd(p)
                    ELSE IF ~well_formed(c.q) \/ ~accepts(control, s.wm, c.seq, c.q)
                    THEN Become(p, [s EXCEPT !.todo = @ \ {c}, !.n = @ + 1])
                    ELSE Become(p, [at |-> "poll_save", todo |-> s.todo \ {c}, wm |-> c.seq,
                                    n |-> s.n, ctl |-> mutate(control, c.q)])
    /\ UNCHANGED <<files, applied, inert>> /\ Step

\* The next candidate: what does not parse or is not new is passed over, the
\* apply budget ends the pass, and apply_control_request judges the rest
\* against the control file as it is now.
PollNext(p) ==
    /\ At(p, "poll")
    /\ LET s == proc[p]
       IN  \/ s.todo = {} /\ PollEnd(p)
           \/ \E c \in s.todo :
                 /\ is_next(c, s.todo)
                 /\ IF ~well_formed(c.q) \/ c.seq <= s.wm
                    THEN Become(p, [s EXCEPT !.todo = @ \ {c}])
                    ELSE IF s.n >= MaxApplies THEN PollEnd(p)
                    ELSE IF ~accepts(control, s.wm, c.seq, c.q)
                    THEN Become(p, [s EXCEPT !.todo = @ \ {c}])
                    ELSE Become(p, [at |-> "poll_save", todo |-> s.todo \ {c}, wm |-> c.seq,
                                    n |-> s.n, ctl |-> mutate(control, c.q)])
    /\ UNCHANGED <<files, applied, inert>> /\ Step

PollSave(p) ==
    /\ At(p, "poll_save")
    /\ save_control_state(proc[p].ctl)
    /\ applied' = Append(applied, proc[p].wm)
    /\ Become(p, [proc[p] EXCEPT !.at = "poll_cursor"])
    /\ UNCHANGED <<cursor, policy, envelopes, remote, used, late>> /\ Step

PollCursor(p) ==
    /\ At(p, "poll_cursor")
    /\ cursor' = proc[p].wm
    /\ Become(p, [at |-> "poll", todo |-> proc[p].todo, wm |-> proc[p].wm, n |-> proc[p].n + 1])
    /\ UNCHANGED <<control, policy, envelopes, remote, used, late, applied, inert>> /\ Step

-----------------------------------------------------------------------------
(* The daemon: a cycle syncs, then polls, then lets the scheduler execute.   *)

\* The loop runs a cycle only while no shutdown is asked for and it is not
\* paused; the poll is part of the cycle.
DaemonCycle ==
    /\ At("daemon", "idle") /\ ~control.shutdown /\ ~control.paused
    /\ Become("daemon", Polling)
    /\ UNCHANGED <<files, applied, inert>> /\ Step

\* The scheduler passes over a proposal that is neither approved nor covered;
\* an envelope that does not parse ends the daemon, which is started again.
Consider ==
    /\ At("daemon", "offers")
    /\ \/ Become("daemon", Idle)
       \/ \E a \in Offers :
             LET coverage == find_covering_envelope(a, policy, used)
             IN  Become("daemon",
                        IF a.digest \in control.approved \/ coverage = "covered"
                        THEN [at |-> "attempt", a |-> a] ELSE Idle)
    /\ UNCHANGED <<files, applied, inert>> /\ Step

\* attempt_outbound_action reads every gate again.
Attempt ==
    /\ At("daemon", "attempt")
    /\ LET a == proc["daemon"].a
           coverage == find_covering_envelope(a, policy, used)
       IN  Become("daemon",
                  IF coverage # "thrown" /\ verdict(control, policy, used, a, coverage) = "write"
                  THEN [at |-> "write", a |-> a] ELSE Idle)
    /\ UNCHANGED <<files, applied, inert>> /\ Step

\* The record is on the network and the budget counts it.
Write ==
    /\ At("daemon", "write")
    /\ used' = [used EXCEPT ![proc["daemon"].a.kind] = @ + 1]
    /\ Become("daemon", Idle)
    /\ UNCHANGED <<control, cursor, policy, envelopes, remote, late, applied, inert>> /\ Step

\* A process dies, or its transport fails, between two steps.
Crash(p) ==
    /\ ~At(p, "idle") /\ faults < MaxFaults
    /\ faults' = faults + 1
    /\ Become(p, Idle)
    /\ UNCHANGED <<files, commands, emits, applied, inert>>

TimePasses == ~late /\ late' = TRUE
              /\ UNCHANGED <<control, cursor, policy, envelopes, remote, used, proc, commands,
                             emits, faults, applied, inert>>

Tool(t) ==
    \/ ControlLoad(t) \/ ControlSave(t) \/ SyncLoad(t) \/ SyncSave(t)
    \/ GrantLoad(t) \/ GrantSave(t) \/ RevokeEnvelope(t)
    \/ ArmLoad(t) \/ ArmRevoke(t) \/ ArmEnvelopes(t) \/ ArmPolicy(t) \/ ArmControl(t)
    \/ DisarmLoad(t) \/ DisarmControl(t) \/ DisarmRevoke(t) \/ PollStart(t)

Poll(p) == PollNext(p) \/ PollSave(p) \/ PollCursor(p)

Daemon == DaemonCycle \/ Poll("daemon") \/ Consider \/ Attempt \/ Write

Next ==
    \/ \E t \in Tools : Tool(t) \/ Poll(t)
    \/ Daemon
    \/ Emit \/ EmitElsewhere \/ TimePasses
    \/ \E p \in Procs : Crash(p)

\* The daemon is a loop that keeps running; nothing obliges an operator.
Spec == Init /\ [][Next]_vars /\ WF_vars(Daemon)

-----------------------------------------------------------------------------
TypeOK ==
    /\ control \in ControlState /\ valid(control)
    /\ cursor \in 0..MaxSeq
    /\ policy \in [Kinds -> Nat] /\ used \in [Kinds -> Nat] /\ late \in BOOLEAN
    /\ \A i \in Ids : envelopes[i] = None \/ envelopes[i] \in Envelope
    /\ \A n \in 1..MaxSeq : remote[n] = None \/ remote[n] \in Requests
    /\ commands \in 0..MaxCommands /\ emits \in 0..MaxEmits /\ faults \in 0..MaxFaults
    /\ applied \in Seq(1..MaxSeq) /\ inert \in BOOLEAN

\* However polls by the daemon and by hand overlap and wherever they die, no
\* request takes effect before every request numbered below it has, and the
\* watermark on disk never runs ahead of what was applied (remote_poll.cpp
\* commits the cursor after the state it justifies; remote.cpp refuses a gap).
AppliedWithoutGaps ==
    /\ \A i \in DOMAIN applied : \A n \in 1..(applied[i] - 1) : \E j \in 1..(i - 1) : applied[j] = n
    /\ \A n \in 1..cursor : n \in ToSet(applied)

\* From the start of an arm of an entity whose writes were off until the control
\* file is saved, nothing is written, whether the arm goes on or dies part-way
\* (apply_arm: "a failure part-way through leaves the entity inert").
InterruptedArmIsInert == [][inert => used' = used]_vars

\* A request waits at the head of the channel.
Pending(n) == cursor = n - 1 /\ remote[n] # None /\ well_formed(remote[n])
Visible(n) == \E c \in listing : c.seq = n

\* A well-formed request at the next sequence is not left waiting for ever by
\* a daemon that is neither paused nor shut down, unless newer records crowd it
\* out of the listing or it approves into a full list.
Obeyed ==
    \A n \in 1..MaxSeq :
        ~<>[](/\ Pending(n) /\ Visible(n) /\ ~full(control, remote[n])
              /\ ~control.paused /\ ~control.shutdown)

\* Mutation: the probe always meets scope and floors, text or not.
kind_authorised_best(k) ==
    \/ ~control.approval_required
    \/ \E i \in Ids : /\ envelopes[i] # None /\ parses(envelopes[i], policy)
                      /\ covers_action(envelopes[i], [kind |-> k, fits |-> TRUE],
                                       [x \in Kinds |-> 0], late)

\* run_preflight: nothing stands in the way, and some enabled kind either needs
\* no approval or has an envelope that covers the best action of that kind.
kind_authorised(k) ==
    \/ ~control.approval_required
    \/ \E i \in Ids : /\ envelopes[i] # None /\ parses(envelopes[i], policy)
                      /\ covers_action(envelopes[i], [kind |-> k, fits |-> k \in TextKinds],
                                       [x \in Kinds |-> 0], late)
ready ==
    /\ ~control.paused /\ control.writes_enabled /\ ~control.dry_run /\ ~control.offline_mode
    /\ \E k \in Kinds : policy[k] > 0 /\ kind_authorised(k)

\* What preflight calls READY the daemon would carry out: some action of an
\* enabled kind passes the scheduler's filter and every gate, while approvals are
\* asked for, every envelope parses and the window is unused.
ReadyMeansAble ==
    ready /\ control.approval_required /\ (\A i \in Ids : envelopes[i] # None => parses(envelopes[i], policy))
    => \E k \in Kinds :
          LET a == [kind |-> k, digest |-> NoDigest, fits |-> k \in TextKinds]
              fresh == [x \in Kinds |-> 0]
              coverage == find_covering_envelope(a, policy, fresh)
          IN  coverage = "covered" /\ verdict(control, policy, fresh, a, coverage) = "write"
=============================================================================
