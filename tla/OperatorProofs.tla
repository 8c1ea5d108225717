--------------------------- MODULE OperatorProofs ---------------------------
(***************************************************************************)
(* TLAPS proofs about operator control, for any number of command          *)
(* processes, any requests and plans, and any bounds.                      *)
(***************************************************************************)
EXTENDS Operator, FiniteSetTheorems, TLAPS

\* A control state that save_control_state would write.
Ctl == {c \in ControlState : valid(c)}

\* A candidate of the channel.
Candidates == [seq : 1..MaxSeq, q : Requests]

Armings == [control : Ctl, policy : [Kinds -> Nat], envelopes : SUBSET (Ids \X Envelope)]

\* What a process holds at each step, and that it is nothing else.
Held(r) ==
    /\ "at" \in DOMAIN r
    /\ r.at = "edit" => r \in [at : {"edit"}, ctl : Ctl, q : LocalOps]
    /\ r.at = "traverse" => r \in [at : {"traverse"}, ctl : Ctl]
    /\ r.at = "grant" => r \in [at : {"grant"}, g : Grants]
    /\ r.at \in {"arm_revoke", "arm_envelopes", "arm_policy", "arm_control"} =>
           r \in [at : {r.at}, id : Ids, companion : Ids, plan : Armings]
    /\ r.at \in {"disarm", "disarm_revoke"} =>
           r \in [at : {r.at}, ctl : Ctl, id : Ids, companion : Ids]
    /\ r.at = "poll" =>
           r \in [at : {"poll"}, todo : SUBSET Candidates, wm : 0..MaxSeq, n : Nat]
    /\ r.at \in {"poll_save", "poll_cursor"} =>
           r \in [at : {r.at}, todo : SUBSET Candidates, wm : 1..MaxSeq, n : Nat, ctl : Ctl]
    /\ r.at \in {"attempt", "write"} => r \in [at : {r.at}, a : Offers]

\* The types of the variables and of the copies the processes hold: a copy of
\* the control file that does not have its type would end up in the file.
FilesTyped ==
    /\ TypeOK
    /\ envelopes \in [Ids -> Envelope \union {None}]
    /\ remote \in [1..MaxSeq -> Requests \union {None}]
ProcsTyped == DOMAIN proc = Procs /\ \A p \in Procs : Held(proc[p])
Typed == FilesTyped /\ ProcsTyped

-----------------------------------------------------------------------------
(* What the operators return.                                                *)

\* A request that apply_control_request accepts leaves a control state that
\* validate lets through.
LEMMA MutateValid ==
    ASSUME NEW c \in Ctl, NEW q \in Requests, well_formed(q), ~full(c, q)
    PROVE  mutate(c, q) \in Ctl
<1>0. MaxApproved \in Nat /\ IsFiniteSet(Digests)
  BY OperatorAssumption
<1>1. c \in ControlState /\ IsFiniteSet(c.approved) /\ Cardinality(c.approved) \in Nat
        /\ Cardinality(c.approved) <= MaxApproved /\ c.approved \subseteq Digests
  BY <1>0, FS_Subset, FS_CardinalityType DEF Ctl, valid, ControlState
<1>2. CASE q.op = "approve"
  <2>1. mutate(c, q) = [c EXCEPT !.approved = @ \union {q.arg}]
    BY <1>2 DEF mutate, Switch
  <2>2. q.arg \in Digests
    BY <1>2 DEF well_formed, TakesArgument
  <2>3. Cardinality(c.approved \union {q.arg}) <= MaxApproved
    <3>1. CASE q.arg \in c.approved
      <4>1. c.approved \union {q.arg} = c.approved
        BY <3>1
      <4> QED BY <4>1, <1>0, <1>1
    <3>2. CASE q.arg \notin c.approved
      <4>1. Cardinality(c.approved) < MaxApproved
        BY <3>2, <1>0, <1>1, <1>2 DEF full
      <4>2. Cardinality(c.approved \union {q.arg}) = Cardinality(c.approved) + 1
        BY <3>2, <1>1, FS_AddElement
      <4> QED BY <4>1, <4>2, <1>0, <1>1
    <3> QED BY <3>1, <3>2
  <2> QED BY <1>1, <2>1, <2>2, <2>3 DEF Ctl, valid, ControlState
<1>3. CASE q.op = "revoke"
  <2>1. mutate(c, q) = [c EXCEPT !.approved = @ \ {q.arg}]
    BY <1>3 DEF mutate, Switch
  <2>2. Cardinality(c.approved \ {q.arg}) <= Cardinality(c.approved)
        /\ Cardinality(c.approved \ {q.arg}) \in Nat
    BY <1>1, FS_Subset, FS_CardinalityType
  <2>3. Cardinality(c.approved \ {q.arg}) <= MaxApproved
    BY <1>0, <1>1, <2>2
  <2>4. c.approved \ {q.arg} \subseteq Digests
    BY <1>1
  <2> QED BY <1>1, <2>1, <2>3, <2>4 DEF Ctl, valid, ControlState
<1>4. CASE q.op \in DOMAIN Switch
  <2>1. mutate(c, q) = [c EXCEPT ![Switch[q.op][1]] = Switch[q.op][2]]
    BY <1>4 DEF mutate, Switch
  <2>2. /\ Switch[q.op][1] \in {"paused", "writes_enabled", "dry_run", "offline_mode",
                                "approval_required", "shutdown"}
        /\ Switch[q.op][2] \in BOOLEAN
    <3>1. Switch[q.op] \in {"paused", "writes_enabled", "dry_run", "offline_mode",
                            "approval_required", "shutdown"} \X BOOLEAN
      <4>1. q.op \in {"pause", "resume", "writes_on", "writes_off", "dry_run_on", "dry_run_off",
                      "offline_on", "offline_off", "approval_on", "approval_off", "shutdown",
                      "cancel_shutdown"}
        BY <1>4 DEF Switch
      <4> DEFINE fields == {"paused", "writes_enabled", "dry_run", "offline_mode",
                            "approval_required", "shutdown"} \X BOOLEAN
      <4>2. /\ Switch["pause"] \in fields /\ Switch["resume"] \in fields
            /\ Switch["writes_on"] \in fields /\ Switch["writes_off"] \in fields
            /\ Switch["dry_run_on"] \in fields /\ Switch["dry_run_off"] \in fields
            /\ Switch["offline_on"] \in fields /\ Switch["offline_off"] \in fields
            /\ Switch["approval_on"] \in fields /\ Switch["approval_off"] \in fields
            /\ Switch["shutdown"] \in fields /\ Switch["cancel_shutdown"] \in fields
        BY DEF Switch
      <4> HIDE DEF fields
      <4> QED BY <4>1, <4>2 DEF fields
    <3> QED BY <3>1
  <2>3. mutate(c, q) \in ControlState /\ mutate(c, q).approved = c.approved
    BY <1>1, <2>1, <2>2 DEF ControlState
  <2> QED BY <1>1, <2>3 DEF Ctl, valid
<1> QED BY <1>2, <1>3, <1>4 DEF well_formed, Ops, TakesArgument

\* What a process is about to do it can do: a step of one process leaves the
\* others what they held.
LEMMA Becoming ==
    ASSUME ProcsTyped, NEW p \in Procs, NEW r, Held(r), Become(p, r)
    PROVE  ProcsTyped' /\ proc'[p] = r /\ (\A x \in Procs \ {p} : proc'[x] = proc[x])
<1>1. DOMAIN proc' = Procs /\ proc'[p] = r /\ (\A x \in Procs \ {p} : proc'[x] = proc[x])
  BY DEF Become, ProcsTyped
<1>2. \A x \in Procs : Held(proc'[x])
  <2> TAKE x \in Procs
  <2>1. CASE x = p
    BY <2>1, <1>1
  <2>2. CASE x # p
    BY <2>2, <1>1 DEF ProcsTyped
  <2> QED BY <2>1, <2>2
<1> QED BY <1>1, <1>2 DEF ProcsTyped

LEMMA IdleHeld == Held(Idle) /\ Held([at |-> "offers"])
BY DEF Held, Idle

\* An envelope written for some of a plan's kinds has the type of one.
LEMMA EnvelopeType ==
    ASSUME NEW p \in Plans \union Grants, NEW kinds, NEW narrow \in BOOLEAN
    PROVE  as_envelope(p, kinds, narrow) \in Envelope
<1>1. p.kinds \in [Kinds -> Nat] /\ p.expires \in BOOLEAN
  BY OperatorAssumption
<1> QED BY <1>1 DEF as_envelope, Envelope

LEMMA PlanType ==
    ASSUME NEW p \in Plans, NEW c \in Ctl, NEW pol \in [Kinds -> Nat]
    PROVE  plan_arm(p, c, pol) \in Armings
<1> DEFINE text == listed(p) \intersect TextKinds
           textless == listed(p) \intersect TextlessKinds
           base == IF text = {} THEN {} ELSE {<<p.id, as_envelope(p, text, p.narrow)>>}
           second == IF text = {} THEN p.id ELSE p.companion
           free == as_envelope(p, textless, FALSE)
           other == IF textless = {} THEN {} ELSE {<<second, free>>}
           opened == [c EXCEPT !.paused = FALSE, !.writes_enabled = TRUE, !.dry_run = FALSE]
           ceilings == [k \in Kinds |-> IF k \in listed(p) THEN p.kinds[k] ELSE pol[k]]
<1>1. p.id \in Ids /\ p.companion \in Ids /\ p.kinds \in [Kinds -> Nat] /\ p.narrow \in BOOLEAN
  BY OperatorAssumption
<1>2. as_envelope(p, text, p.narrow) \in Envelope /\ free \in Envelope
  BY <1>1, EnvelopeType
<1>3. base \union other \in SUBSET (Ids \X Envelope)
  <2>1. base \subseteq Ids \X Envelope
    BY <1>1, <1>2
  <2>2. other \subseteq Ids \X Envelope
    <3> HIDE DEF text, textless
    <3>1. second \in Ids
      BY <1>1
    <3> HIDE DEF second, free
    <3> QED BY <3>1, <1>2
  <2> QED BY <2>1, <2>2
<1>4. opened \in Ctl
  <2>1. opened \in ControlState /\ opened.approved = c.approved
    BY DEF Ctl, ControlState
  <2> QED BY <2>1 DEF Ctl, valid
<1>5. ceilings \in [Kinds -> Nat]
  BY <1>1
<1>6. plan_arm(p, c, pol) = [control |-> opened, policy |-> ceilings, envelopes |-> base \union other]
  BY DEF plan_arm
<1> HIDE DEF base, other, opened, ceilings
<1> QED BY <1>3, <1>4, <1>5, <1>6 DEF Armings

\* What a poll reads are candidates.
LEMMA PollingHeld ==
    ASSUME Typed
    PROVE  Held(Polling)
<1>1. listing \subseteq Candidates
  <2>1. \A n \in 1..MaxSeq : remote[n] # None => remote[n] \in Requests
    BY DEF Typed, FilesTyped, TypeOK
  <2>2. \A n \in 1..MaxSeq : remote[n] # None => [seq |-> n, q |-> remote[n]] \in Candidates
    BY <2>1 DEF Candidates
  <2>3. SUFFICES ASSUME NEW c \in listing PROVE c \in Candidates
    OBVIOUS
  <2>4. PICK n \in 1..MaxSeq : remote[n] # None /\ c = [seq |-> n, q |-> remote[n]]
    BY <2>3 DEF listing
  <2> QED BY <2>2, <2>4
<1>2. cursor \in 0..MaxSeq
  BY DEF Typed, FilesTyped, TypeOK
<1>3. Polling \in [at : {"poll"}, todo : SUBSET Candidates, wm : 0..MaxSeq, n : Nat]
  BY <1>1, <1>2 DEF Polling
<1>4. Polling.at = "poll"
  BY DEF Polling
<1> QED BY <1>3, <1>4 DEF Held

-----------------------------------------------------------------------------
(* Type correctness.                                                         *)

LEMMA TypedInit == Init => Typed
<1> SUFFICES ASSUME Init PROVE Typed
  OBVIOUS
<1>1. control \in ControlState /\ valid(control)
  <2>1. control \in ControlState /\ Cardinality(control.approved) <= MaxApproved
    BY OperatorAssumption DEF Init
  <2>2. control.approved \subseteq Digests
    BY <2>1 DEF ControlState
  <2> QED BY <2>1, <2>2 DEF valid
<1>2. cursor \in 0..MaxSeq /\ commands \in 0..MaxCommands /\ emits \in 0..MaxEmits
        /\ faults \in 0..MaxFaults
  BY OperatorAssumption DEF Init
<1>3. policy \in [Kinds -> Nat] /\ used \in [Kinds -> Nat] /\ late \in BOOLEAN
        /\ applied \in Seq(1..MaxSeq) /\ inert \in BOOLEAN
  <2>1. InitPolicies \subseteq [Kinds -> Nat]
    BY OperatorAssumption
  <2>2. policy \in [Kinds -> Nat] /\ used \in [Kinds -> Nat]
    BY <2>1 DEF Init
  <2>3. applied \in Seq(1..MaxSeq)
    BY DEF Init
  <2>4. late \in BOOLEAN /\ inert \in BOOLEAN
    BY DEF Init
  <2> QED BY <2>2, <2>3, <2>4
<1>4. envelopes \in [Ids -> Envelope \union {None}] /\ \A i \in Ids : envelopes[i] = None
  BY DEF Init
<1>5. remote \in [1..MaxSeq -> Requests \union {None}] /\ \A n \in 1..MaxSeq : remote[n] = None
  BY DEF Init
<1>6. ProcsTyped
  BY IdleHeld DEF Init, ProcsTyped
<1> QED BY <1>1, <1>2, <1>3, <1>4, <1>5, <1>6 DEF Typed, FilesTyped, TypeOK

\* A step that writes no file but at most the control file, with a valid state.
LEMMA ControlKeepsType ==
    ASSUME FilesTyped, control' \in Ctl, inert' \in BOOLEAN,
           UNCHANGED <<cursor, policy, envelopes, remote, used, late, applied, commands, emits, faults>>
    PROVE  FilesTyped'
<1>1. control' \in ControlState /\ valid(control')
  BY DEF Ctl
<1> QED BY <1>1 DEF FilesTyped, TypeOK, valid

\* Starting a command counts it and changes no file.
LEMMA StartKeepsType ==
    ASSUME Typed, NEW t \in Procs, NEW name, NEW r, Held(r), Start(t, name, r), inert' \in BOOLEAN
    PROVE  Typed'
<1>1. ProcsTyped'
  BY Becoming DEF Start, Typed
<1>2. commands' \in 0..MaxCommands
  BY OperatorAssumption DEF Start, Typed, FilesTyped, TypeOK
<1>3. UNCHANGED <<control, cursor, policy, envelopes, remote, used, late, emits, faults, applied>>
  BY DEF Start, files
<1> QED BY <1>1, <1>2, <1>3 DEF Typed, FilesTyped, TypeOK, valid

\* Files of envelopes are written with envelopes or removed.
LEMMA EnvelopesKeepType ==
    ASSUME FilesTyped, envelopes' \in [Ids -> Envelope \union {None}],
           UNCHANGED <<control, cursor, policy, remote, used, late, applied, inert, emits, faults>>,
           commands' \in 0..MaxCommands
    PROVE  FilesTyped'
<1>1. \A i \in Ids : envelopes'[i] = None \/ envelopes'[i] \in Envelope
  OBVIOUS
<1> QED BY <1>1 DEF FilesTyped, TypeOK, valid

LEMMA SaveType ==
    ASSUME FilesTyped, NEW i \in Ids, NEW e \in Envelope, save_authorization_envelope(i, e)
    PROVE  envelopes' \in [Ids -> Envelope \union {None}]
BY DEF save_authorization_envelope, FilesTyped

LEMMA RevokeType ==
    ASSUME FilesTyped, NEW ids, revoke_authorization_envelope(ids)
    PROVE  envelopes' \in [Ids -> Envelope \union {None}]
BY DEF revoke_authorization_envelope, FilesTyped

\* One step per action of a command process.
LEMMA ToolTyped ==
    ASSUME Typed, NEW t \in Tools, Tool(t)
    PROVE  Typed'
<1> USE DEF Typed
<1>p. t \in Procs /\ Held(proc[t]) /\ Held(Idle)
  BY IdleHeld DEF Procs, ProcsTyped
<1>c. control \in Ctl /\ policy \in [Kinds -> Nat] /\ inert \in BOOLEAN
        /\ envelopes \in [Ids -> Envelope \union {None}] /\ commands \in 0..MaxCommands
  BY DEF FilesTyped, TypeOK, Ctl
<1>1. CASE ControlLoad(t)
  <2>1. PICK q \in LocalOps : Start(t, "control", [at |-> "edit", ctl |-> control, q |-> q])
    BY <1>1 DEF ControlLoad
  <2>2. Held([at |-> "edit", ctl |-> control, q |-> q])
    BY <1>c DEF Held
  <2> QED BY <1>1, <1>p, <1>c, <2>1, <2>2, StartKeepsType DEF ControlLoad
<1>2. CASE ControlSave(t)
  <2> DEFINE ctl == proc[t].ctl
             q == proc[t].q
  <2>1. ctl \in Ctl /\ q \in Requests
    BY <1>2, <1>p, OperatorAssumption DEF ControlSave, At, Held
  <2>2. control' \in Ctl /\ inert' \in BOOLEAN
    <3>1. CASE ~well_formed(q) \/ full(ctl, q) \/ (q.op = "revoke" /\ q.arg \notin ctl.approved)
      BY <1>2, <1>c, <3>1 DEF ControlSave
    <3>2. CASE ~(~well_formed(q) \/ full(ctl, q) \/ (q.op = "revoke" /\ q.arg \notin ctl.approved))
      <4>1. mutate(ctl, q) \in Ctl
        BY <2>1, <3>2, MutateValid
      <4>2. control' = mutate(ctl, q) /\ inert' = FALSE
        BY <1>2, <3>2 DEF ControlSave, save_control_state
      <4> QED BY <4>1, <4>2
    <3> QED BY <3>1, <3>2
  <2>3. FilesTyped'
    BY <1>2, <2>2, ControlKeepsType DEF ControlSave, Step
  <2> QED BY <1>2, <1>p, <2>3, Becoming DEF ControlSave
<1>3. CASE SyncLoad(t)
  <2>1. Held([at |-> "traverse", ctl |-> control])
    BY <1>c DEF Held
  <2> QED BY <1>3, <1>p, <1>c, <2>1, StartKeepsType DEF SyncLoad
<1>4. CASE SyncSave(t)
  <2>1. control' \in Ctl /\ inert' \in BOOLEAN
    BY <1>4, <1>p DEF SyncSave, At, Held, save_control_state
  <2>2. FilesTyped'
    BY <1>4, <2>1, ControlKeepsType DEF SyncSave, Step
  <2> QED BY <1>4, <1>p, <2>2, Becoming DEF SyncSave
<1>5. CASE GrantLoad(t)
  <2>1. PICK g \in Grants : Start(t, "grant", [at |-> "grant", g |-> g])
    BY <1>5 DEF GrantLoad
  <2>2. Held([at |-> "grant", g |-> g])
    BY DEF Held
  <2> QED BY <1>5, <1>p, <1>c, <2>1, <2>2, StartKeepsType DEF GrantLoad
<1>6. CASE GrantSave(t)
  <2> DEFINE g == proc[t].g
  <2>1. g \in Grants
    BY <1>6, <1>p DEF GrantSave, At, Held
  <2>2. g.id \in Ids /\ g.narrow \in BOOLEAN
    BY <2>1, OperatorAssumption
  <2>3. as_envelope(g, Kinds, g.narrow) \in Envelope
    BY <2>1, <2>2, EnvelopeType
  <2>4. save_authorization_envelope(g.id, as_envelope(g, Kinds, g.narrow))
    BY <1>6 DEF GrantSave
  <2>5. envelopes' \in [Ids -> Envelope \union {None}]
    BY <2>2, <2>3, <2>4, SaveType
  <2>6. FilesTyped'
    BY <1>6, <1>c, <2>5, EnvelopesKeepType DEF GrantSave, Step
  <2> QED BY <1>6, <1>p, <2>6, Becoming DEF GrantSave
<1>7. CASE RevokeEnvelope(t)
  <2>1. envelopes' \in [Ids -> Envelope \union {None}]
    BY <1>7, RevokeType DEF RevokeEnvelope
  <2>2. commands' \in 0..MaxCommands
    BY <1>7, <1>c, OperatorAssumption DEF RevokeEnvelope
  <2>3. FilesTyped'
    BY <1>7, <2>1, <2>2, EnvelopesKeepType DEF RevokeEnvelope
  <2> QED BY <1>7, <2>3 DEF RevokeEnvelope, ProcsTyped
<1>8. CASE ArmLoad(t)
  <2>1. PICK p \in Plans : Start(t, "arm", [at |-> "arm_revoke", id |-> p.id,
            companion |-> p.companion, plan |-> plan_arm(p, control, policy)])
    BY <1>8 DEF ArmLoad
  <2>2. p.id \in Ids /\ p.companion \in Ids /\ plan_arm(p, control, policy) \in Armings
    BY <1>c, PlanType, OperatorAssumption
  <2>3. Held([at |-> "arm_revoke", id |-> p.id, companion |-> p.companion,
              plan |-> plan_arm(p, control, policy)])
    BY <2>2 DEF Held
  <2>4. inert' \in BOOLEAN
    BY <1>8 DEF ArmLoad
  <2> QED BY <1>p, <2>1, <2>3, <2>4, StartKeepsType
<1>9. CASE ArmRevoke(t)
  <2>1. envelopes' \in [Ids -> Envelope \union {None}]
    BY <1>9, RevokeType DEF ArmRevoke
  <2>2. FilesTyped'
    BY <1>9, <1>c, <2>1, EnvelopesKeepType DEF ArmRevoke, Step
  <2>3. Held([proc[t] EXCEPT !.at = "arm_envelopes"])
    BY <1>9, <1>p DEF ArmRevoke, At, Held
  <2> QED BY <1>9, <1>p, <2>2, <2>3, Becoming DEF ArmRevoke
<1>10. CASE ArmEnvelopes(t)
  <2>1. proc[t] \in [at : {"arm_envelopes"}, id : Ids, companion : Ids, plan : Armings]
    BY <1>10, <1>p DEF ArmEnvelopes, At, Held
  <2>2. PICK e \in proc[t].plan.envelopes :
           /\ save_authorization_envelope(e[1], e[2])
           /\ LET rest == proc[t].plan.envelopes \ {e}
              IN  Become(t, [proc[t] EXCEPT !.plan.envelopes = rest,
                                            !.at = IF rest = {} THEN "arm_policy" ELSE @])
    BY <1>10 DEF ArmEnvelopes
  <2> DEFINE rest == proc[t].plan.envelopes \ {e}
             r == [proc[t] EXCEPT !.plan.envelopes = rest,
                                  !.at = IF rest = {} THEN "arm_policy" ELSE @]
  <2>3. e[1] \in Ids /\ e[2] \in Envelope
    BY <2>1 DEF Armings
  <2>4. envelopes' \in [Ids -> Envelope \union {None}]
    BY <2>2, <2>3, SaveType
  <2>5. FilesTyped'
    BY <1>10, <1>c, <2>4, EnvelopesKeepType DEF ArmEnvelopes, Step
  <2>6. Held(r)
    <3>1. [proc[t].plan EXCEPT !.envelopes = rest] \in Armings
      BY <2>1 DEF Armings
    <3>2. r \in [at : {"arm_envelopes", "arm_policy"}, id : Ids, companion : Ids, plan : Armings]
      BY <2>1, <3>1
    <3> HIDE DEF r
    <3> QED BY <3>2 DEF Held
  <2> QED BY <1>p, <2>2, <2>5, <2>6, Becoming
<1>11. CASE ArmPolicy(t)
  <2>1. proc[t] \in [at : {"arm_policy"}, id : Ids, companion : Ids, plan : Armings]
    BY <1>11, <1>p DEF ArmPolicy, At, Held
  <2>2. policy' \in [Kinds -> Nat]
    BY <1>11, <2>1 DEF ArmPolicy, Armings
  <2>3. FilesTyped'
    BY <1>11, <2>2 DEF ArmPolicy, Step, FilesTyped, TypeOK, valid
  <2>4. Held([proc[t] EXCEPT !.at = "arm_control"])
    BY <2>1 DEF Held
  <2> QED BY <1>11, <1>p, <2>3, <2>4, Becoming DEF ArmPolicy
<1>12. CASE ArmControl(t)
  <2>1. proc[t].plan \in Armings
    BY <1>12, <1>p DEF ArmControl, At, Held
  <2>2. control' \in Ctl /\ inert' \in BOOLEAN
    BY <1>12, <2>1 DEF ArmControl, save_control_state, Armings
  <2>3. FilesTyped'
    BY <1>12, <2>2, ControlKeepsType DEF ArmControl, Step
  <2> QED BY <1>12, <1>p, <2>3, Becoming DEF ArmControl
<1>13. CASE DisarmLoad(t)
  <2>1. PICK p \in Plans : Start(t, "disarm", [at |-> "disarm", ctl |-> control, id |-> p.id,
                                               companion |-> p.companion])
    BY <1>13 DEF DisarmLoad
  <2>2. p.id \in Ids /\ p.companion \in Ids
    BY OperatorAssumption
  <2>3. Held([at |-> "disarm", ctl |-> control, id |-> p.id, companion |-> p.companion])
    BY <1>c, <2>2 DEF Held
  <2> QED BY <1>13, <1>p, <1>c, <2>1, <2>3, StartKeepsType DEF DisarmLoad
<1>14. CASE DisarmControl(t)
  <2>1. proc[t] \in [at : {"disarm"}, ctl : Ctl, id : Ids, companion : Ids]
    BY <1>14, <1>p DEF DisarmControl, At, Held
  <2> DEFINE shut == [proc[t].ctl EXCEPT !.writes_enabled = FALSE]
  <2>2. shut \in Ctl
    <3>1. shut \in ControlState /\ shut.approved = proc[t].ctl.approved
      BY <2>1 DEF Ctl, ControlState
    <3> QED BY <2>1, <3>1 DEF Ctl, valid
  <2>3. control' \in Ctl /\ inert' \in BOOLEAN
    BY <1>14, <2>2 DEF DisarmControl, save_control_state
  <2>4. FilesTyped'
    BY <1>14, <2>3, ControlKeepsType DEF DisarmControl, Step
  <2>5. Held([proc[t] EXCEPT !.at = "disarm_revoke"])
    BY <2>1 DEF Held
  <2> QED BY <1>14, <1>p, <2>4, <2>5, Becoming DEF DisarmControl
<1>15. CASE DisarmRevoke(t)
  <2>1. envelopes' \in [Ids -> Envelope \union {None}]
    BY <1>15, RevokeType DEF DisarmRevoke
  <2>2. FilesTyped'
    BY <1>15, <1>c, <2>1, EnvelopesKeepType DEF DisarmRevoke, Step
  <2> QED BY <1>15, <1>p, <2>2, Becoming DEF DisarmRevoke
<1>16. CASE PollStart(t)
  BY <1>16, <1>p, <1>c, PollingHeld, StartKeepsType DEF PollStart
<1> QED BY <1>1, <1>2, <1>3, <1>4, <1>5, <1>6, <1>7, <1>8, <1>9, <1>10, <1>11, <1>12, <1>13,
           <1>14, <1>15, <1>16 DEF Tool

\* Steps that change no file and no counter.
LEMMA QuietTyped ==
    ASSUME FilesTyped, UNCHANGED <<files, applied, inert>>, Step
    PROVE  FilesTyped'
BY DEF FilesTyped, TypeOK, valid, files, Step

\* What a poll makes of its next candidate: it drops it, ends, or goes to save
\* the state with the request in it and the watermark moved to just above.
LEMMA PollNextCases ==
    ASSUME Typed, NEW p \in Procs, PollNext(p)
    PROVE  \/ PollEnd(p)
           \/ \E c \in proc[p].todo : Become(p, [proc[p] EXCEPT !.todo = @ \ {c}])
           \/ \E c \in proc[p].todo :
                 /\ c.seq = proc[p].wm + 1 /\ well_formed(c.q) /\ ~full(control, c.q)
                 /\ Become(p, [at |-> "poll_save", todo |-> proc[p].todo \ {c}, wm |-> c.seq,
                               n |-> proc[p].n, ctl |-> mutate(control, c.q)])
BY Zenon DEF PollNext, accepts

LEMMA PollTyped ==
    ASSUME Typed, NEW p \in Procs, Poll(p)
    PROVE  Typed'
<1> USE DEF Typed
<1>p. Held(proc[p]) /\ Held(Idle) /\ Held([at |-> "offers"])
  BY IdleHeld DEF ProcsTyped
<1>c. control \in Ctl /\ applied \in Seq(1..MaxSeq)
  BY DEF FilesTyped, TypeOK, Ctl
<1>1. CASE PollNext(p)
  <2>1. FilesTyped'
    BY <1>1, QuietTyped DEF PollNext
  <2>2. proc[p] \in [at : {"poll"}, todo : SUBSET Candidates, wm : 0..MaxSeq, n : Nat]
    BY <1>1, <1>p DEF PollNext, At, Held
  <2>3. ASSUME PollEnd(p) PROVE ProcsTyped'
    BY <2>3, <1>p, Becoming DEF PollEnd
  <2>4. ASSUME NEW c \in proc[p].todo, Become(p, [proc[p] EXCEPT !.todo = @ \ {c}])
        PROVE  ProcsTyped'
    <3>1. [proc[p] EXCEPT !.todo = @ \ {c}] \in
              [at : {"poll"}, todo : SUBSET Candidates, wm : 0..MaxSeq, n : Nat]
      BY <2>2
    <3>2. Held([proc[p] EXCEPT !.todo = @ \ {c}])
      BY <3>1 DEF Held
    <3> QED BY <2>4, <3>2, Becoming
  <2>5. ASSUME NEW c \in proc[p].todo, well_formed(c.q), ~full(control, c.q),
               Become(p, [at |-> "poll_save", todo |-> proc[p].todo \ {c}, wm |-> c.seq,
                          n |-> proc[p].n, ctl |-> mutate(control, c.q)])
        PROVE  ProcsTyped'
    <3>1. c.seq \in 1..MaxSeq /\ c.q \in Requests
      BY <2>2 DEF Candidates
    <3>2. mutate(control, c.q) \in Ctl
      BY <1>c, <2>5, <3>1, MutateValid
    <3>3. Held([at |-> "poll_save", todo |-> proc[p].todo \ {c}, wm |-> c.seq,
                n |-> proc[p].n, ctl |-> mutate(control, c.q)])
      BY <2>2, <3>1, <3>2 DEF Held
    <3> QED BY <2>5, <3>3, Becoming
  <2> QED BY <1>1, <2>1, <2>3, <2>4, <2>5, PollNextCases
<1>2. CASE PollSave(p)
  <2>1. proc[p] \in [at : {"poll_save"}, todo : SUBSET Candidates, wm : 1..MaxSeq, n : Nat, ctl : Ctl]
    BY <1>2, <1>p DEF PollSave, At, Held
  <2>2. control' \in Ctl /\ inert' = FALSE /\ applied' \in Seq(1..MaxSeq)
    BY <1>2, <1>c, <2>1 DEF PollSave, save_control_state
  <2>3. control' \in ControlState /\ valid(control')
    BY <2>2 DEF Ctl
  <2>4. FilesTyped'
    BY <1>2, <2>2, <2>3 DEF PollSave, Step, FilesTyped, TypeOK, valid
  <2>5. Held([proc[p] EXCEPT !.at = "poll_cursor"])
    BY <2>1 DEF Held
  <2> QED BY <1>2, <2>4, <2>5, Becoming DEF PollSave
<1>3. CASE PollCursor(p)
  <2>1. proc[p] \in [at : {"poll_cursor"}, todo : SUBSET Candidates, wm : 1..MaxSeq, n : Nat, ctl : Ctl]
    BY <1>3, <1>p DEF PollCursor, At, Held
  <2>2. FilesTyped'
    BY <1>3, <2>1 DEF PollCursor, Step, FilesTyped, TypeOK, valid
  <2>3. Held([at |-> "poll", todo |-> proc[p].todo, wm |-> proc[p].wm, n |-> proc[p].n + 1])
    BY <2>1 DEF Held
  <2> QED BY <1>3, <2>2, <2>3, Becoming DEF PollCursor
<1> QED BY <1>1, <1>2, <1>3 DEF Poll

\* Type correctness is inductive.
LEMMA TypedNext == Typed /\ [Next]_vars => Typed'
<1> SUFFICES ASSUME Typed, [Next]_vars PROVE Typed'
  OBVIOUS
<1> USE DEF Typed
<1>d. "daemon" \in Procs /\ Tools \subseteq Procs /\ Held(proc["daemon"]) /\ Held(Idle)
        /\ Held([at |-> "offers"])
  BY IdleHeld DEF Procs, ProcsTyped
<1>1. ASSUME NEW t \in Tools, Tool(t) PROVE Typed'
  BY <1>1, ToolTyped
<1>2. ASSUME NEW p \in Procs, Poll(p) PROVE Typed'
  BY <1>2, PollTyped
<1>3. CASE DaemonCycle
  <2>1. FilesTyped'
    BY <1>3, QuietTyped DEF DaemonCycle
  <2> QED BY <1>3, <1>d, <2>1, PollingHeld, Becoming DEF DaemonCycle
<1>4. CASE Consider
  <2>1. FilesTyped'
    BY <1>4, QuietTyped DEF Consider
  <2>2. \/ Become("daemon", Idle)
        \/ \E a \in Offers : Become("daemon", [at |-> "attempt", a |-> a])
    BY <1>4 DEF Consider
  <2>3. \A a \in Offers : Held([at |-> "attempt", a |-> a])
    BY DEF Held
  <2> QED BY <1>d, <2>1, <2>2, <2>3, Becoming
<1>5. CASE Attempt
  <2>1. FilesTyped'
    BY <1>5, QuietTyped DEF Attempt
  <2>2. proc["daemon"].a \in Offers
    BY <1>5, <1>d DEF Attempt, At, Held
  <2>3. \/ Become("daemon", Idle)
        \/ Become("daemon", [at |-> "write", a |-> proc["daemon"].a])
    BY <1>5 DEF Attempt
  <2>4. Held([at |-> "write", a |-> proc["daemon"].a])
    BY <2>2 DEF Held
  <2> QED BY <1>d, <2>1, <2>3, <2>4, Becoming
<1>6. CASE Write
  <2>1. proc["daemon"].a \in Offers
    BY <1>6, <1>d DEF Write, At, Held
  <2>2. proc["daemon"].a.kind \in Kinds
    BY <2>1, OperatorAssumption
  <2>3. used' \in [Kinds -> Nat]
    BY <1>6, <2>2 DEF Write, FilesTyped, TypeOK
  <2>4. FilesTyped'
    BY <1>6, <2>3 DEF Write, Step, FilesTyped, TypeOK, valid
  <2> QED BY <1>6, <1>d, <2>4, Becoming DEF Write
<1>7. CASE Emit \/ EmitElsewhere
  <2>1. PICK q \in RemoteOps, n \in 1..MaxSeq : put(n, q)
    <3>1. cursor \in 0..MaxSeq /\ MaxSeq \in Nat
      BY OperatorAssumption DEF FilesTyped, TypeOK
    <3> QED BY <1>7, <3>1 DEF Emit, EmitElsewhere
  <2>2. q \in Requests
    BY OperatorAssumption
  <2>3. remote' \in [1..MaxSeq -> Requests \union {None}] /\ emits' \in 0..MaxEmits
    BY <2>1, <2>2, OperatorAssumption DEF put, FilesTyped, TypeOK
  <2>4. \A m \in 1..MaxSeq : remote'[m] = None \/ remote'[m] \in Requests
    BY <2>3
  <2>5. FilesTyped'
    BY <2>1, <2>3, <2>4 DEF put, FilesTyped, TypeOK, valid
  <2>6. ProcsTyped'
    BY <2>1 DEF put, ProcsTyped
  <2> QED BY <2>5, <2>6
<1>8. CASE TimePasses
  <2>1. FilesTyped'
    BY <1>8 DEF TimePasses, FilesTyped, TypeOK, valid
  <2>2. ProcsTyped'
    BY <1>8 DEF TimePasses, ProcsTyped
  <2> QED BY <2>1, <2>2
<1>9. ASSUME NEW p \in Procs, Crash(p) PROVE Typed'
  <2>1. faults' \in 0..MaxFaults
    BY <1>9, OperatorAssumption DEF Crash, FilesTyped, TypeOK
  <2>2. FilesTyped'
    BY <1>9, <2>1 DEF Crash, files, FilesTyped, TypeOK, valid
  <2> QED BY <1>9, <1>d, <2>2, Becoming DEF Crash
<1>10. CASE UNCHANGED vars
  <2>1. FilesTyped'
    BY <1>10 DEF vars, files, FilesTyped, TypeOK, valid
  <2>2. ProcsTyped'
    BY <1>10 DEF vars, ProcsTyped
  <2> QED BY <2>1, <2>2
<1> QED BY <1>1, <1>2, <1>3, <1>4, <1>5, <1>6, <1>7, <1>8, <1>9, <1>10, <1>d DEF Next, Daemon

\* Every file keeps its type and the control file its limit: no sequence of
\* copies, renames and deaths writes an approval list longer than
\* kMaxApprovedDigests, or a watermark beyond what was ever numbered.
THEOREM OperatorTypeCorrect == Spec => []TypeOK
<1>1. Init => Typed
  BY TypedInit
<1>2. Typed /\ [Next]_vars => Typed'
  BY TypedNext
<1>3. Typed => TypeOK
  BY DEF Typed, FilesTyped
<1> QED BY <1>1, <1>2, <1>3, PTL DEF Spec

-----------------------------------------------------------------------------
(* The remote channel.                                                       *)

\* Every request numbered up to n took effect.
Complete(n) == \A m \in 1..n : m \in ToSet(applied)

\* The history is without gaps and the cursor behind it; and, which makes this
\* inductive, so is the watermark each poll carries in memory, which may be
\* older than the cursor: a poll that holds a stale one can only apply again.
NoGaps ==
    /\ AppliedWithoutGaps
    /\ \A p \in Procs : /\ proc[p].at \in {"poll", "poll_cursor"} => Complete(proc[p].wm)
                        /\ proc[p].at = "poll_save" => Complete(proc[p].wm - 1)

\* A step that applies nothing and leaves the cursor keeps NoGaps, unless it
\* gives its process a watermark that is not covered.
LEMMA QuietGaps ==
    ASSUME Typed, NoGaps, NEW p \in Procs, NEW r, Become(p, r), UNCHANGED <<cursor, applied>>,
           r.at \in {"poll", "poll_cursor"} => Complete(r.wm),
           r.at = "poll_save" => Complete(r.wm - 1)
    PROVE  NoGaps'
<1>1. AppliedWithoutGaps'
  BY DEF NoGaps, AppliedWithoutGaps
<1>2. ASSUME NEW x \in Procs
      PROVE  /\ proc'[x].at \in {"poll", "poll_cursor"} => Complete(proc'[x].wm)
             /\ proc'[x].at = "poll_save" => Complete(proc'[x].wm - 1)
  <2>1. CASE x = p
    <3>1. proc'[x] = r
      BY <2>1 DEF Become, Typed, ProcsTyped
    <3> QED BY <3>1
  <2>2. CASE x # p
    <3>1. proc'[x] = proc[x]
      BY <2>2 DEF Become, Typed, ProcsTyped
    <3> QED BY <3>1 DEF NoGaps
  <2> QED BY <2>1, <2>2
<1>3. \A n : Complete(n)' <=> Complete(n)
  BY DEF Complete
<1> QED BY <1>1, <1>2 DEF NoGaps, Complete

LEMMA GapsInit == Init => NoGaps
<1> SUFFICES ASSUME Init PROVE NoGaps
  OBVIOUS
<1>1. applied = <<>> /\ cursor = 0 /\ \A p \in Procs : proc[p].at = "idle"
  BY DEF Init, Idle
<1> QED BY <1>1 DEF NoGaps, AppliedWithoutGaps

\* A saved request is the one just above what is covered.
LEMMA SaveGaps ==
    ASSUME Typed, NoGaps, NEW p \in Procs, PollSave(p)
    PROVE  NoGaps'
<1> DEFINE w == proc[p].wm
<1>1. proc[p] \in [at : {"poll_save"}, todo : SUBSET Candidates, wm : 1..MaxSeq, n : Nat, ctl : Ctl]
  BY DEF PollSave, At, Held, Typed, ProcsTyped
<1>2. applied \in Seq(1..MaxSeq) /\ w \in 1..MaxSeq /\ MaxSeq \in Nat /\ cursor \in 0..MaxSeq
  BY <1>1, OperatorAssumption DEF Typed, FilesTyped, TypeOK
<1>3. applied' = Append(applied, w) /\ cursor' = cursor
  BY DEF PollSave
<1>4. /\ Len(applied') = Len(applied) + 1 /\ applied'[Len(applied) + 1] = w
      /\ \A i \in 1..Len(applied) : applied'[i] = applied[i]
      /\ DOMAIN applied' = 1..(Len(applied) + 1) /\ DOMAIN applied = 1..Len(applied)
      /\ Len(applied) \in Nat
  BY <1>2, <1>3
<1>5. ToSet(applied') = ToSet(applied) \union {w}
  <2>1. \A x : x \in ToSet(applied) <=> \E i \in 1..Len(applied) : applied[i] = x
    BY <1>4 DEF ToSet
  <2>2. \A x : x \in ToSet(applied') <=> \E i \in 1..(Len(applied) + 1) : applied'[i] = x
    BY <1>4 DEF ToSet
  <2>3. ASSUME NEW x \in ToSet(applied') PROVE x \in ToSet(applied) \union {w}
    <3>1. PICK i \in 1..(Len(applied) + 1) : applied'[i] = x
      BY <2>2, <2>3
    <3>2. CASE i = Len(applied) + 1
      BY <3>1, <3>2, <1>4
    <3>3. CASE i # Len(applied) + 1
      <4>1. i \in 1..Len(applied)
        BY <3>3, <1>4
      <4> QED BY <4>1, <3>1, <1>4, <2>1
    <3> QED BY <3>2, <3>3
  <2>4. ASSUME NEW x \in ToSet(applied) PROVE x \in ToSet(applied')
    <3>1. PICK i \in 1..Len(applied) : applied[i] = x
      BY <2>1, <2>4
    <3>2. i \in 1..(Len(applied) + 1) /\ applied'[i] = x
      BY <3>1, <1>4
    <3> QED BY <3>2, <2>2
  <2>5. w \in ToSet(applied')
    <3>1. Len(applied) + 1 \in 1..(Len(applied) + 1)
      BY <1>4
    <3> QED BY <3>1, <2>2, <1>4
  <2> QED BY <2>3, <2>4, <2>5
<1>6. Complete(w - 1)
  BY <1>1 DEF NoGaps
<1>7. AppliedWithoutGaps'
  <2>1. ASSUME NEW i \in DOMAIN applied', NEW n \in 1..(applied'[i] - 1)
        PROVE  \E j \in 1..(i - 1) : applied'[j] = n
    <3>1. CASE i = Len(applied) + 1
      <4>1. n \in 1..(w - 1)
        BY <2>1, <3>1, <1>4
      <4>2. n \in ToSet(applied)
        BY <4>1, <1>6 DEF Complete
      <4>3. PICK j \in 1..Len(applied) : applied[j] = n
        BY <4>2, <1>4 DEF ToSet
      <4> QED BY <4>3, <3>1, <1>4
    <3>2. CASE i # Len(applied) + 1
      <4>1. i \in 1..Len(applied) /\ applied'[i] = applied[i]
        BY <2>1, <3>2, <1>4
      <4>2. PICK j \in 1..(i - 1) : applied[j] = n
        BY <2>1, <4>1, <1>4 DEF NoGaps, AppliedWithoutGaps
      <4>3. j \in 1..Len(applied)
        BY <4>1, <1>4
      <4> QED BY <4>2, <4>3, <1>4
    <3> QED BY <3>1, <3>2
  <2>2. \A n \in 1..cursor' : n \in ToSet(applied')
    BY <1>3, <1>5 DEF NoGaps, AppliedWithoutGaps
  <2> QED BY <2>1, <2>2 DEF AppliedWithoutGaps
<1>8. \A n \in Int : Complete(n) => Complete(n)'
  BY <1>5 DEF Complete
<1>9. \A m \in 1..w : m \in ToSet(applied')
  BY <1>2, <1>5, <1>6 DEF Complete
<1>10. ASSUME NEW x \in Procs
       PROVE  (/\ proc[x].at \in {"poll", "poll_cursor"} => Complete(proc[x].wm)
               /\ proc[x].at = "poll_save" => Complete(proc[x].wm - 1))'
  <2>1. CASE x = p
    <3>1. proc'[x] = [proc[p] EXCEPT !.at = "poll_cursor"]
      BY <2>1 DEF PollSave, Become, Typed, ProcsTyped
    <3>2. proc'[x].at = "poll_cursor" /\ proc'[x].wm = w
      BY <3>1, <1>1
    <3> QED BY <3>2, <1>9 DEF Complete
  <2>2. CASE x # p
    <3>1. proc'[x] = proc[x] /\ Held(proc[x])
      BY <2>2 DEF PollSave, Become, Typed, ProcsTyped
    <3>2. proc[x].at \in {"poll", "poll_save", "poll_cursor"} => proc[x].wm \in Int
      BY <3>1 DEF Held
    <3> QED BY <3>1, <3>2, <1>8 DEF NoGaps
  <2> QED BY <2>1, <2>2
<1> QED BY <1>7, <1>10 DEF NoGaps

LEMMA GapsNext == Typed /\ NoGaps /\ [Next]_vars => NoGaps'
<1> SUFFICES ASSUME Typed, NoGaps, [Next]_vars PROVE NoGaps'
  OBVIOUS
<1> DEFINE Polls == {"poll", "poll_save", "poll_cursor"}
<1>d. "daemon" \in Procs /\ Tools \subseteq Procs
  BY DEF Procs
<1>t. cursor \in 0..MaxSeq /\ Complete(cursor)
  BY DEF Typed, FilesTyped, TypeOK, NoGaps, AppliedWithoutGaps, Complete
<1>q. ASSUME NEW p \in Procs, NEW r, Become(p, r), UNCHANGED <<cursor, applied>>, r.at \notin Polls
      PROVE  NoGaps'
  BY <1>q, QuietGaps
<1>r. ASSUME NEW p \in Procs, Become(p, Polling), UNCHANGED <<cursor, applied>> PROVE NoGaps'
  <2>1. Polling.at = "poll" /\ Polling.wm = cursor
    BY DEF Polling
  <2> QED BY <1>r, <1>t, <2>1, QuietGaps
<1>1. ASSUME NEW t \in Tools, Tool(t) PROVE NoGaps'
  <2> USE <1>1, <1>d DEF Start, files, Idle
  <2>p. Held(proc[t])
    BY DEF Typed, ProcsTyped
  <2>1. CASE ControlLoad(t)
    BY <2>1, <1>q DEF ControlLoad
  <2>2. CASE ControlSave(t)
    BY <2>2, <1>q DEF ControlSave
  <2>3. CASE SyncLoad(t)
    BY <2>3, <1>q DEF SyncLoad
  <2>4. CASE SyncSave(t)
    BY <2>4, <1>q DEF SyncSave
  <2>5. CASE GrantLoad(t)
    BY <2>5, <1>q DEF GrantLoad
  <2>6. CASE GrantSave(t)
    BY <2>6, <1>q DEF GrantSave
  <2>7. CASE RevokeEnvelope(t)
    BY <2>7 DEF RevokeEnvelope, NoGaps, AppliedWithoutGaps, Complete
  <2>8. CASE ArmLoad(t)
    BY <2>8, <1>q DEF ArmLoad
  <2>9. CASE ArmRevoke(t)
    <3>1. [proc[t] EXCEPT !.at = "arm_envelopes"].at \notin Polls
      BY <2>p DEF Held
    <3> QED BY <2>9, <3>1, <1>q DEF ArmRevoke
  <2>10. CASE ArmEnvelopes(t)
    <3>1. PICK e \in proc[t].plan.envelopes :
             LET rest == proc[t].plan.envelopes \ {e}
             IN  Become(t, [proc[t] EXCEPT !.plan.envelopes = rest,
                                           !.at = IF rest = {} THEN "arm_policy" ELSE @])
      BY <2>10 DEF ArmEnvelopes
    <3> DEFINE rest == proc[t].plan.envelopes \ {e}
               r == [proc[t] EXCEPT !.plan.envelopes = rest,
                                    !.at = IF rest = {} THEN "arm_policy" ELSE @]
    <3>2. proc[t] \in [at : {"arm_envelopes"}, id : Ids, companion : Ids, plan : Armings]
      BY <2>10, <2>p DEF ArmEnvelopes, At, Held
    <3>3. r.at \in {"arm_policy", "arm_envelopes"}
      BY <3>2
    <3>4. Become(t, r) /\ UNCHANGED <<cursor, applied>>
      BY <3>1, <2>10 DEF ArmEnvelopes
    <3> HIDE DEF r
    <3> QED BY <3>3, <3>4, <1>q
  <2>11. CASE ArmPolicy(t)
    <3>1. [proc[t] EXCEPT !.at = "arm_control"].at \notin Polls
      BY <2>p DEF Held
    <3> QED BY <2>11, <3>1, <1>q DEF ArmPolicy
  <2>12. CASE ArmControl(t)
    BY <2>12, <1>q DEF ArmControl
  <2>13. CASE DisarmLoad(t)
    BY <2>13, <1>q DEF DisarmLoad
  <2>14. CASE DisarmControl(t)
    <3>1. [proc[t] EXCEPT !.at = "disarm_revoke"].at \notin Polls
      BY <2>p DEF Held
    <3> QED BY <2>14, <3>1, <1>q DEF DisarmControl
  <2>15. CASE DisarmRevoke(t)
    BY <2>15, <1>q DEF DisarmRevoke
  <2>16. CASE PollStart(t)
    BY <2>16, <1>r DEF PollStart
  <2> QED BY <2>1, <2>2, <2>3, <2>4, <2>5, <2>6, <2>7, <2>8, <2>9, <2>10, <2>11, <2>12, <2>13,
             <2>14, <2>15, <2>16 DEF Tool
<1>2. ASSUME NEW p \in Procs, Poll(p) PROVE NoGaps'
  <2>p. Held(proc[p])
    BY DEF Typed, ProcsTyped
  <2>1. CASE PollNext(p)
    <3>1. proc[p] \in [at : {"poll"}, todo : SUBSET Candidates, wm : 0..MaxSeq, n : Nat]
      BY <2>1, <2>p DEF PollNext, At, Held
    <3>2. Complete(proc[p].wm) /\ UNCHANGED <<cursor, applied>>
      BY <2>1, <3>1 DEF NoGaps, PollNext, files
    <3>3. CASE PollEnd(p)
      BY <3>2, <3>3, <1>q DEF PollEnd, Idle
    <3>4. ASSUME NEW c \in proc[p].todo, Become(p, [proc[p] EXCEPT !.todo = @ \ {c}])
          PROVE  NoGaps'
      <4>1. [proc[p] EXCEPT !.todo = @ \ {c}].at = "poll"
              /\ [proc[p] EXCEPT !.todo = @ \ {c}].wm = proc[p].wm
        BY <3>1
      <4> QED BY <3>2, <3>4, <4>1, QuietGaps
    <3>5. ASSUME NEW c \in proc[p].todo, c.seq = proc[p].wm + 1,
                 Become(p, [at |-> "poll_save", todo |-> proc[p].todo \ {c}, wm |-> c.seq,
                            n |-> proc[p].n, ctl |-> mutate(control, c.q)])
          PROVE  NoGaps'
      <4>1. c.seq - 1 = proc[p].wm
        BY <3>1, <3>5
      <4> QED BY <3>2, <3>5, <4>1, QuietGaps
    <3> QED BY <2>1, <3>3, <3>4, <3>5, PollNextCases
  <2>2. CASE PollSave(p)
    BY <2>2, SaveGaps
  <2>3. CASE PollCursor(p)
    <3>1. proc[p].at = "poll_cursor" /\ Complete(proc[p].wm) /\ applied' = applied
            /\ cursor' = proc[p].wm
      BY <2>3 DEF PollCursor, At, NoGaps
    <3>2. AppliedWithoutGaps'
      BY <3>1 DEF NoGaps, AppliedWithoutGaps, Complete
    <3>3. ASSUME NEW x \in Procs
          PROVE  (/\ proc[x].at \in {"poll", "poll_cursor"} => Complete(proc[x].wm)
                  /\ proc[x].at = "poll_save" => Complete(proc[x].wm - 1))'
      <4>1. CASE x = p
        <5>1. proc'[x].at = "poll" /\ proc'[x].wm = proc[p].wm
          BY <2>3, <4>1 DEF PollCursor, Become, Typed, ProcsTyped
        <5> QED BY <5>1, <3>1 DEF Complete
      <4>2. CASE x # p
        <5>1. proc'[x] = proc[x]
          BY <2>3, <4>2 DEF PollCursor, Become, Typed, ProcsTyped
        <5> QED BY <5>1, <3>1 DEF NoGaps, Complete
      <4> QED BY <4>1, <4>2
    <3> QED BY <3>2, <3>3 DEF NoGaps
  <2> QED BY <1>2, <2>1, <2>2, <2>3 DEF Poll
<1>3. CASE DaemonCycle
  BY <1>3, <1>d, <1>r DEF DaemonCycle, files
<1>4. CASE Consider
  <2>1. \/ Become("daemon", Idle)
        \/ \E a \in Offers : Become("daemon", [at |-> "attempt", a |-> a])
    BY <1>4 DEF Consider
  <2> QED BY <1>4, <1>d, <2>1, <1>q DEF Consider, files, Idle
<1>5. CASE Attempt
  <2>1. \/ Become("daemon", Idle)
        \/ Become("daemon", [at |-> "write", a |-> proc["daemon"].a])
    BY <1>5 DEF Attempt
  <2> QED BY <1>5, <1>d, <2>1, <1>q DEF Attempt, files, Idle
<1>6. CASE Write
  BY <1>6, <1>d, <1>q DEF Write, Idle
<1>7. CASE Emit \/ EmitElsewhere
  BY <1>7 DEF Emit, EmitElsewhere, put, NoGaps, AppliedWithoutGaps, Complete
<1>8. CASE TimePasses
  BY <1>8 DEF TimePasses, NoGaps, AppliedWithoutGaps, Complete
<1>9. ASSUME NEW p \in Procs, Crash(p) PROVE NoGaps'
  BY <1>9, <1>q DEF Crash, files, Idle
<1>10. CASE UNCHANGED vars
  BY <1>10 DEF vars, files, NoGaps, AppliedWithoutGaps, Complete
<1> QED BY <1>1, <1>2, <1>3, <1>4, <1>5, <1>6, <1>7, <1>8, <1>9, <1>10, <1>d DEF Next, Daemon

\* However polls overlap and wherever they die, no request takes effect before
\* every request below it has, and the cursor never runs ahead of what was
\* applied: RemoteControlChannel::poll saves the state before the cursor, and
\* apply_control_request refuses a gap.
THEOREM ChannelWithoutGaps == Spec => []AppliedWithoutGaps
<1>1. Init => Typed /\ NoGaps
  BY TypedInit, GapsInit
<1>2. Typed /\ NoGaps /\ [Next]_vars => (Typed /\ NoGaps)'
  BY TypedNext, GapsNext
<1>3. NoGaps => AppliedWithoutGaps
  BY DEF NoGaps
<1> QED BY <1>1, <1>2, <1>3, PTL DEF Spec

-----------------------------------------------------------------------------
(* Arming.                                                                   *)

\* While the history says inert, writes are off and no write is under way: the
\* control file is untouched, and the last gate of an attempt reads it.
StaysInert == inert => ~control.writes_enabled /\ proc["daemon"].at # "write"

LEMMA InertNext == Typed /\ StaysInert /\ [Next]_vars => StaysInert'
<1> SUFFICES ASSUME Typed, StaysInert, [Next]_vars PROVE StaysInert'
  OBVIOUS
<1>d. "daemon" \in Procs /\ Tools \subseteq Procs
  BY DEF Procs
<1>q. ASSUME NEW p \in Procs, NEW r, Become(p, r), r.at # "write", UNCHANGED <<control, inert>>
      PROVE  StaysInert'
  <2>1. proc'["daemon"] = proc["daemon"] \/ proc'["daemon"].at # "write"
    BY <1>q, <1>d DEF Become, Typed, ProcsTyped
  <2> QED BY <1>q, <2>1 DEF StaysInert
<1>s. ASSUME NEW c, save_control_state(c) PROVE StaysInert'
  BY <1>s DEF save_control_state, StaysInert
<1>1. ASSUME NEW t \in Tools, Tool(t) PROVE StaysInert'
  <2> USE <1>1, <1>d DEF Start, files, Idle
  <2>p. Held(proc[t])
    BY DEF Typed, ProcsTyped
  <2>1. CASE ControlLoad(t)
    BY <2>1, <1>q DEF ControlLoad
  <2>2. CASE ControlSave(t)
    <3>1. CASE UNCHANGED <<control, inert>>
      BY <2>2, <3>1, <1>q DEF ControlSave
    <3>2. CASE save_control_state(mutate(proc[t].ctl, proc[t].q))
      BY <3>2, <1>s
    <3> QED BY <2>2, <3>1, <3>2 DEF ControlSave
  <2>3. CASE SyncLoad(t)
    BY <2>3, <1>q DEF SyncLoad
  <2>4. CASE SyncSave(t)
    BY <2>4, <1>s DEF SyncSave
  <2>5. CASE GrantLoad(t)
    BY <2>5, <1>q DEF GrantLoad
  <2>6. CASE GrantSave(t)
    BY <2>6, <1>q DEF GrantSave
  <2>7. CASE RevokeEnvelope(t)
    BY <2>7 DEF RevokeEnvelope, StaysInert
  <2>8. CASE ArmLoad(t)
    <3>1. PICK p \in Plans : Become(t, [at |-> "arm_revoke", id |-> p.id,
              companion |-> p.companion, plan |-> plan_arm(p, control, policy)])
      BY <2>8 DEF ArmLoad
    <3>2. proc'["daemon"] = proc["daemon"] \/ proc'["daemon"].at # "write"
      BY <3>1 DEF Become, Typed, ProcsTyped
    <3>3. inert' = (~control.writes_enabled /\ proc["daemon"].at # "write") /\ control' = control
      BY <2>8 DEF ArmLoad, At
    <3> QED BY <3>2, <3>3 DEF StaysInert
  <2>9. CASE ArmRevoke(t)
    <3>1. [proc[t] EXCEPT !.at = "arm_envelopes"].at # "write"
      BY <2>p DEF Held
    <3> QED BY <2>9, <3>1, <1>q DEF ArmRevoke
  <2>10. CASE ArmEnvelopes(t)
    <3>1. PICK e \in proc[t].plan.envelopes :
             LET rest == proc[t].plan.envelopes \ {e}
             IN  Become(t, [proc[t] EXCEPT !.plan.envelopes = rest,
                                           !.at = IF rest = {} THEN "arm_policy" ELSE @])
      BY <2>10 DEF ArmEnvelopes
    <3> DEFINE rest == proc[t].plan.envelopes \ {e}
               r == [proc[t] EXCEPT !.plan.envelopes = rest,
                                    !.at = IF rest = {} THEN "arm_policy" ELSE @]
    <3>2. proc[t] \in [at : {"arm_envelopes"}, id : Ids, companion : Ids, plan : Armings]
      BY <2>10, <2>p DEF ArmEnvelopes, At, Held
    <3>3. r.at \in {"arm_policy", "arm_envelopes"}
      BY <3>2
    <3>4. Become(t, r) /\ UNCHANGED <<control, inert>>
      BY <3>1, <2>10 DEF ArmEnvelopes
    <3> HIDE DEF r
    <3> QED BY <3>3, <3>4, <1>q
  <2>11. CASE ArmPolicy(t)
    <3>1. [proc[t] EXCEPT !.at = "arm_control"].at # "write"
      BY <2>p DEF Held
    <3> QED BY <2>11, <3>1, <1>q DEF ArmPolicy
  <2>12. CASE ArmControl(t)
    BY <2>12, <1>s DEF ArmControl
  <2>13. CASE DisarmLoad(t)
    BY <2>13, <1>q DEF DisarmLoad
  <2>14. CASE DisarmControl(t)
    BY <2>14, <1>s DEF DisarmControl
  <2>15. CASE DisarmRevoke(t)
    BY <2>15, <1>q DEF DisarmRevoke
  <2>16. CASE PollStart(t)
    BY <2>16, <1>q DEF PollStart, Polling
  <2> QED BY <2>1, <2>2, <2>3, <2>4, <2>5, <2>6, <2>7, <2>8, <2>9, <2>10, <2>11, <2>12, <2>13,
             <2>14, <2>15, <2>16 DEF Tool
<1>2. ASSUME NEW p \in Procs, Poll(p) PROVE StaysInert'
  <2>p. Held(proc[p])
    BY DEF Typed, ProcsTyped
  <2>1. CASE PollNext(p)
    <3>1. proc[p] \in [at : {"poll"}, todo : SUBSET Candidates, wm : 0..MaxSeq, n : Nat]
      BY <2>1, <2>p DEF PollNext, At, Held
    <3>2. UNCHANGED <<control, inert>>
      BY <2>1 DEF PollNext, files
    <3>3. CASE PollEnd(p)
      BY <3>2, <3>3, <1>q DEF PollEnd, Idle
    <3>4. ASSUME NEW c \in proc[p].todo, Become(p, [proc[p] EXCEPT !.todo = @ \ {c}])
          PROVE  StaysInert'
      <4>1. [proc[p] EXCEPT !.todo = @ \ {c}].at = "poll"
        BY <3>1
      <4> QED BY <3>2, <3>4, <4>1, <1>q
    <3>5. ASSUME NEW c \in proc[p].todo,
                 Become(p, [at |-> "poll_save", todo |-> proc[p].todo \ {c}, wm |-> c.seq,
                            n |-> proc[p].n, ctl |-> mutate(control, c.q)])
          PROVE  StaysInert'
      BY <3>2, <3>5, <1>q
    <3> QED BY <2>1, <3>3, <3>4, <3>5, PollNextCases
  <2>2. CASE PollSave(p)
    BY <2>2, <1>s DEF PollSave
  <2>3. CASE PollCursor(p)
    BY <2>3, <1>q DEF PollCursor
  <2> QED BY <1>2, <2>1, <2>2, <2>3 DEF Poll
<1>3. CASE DaemonCycle
  BY <1>3, <1>d, <1>q DEF DaemonCycle, files, Polling
<1>4. CASE Consider
  <2>1. \/ Become("daemon", Idle)
        \/ \E a \in Offers : Become("daemon", [at |-> "attempt", a |-> a])
    BY <1>4 DEF Consider
  <2> QED BY <1>4, <1>d, <2>1, <1>q DEF Consider, files, Idle
<1>5. CASE Attempt
  <2> DEFINE a == proc["daemon"].a
             coverage == find_covering_envelope(a, policy, used)
             allowed == verdict(control, policy, used, a, coverage) = "write"
  <2>1. CASE control.writes_enabled
    BY <1>5, <2>1 DEF Attempt, StaysInert, files
  <2>2. CASE ~control.writes_enabled
    <3>1. ~allowed
      BY <2>2 DEF verdict
    <3>2. Become("daemon", Idle)
      BY <1>5, <3>1 DEF Attempt
    <3> QED BY <1>5, <1>d, <3>2, <1>q DEF Attempt, files, Idle
  <2> QED BY <2>1, <2>2
<1>6. CASE Write
  BY <1>6, <1>d, <1>q DEF Write, Idle
<1>7. CASE Emit \/ EmitElsewhere
  BY <1>7 DEF Emit, EmitElsewhere, put, StaysInert
<1>8. CASE TimePasses
  BY <1>8 DEF TimePasses, StaysInert
<1>9. ASSUME NEW p \in Procs, Crash(p) PROVE StaysInert'
  BY <1>9, <1>q DEF Crash, files, Idle
<1>10. CASE UNCHANGED vars
  BY <1>10 DEF vars, files, StaysInert
<1> QED BY <1>1, <1>2, <1>3, <1>4, <1>5, <1>6, <1>7, <1>8, <1>9, <1>10, <1>d DEF Next, Daemon

\* Only the daemon's write counts an action.
LEMMA OnlyWriteCounts ==
    ASSUME [Next]_vars, used' # used
    PROVE  proc["daemon"].at = "write"
<1>1. ASSUME NEW t \in Tools, Tool(t) PROVE used' = used
  BY <1>1 DEF Tool, Start, files, ControlLoad, ControlSave, SyncLoad, SyncSave, GrantLoad, GrantSave,
        RevokeEnvelope, ArmLoad, ArmRevoke, ArmEnvelopes, ArmPolicy, ArmControl, DisarmLoad,
        DisarmControl, DisarmRevoke, PollStart
<1>2. ASSUME NEW p \in Procs, Poll(p) PROVE used' = used
  BY <1>2 DEF Poll, PollNext, PollSave, PollCursor, files
<1>3. CASE DaemonCycle \/ Consider \/ Attempt
  BY <1>3 DEF DaemonCycle, Consider, Attempt, files
<1>4. CASE Emit \/ EmitElsewhere \/ TimePasses
  BY <1>4 DEF Emit, EmitElsewhere, put, TimePasses
<1>5. ASSUME NEW p \in Procs, Crash(p) PROVE used' = used
  BY <1>5 DEF Crash, files
<1>6. CASE Write
  BY <1>6 DEF Write, At
<1>7. CASE UNCHANGED vars
  BY <1>7 DEF vars, files
<1> QED BY <1>1, <1>2, <1>3, <1>4, <1>5, <1>6, <1>7 DEF Next, Daemon, Procs

\* From the start of an arm of an entity whose writes were off until the control
\* file is next saved, nothing is written: apply_arm opens the control state last,
\* so an arm that dies, or another command between its steps, leaves it inert.
THEOREM ArmingIsInert == Spec => InterruptedArmIsInert
<1>1. Init => Typed /\ StaysInert
  BY TypedInit DEF Init, StaysInert
<1>2. Typed /\ StaysInert /\ [Next]_vars => (Typed /\ StaysInert)'
  BY TypedNext, InertNext
<1>3. StaysInert /\ [Next]_vars => (inert => used' = used)
  BY OnlyWriteCounts DEF StaysInert
<1> QED BY <1>1, <1>2, <1>3, PTL DEF Spec, InterruptedArmIsInert

=============================================================================
