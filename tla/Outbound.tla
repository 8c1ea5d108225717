------------------------------ MODULE Outbound ------------------------------
(***************************************************************************)
(* Outbound execution: one attempt is made of gates read from disk, a      *)
(* spooled copy, the network write, the budget file, the audit log and the *)
(* journal (src/src/app/outbound).  Attempts are made by the daemon's      *)
(* scheduler cycle (src/src/app/scheduler/cycle.cpp), which first drains   *)
(* the spool and then executes one proposal, and by `atperson publish`;    *)
(* the operator edits the control file beside them.                        *)
(*                                                                         *)
(* The outbound lock is taken by publish and by the execution of a         *)
(* proposal, not by the drain.  The module StateLock has its file; here it *)
(* is exclusive, and a lock whose owner died is free.                      *)
(*                                                                         *)
(* What is abstracted.  All actions are of one kind, so there is one       *)
(* budget; an action is its own duplicate key, digest and rkey.  A put     *)
(* under an rkey that exists replaces the record: the network is a set.    *)
(* Repetition of a text is judged over the whole run (the window is a      *)
(* week).  Envelopes, intents, expectations and engagement rules are left  *)
(* out.  One cycle writes and executes at most one proposal, as the        *)
(* scheduler's defaults say.                                               *)
(***************************************************************************)
EXTENDS Integers, Sequences, FiniteSets, Functions

CONSTANTS
    Actions,              \* frozen action documents
    Proposed,             \* those the scheduler decides on; the rest are published by hand
    Texts,                \* those that carry text (posts and replies)
    NoAction,
    MaxInWindow, Window, MinInterval, DupCooldown,  \* ActionBudget
    MaxRecords,           \* kMaxOutboundRecordsPerKind
    FailureThreshold, BaseCooldown, MaxCooldown, ProposalFailureLimit, \* BreakerConfig
    ExternalPublishing,   \* ATPERSON_ALLOW_EXTERNAL_PUBLISHING, which publish obeys
    Approved,             \* digests approved at the start
    Switches,             \* fields the operator flips
    MaxTime, MaxRuns, MaxEdits, MaxCrashes          \* bounds

ASSUME OutboundAssumption ==
    /\ Proposed \subseteq Actions /\ Texts \subseteq Actions
    /\ Approved \subseteq Actions /\ NoAction \notin Actions
    /\ MaxInWindow \in Nat \ {0} /\ Window \in Nat \ {0}
    /\ MinInterval \in Nat /\ DupCooldown \in Nat /\ MaxRecords \in Nat \ {0}
    /\ FailureThreshold \in Nat \ {0} /\ ProposalFailureLimit \in Nat \ {0}
    /\ BaseCooldown \in Nat \ {0} /\ MaxCooldown \in Nat /\ BaseCooldown <= MaxCooldown
    /\ ExternalPublishing \in BOOLEAN
    /\ Switches \subseteq {"paused", "offline_mode", "dry_run", "writes_enabled",
                           "approval_required", "enabled"}
    /\ MaxTime \in Nat /\ MaxRuns \in Nat /\ MaxEdits \in Nat /\ MaxCrashes \in Nat

VARIABLES
    clock,      \* wall clock, read when a command or a cycle starts
    control,    \* control file, with the policy's enabled switch
    budget,     \* budget file
    pending,    \* spool: sequence number -> action
    tmp,        \* spool: temporary files that a crash left behind
    denied,     \* denied/: sequence number -> action
    proposals, quarantine, breaker,   \* the scheduler's files
    executed,   \* actions the journal records as executed
    network,    \* records on the server
    lock,       \* owner of the outbound lock
    proc,       \* what each process is doing
    runs, edits, crashes,             \* counters for the bounds
    charged,    \* history: the admissions saved in the budget file
    fails,      \* history: times of the failed executions since the last success
    failed,     \* history: failed executions of each proposal since it last succeeded
    orphans,    \* history: publishes that died between the write and the journal, and
                \* denied actions whose document another one replaced
    raced       \* history: a drain overlapped with a publish

files == <<control, budget, pending, tmp, denied, proposals, quarantine, breaker, executed>>
counters == <<clock, runs, edits, crashes>>
history == <<charged, fails, failed, orphans, raced>>
vars == <<counters, files, network, lock, proc, history>>

Procs == {"daemon", "publish"}
None == "none"
NoTime == -1
-----------------------------------------------------------------------------
(* Budget.                                                                 *)

\* `count` numbers the records, so that those of one instant stay apart.
FreshBudget == [last |-> NoTime, count |-> 0, recent |-> <<>>, dups |-> <<>>]

LargerOf(a, b) == IF a >= b THEN a ELSE b
SmallerOf(a, b) == IF a <= b THEN a ELSE b

\* Seconds since `at`, none when the clock has gone back.
Elapsed(now, at) == IF now > at THEN now - at ELSE 0

keep_last(S) == {n \in S : Cardinality({m \in S : m > n}) < MaxRecords}

\* What the limits no longer look at is forgotten, and the oldest over the cap.
prune_kind(b, now) ==
    LET horizon == LargerOf(LargerOf(Window, MinInterval), 1)
        acts == {n \in DOMAIN b.recent : b.recent[n] >= now - horizon}
        dups == {n \in DOMAIN b.dups : DupCooldown > 0 /\ b.dups[n].at >= now - DupCooldown}
    IN  [b EXCEPT !.recent = Restrict(@, keep_last(acts)),
                  !.dups = Restrict(@, keep_last(dups))]

\* No earlier than the last admission.
AdmissionTime(b, now) == LargerOf(now, b.last)

record_outbound_action(b, a, now) ==
    LET at == AdmissionTime(b, now)
        n == b.count + 1
        others == {m \in DOMAIN b.dups : b.dups[m].key # a}
    IN  prune_kind([last |-> at, count |-> n,
                    recent |-> [m \in DOMAIN b.recent \union {n} |->
                                   IF m = n THEN at ELSE b.recent[m]],
                    dups |-> [m \in others \union {n} |->
                                   IF m = n THEN [key |-> a, at |-> at] ELSE b.dups[m]]], at)

used_in_window(b, now) ==
    Cardinality({n \in DOMAIN b.recent : b.recent[n] >= now - Window})

Duplicate(b, a, now) ==
    \E n \in DOMAIN b.dups : b.dups[n].key = a /\ Elapsed(now, b.dups[n].at) < DupCooldown

\* Duplicate, too soon after the last one, or window exhausted.
Defers(b, a, now) ==
    \/ DupCooldown > 0 /\ Duplicate(b, a, now)
    \/ MinInterval > 0 /\ b.last # NoTime /\ Elapsed(now, b.last) < MinInterval
    \/ used_in_window(b, now) >= MaxInWindow

authorize_outbound(c, a) == c.writes_enabled /\ (c.approval_required => a \in c.approved)

\* The gates in their order; "allow" goes on to the writer.
execute_outbound_action(c, b, a, now, external) ==
    IF c.paused \/ ~c.enabled THEN "denied"
    ELSE IF Defers(b, a, now) THEN "deferred"
    ELSE IF c.dry_run THEN "dry_run"
    ELSE IF ~authorize_outbound(c, a) \/ ~external THEN "denied"
    ELSE "allow"
-----------------------------------------------------------------------------
(* Circuit breaker.                                                        *)

ClosedBreaker == [consecutive |-> 0, open_until |-> 0, cooldown |-> 0,
                  failures |-> [a \in Proposed |-> 0]]

record_success(b, a) ==
    [consecutive |-> 0, open_until |-> 0, cooldown |-> 0, failures |-> [b.failures EXCEPT ![a] = 0]]

\* Mutation: the failure at hand is not counted.
Tripped_late(b) == b.open_until # 0 \/ b.consecutive >= FailureThreshold

Tripped(b) == b.open_until # 0 \/ b.consecutive + 1 >= FailureThreshold

Poisoned(b, a) == b.failures[a] + 1 >= ProposalFailureLimit

record_failure(b, a, now) ==
    LET cooldown == IF b.cooldown = 0 THEN BaseCooldown
                    ELSE SmallerOf(2 * b.cooldown, MaxCooldown)
    IN  [consecutive |-> b.consecutive + 1,
         open_until  |-> IF Tripped(b) THEN now + cooldown ELSE b.open_until,
         cooldown    |-> IF Tripped(b) THEN cooldown ELSE b.cooldown,
         failures    |-> [b.failures EXCEPT ![a] = IF Poisoned(b, a) THEN 0 ELSE @ + 1]]

retain_proposals(b, queued) ==
    [b EXCEPT !.failures = [a \in Proposed |-> IF a \in queued THEN b.failures[a] ELSE 0]]
-----------------------------------------------------------------------------
Idle == [pc |-> "idle", now |-> 0, act |-> NoAction, via |-> None, outcome |-> None,
         base |-> FreshBudget, entry |-> 0, todo |-> <<>>, approvals |-> {},
         brk |-> ClosedBreaker]

Init ==
    /\ clock = 0
    /\ control \in [paused : {FALSE}, offline_mode : {FALSE}, dry_run : {FALSE},
                    writes_enabled : {TRUE}, approval_required : {TRUE}, enabled : {TRUE},
                    approved : {Approved}]
    /\ budget = FreshBudget
    /\ pending = <<>> /\ denied = <<>>
    /\ tmp = [left |-> {}, torn |-> FALSE]
    /\ proposals = {} /\ quarantine = {} /\ breaker = ClosedBreaker
    /\ executed = {} /\ network = {}
    /\ lock = None
    /\ proc = [p \in Procs |-> Idle]
    /\ runs = 0 /\ edits = 0 /\ crashes = 0
    /\ charged = <<>> /\ fails = <<>> /\ orphans = {}
    /\ failed = [a \in Proposed |-> 0]
    /\ raced = FALSE

At(p, l) == proc[p].pc = l
Goto(p, l) == proc' = [proc EXCEPT ![p].pc = l]
\* The attempt is over with an outcome; its records come next.
Finish(p, o) ==
    proc' = [proc EXCEPT ![p].pc = "record", ![p].outcome = o, ![p].base = FreshBudget]

\* control pause, resume, offline, approve, revoke, ...: each rewrites the file.
Edit ==
    /\ edits < MaxEdits
    /\ edits' = edits + 1
    /\ \/ \E f \in Switches : control' = [control EXCEPT ![f] = ~@]
       \/ \E a \in Actions \ control.approved :
              control' = [control EXCEPT !.approved = @ \union {a}]
       \/ \E a \in control.approved : control' = [control EXCEPT !.approved = @ \ {a}]
    /\ UNCHANGED <<clock, runs, crashes, budget, pending, tmp, denied, proposals, quarantine,
                   breaker, executed, network, lock, proc, history>>
-----------------------------------------------------------------------------
(* The spool.                                                              *)

NextSeq(s) == 1 + (CHOOSE n \in DOMAIN s \union {0} : \A m \in DOMAIN s : m <= n)
With(s, m, a) == [n \in DOMAIN s \union {m} |-> IF n = m THEN a ELSE s[n]]
spool_append(s, a) == With(s, NextSeq(s), a)
Without(s, n) == Restrict(s, DOMAIN s \ {n})
-----------------------------------------------------------------------------
(* One attempt.                                                            *)

\* A temporary file that is cut short is read as an entry, and refused, by all
\* who list the spool.
Listable == ~tmp.torn

\* Control, policy and budget are loaded and the gates decided.  Offline, a
\* live attempt is spooled; a replay has no spool and goes on to the gates.
attempt_outbound_action(p) ==
    /\ At(p, "gate")
    /\ LET a == proc[p].act
           now == proc[p].now
           base == prune_kind(budget, now)
           external == p = "daemon" \/ ExternalPublishing
           verdict == execute_outbound_action(control, base, a, now, external)
       IN  \/ /\ control.offline_mode /\ proc[p].via # "drain" /\ Listable
              /\ pending' = spool_append(pending, a)
              /\ Finish(p, "dry_run")
           \/ /\ ~control.offline_mode \/ proc[p].via = "drain"
              /\ IF verdict = "allow"
                 THEN proc' = [proc EXCEPT ![p].pc = "resolve", ![p].base = base]
                 ELSE Finish(p, verdict)
              /\ UNCHANGED pending
    /\ UNCHANGED <<counters, control, budget, tmp, denied, proposals, quarantine, breaker, executed,
                   network, lock, history>>

\* With a spool the writer is made before the gates are asked, outside the
\* attempt's own error handling: a login that fails leaves no record at all
\* and ends the command or the cycle, breaker unsaved.  So does, offline, a
\* spool that cannot be listed.
SessionFails(p) ==
    /\ At(p, "gate") /\ proc[p].via # "drain"
    /\ ~control.offline_mode \/ ~Listable
    /\ lock' = None
    /\ proc' = [proc EXCEPT ![p] = Idle]
    /\ UNCHANGED <<counters, files, network, history>>

\* The referenced records cannot be read, or the attestation fails.
ResolveFails(p) ==
    /\ At(p, "resolve")
    /\ Finish(p, "failed")
    /\ UNCHANGED <<counters, files, network, lock, history>>

\* Mutation: nothing is spooled before the write.
SpoolFirst_none(p) ==
    /\ At(p, "resolve")
    /\ Goto(p, "put")
    /\ UNCHANGED <<counters, files, network, lock, history>>

\* SpoolFirstWriter: the action is spooled before the transport is touched.
SpoolFirst(p) ==
    /\ At(p, "resolve")
    /\ \/ proc[p].via = "drain" /\ Goto(p, "put") /\ UNCHANGED pending
       \/ /\ proc[p].via # "drain" /\ Listable
          /\ pending' = spool_append(pending, proc[p].act)
          /\ proc' = [proc EXCEPT ![p].pc = "put", ![p].entry = NextSeq(pending)]
       \/ /\ proc[p].via # "drain" /\ ~Listable
          /\ Finish(p, "failed") /\ UNCHANGED pending
    /\ UNCHANGED <<counters, control, budget, tmp, denied, proposals, quarantine, breaker, executed,
                   network, lock, history>>

put_record(p) ==
    /\ At(p, "put")
    /\ network' = network \union {proc[p].act}
    /\ Goto(p, IF proc[p].via = "drain" THEN "charge" ELSE "unspool")
    /\ UNCHANGED <<counters, files, lock, history>>

\* The write fails: it did not reach the server, or its answer is lost.
put_record_fails(p) ==
    /\ At(p, "put")
    /\ network' \in {network, network \union {proc[p].act}}
    /\ Finish(p, "failed")
    /\ UNCHANGED <<counters, files, lock, history>>

\* SpoolFirstWriter again, after a confirmed success.
spool_remove(p) ==
    /\ At(p, "unspool")
    /\ pending' = Without(pending, proc[p].entry)
    /\ Goto(p, "charge")
    /\ UNCHANGED <<counters, control, budget, tmp, denied, proposals, quarantine, breaker, executed,
                   network, lock, history>>

save_outbound_budget_state(p) ==
    /\ At(p, "charge")
    /\ budget' = record_outbound_action(proc[p].base, proc[p].act, proc[p].now)
    /\ charged' = Append(charged, [act |-> proc[p].act, at |-> budget'.last])
    /\ Finish(p, "executed")
    /\ UNCHANGED <<counters, control, pending, tmp, denied, proposals, quarantine, breaker,
                   executed, network, lock, fails, failed, orphans, raced>>

\* The audit log and the journal.
append_journal_action(p) ==
    /\ At(p, "record")
    /\ executed' = IF proc[p].outcome = "executed" THEN executed \union {proc[p].act} ELSE executed
    /\ Goto(p, "settle")
    /\ UNCHANGED <<counters, control, budget, pending, tmp, denied, proposals, quarantine, breaker,
                   network, lock, history>>
-----------------------------------------------------------------------------
(* atperson publish.                                                       *)

\* A drain under way: entries still listed, or one being replayed.
Draining == DOMAIN proc["daemon"].todo # {} \/ proc["daemon"].via = "drain"

run_publish ==
    /\ At("publish", "idle") /\ runs < MaxRuns
    /\ runs' = runs + 1
    /\ clock' \in clock..MaxTime
    /\ \E a \in Actions \ Proposed :
        proc' = [proc EXCEPT !["publish"] =
                    [Idle EXCEPT !.pc = "lock", !.now = clock', !.act = a, !.via = "file"]]
    /\ raced' = (raced \/ Draining)
    /\ UNCHANGED <<edits, crashes, files, network, lock, charged, fails, failed, orphans>>

\* Mutation: publish and the scheduler lock different files.
StateLockAcquired_apart(p) ==
    /\ At(p, "lock")
    /\ lock' = p
    /\ Goto(p, "gate")
    /\ UNCHANGED <<counters, files, network, history>>

StateLockAcquired(p) ==
    /\ At(p, "lock") /\ lock = None
    /\ lock' = p
    /\ Goto(p, "gate")
    /\ UNCHANGED <<counters, files, network, history>>

\* The lock is held by a live process: the command, or the daemon, ends.
StateLockError(p) ==
    /\ At(p, "lock") /\ lock \notin {None, p}
    /\ proc' = [proc EXCEPT ![p] = Idle]
    /\ UNCHANGED <<counters, files, network, lock, history>>

PublishReturns ==
    /\ At("publish", "settle")
    /\ lock' = None
    /\ proc' = [proc EXCEPT !["publish"] = Idle]
    /\ UNCHANGED <<counters, files, network, history>>
-----------------------------------------------------------------------------
(* The scheduler's cycle.                                                  *)

\* The pending entries are read, unless offline mode is on; a torn file among
\* them ends the cycle, and the daemon.
run_scheduler_cycle ==
    /\ At("daemon", "idle") /\ runs < MaxRuns
    /\ control.offline_mode \/ Listable
    /\ runs' = runs + 1
    /\ clock' \in clock..MaxTime
    /\ proc' = [proc EXCEPT !["daemon"] =
                   [Idle EXCEPT !.pc = "drain", !.now = clock',
                                !.todo = IF control.offline_mode THEN <<>> ELSE pending]]
    /\ raced' = (raced \/ (~At("publish", "idle") /\ DOMAIN proc'["daemon"].todo # {}))
    /\ UNCHANGED <<edits, crashes, files, network, lock, charged, fails, failed, orphans>>

\* The next entry, in creation order; at the end of them the decisions.
spool_drain ==
    /\ At("daemon", "drain")
    /\ LET todo == proc["daemon"].todo
       IN  IF DOMAIN todo = {}
           THEN Goto("daemon", "decide")
           ELSE \E n \in DOMAIN todo :
                  /\ \A m \in DOMAIN todo : n <= m
                  /\ proc' = [proc EXCEPT !["daemon"] =
                        [@ EXCEPT !.pc = "gate", !.via = "drain", !.act = todo[n],
                                  !.entry = n, !.todo = Without(todo, n)]]
    /\ UNCHANGED <<counters, files, network, lock, history>>

\* Mutation: an entry that was replayed is gone, whatever came of it.
DrainSettles_drops ==
    /\ At("daemon", "settle") /\ proc["daemon"].via = "drain"
    /\ pending' = Without(pending, proc["daemon"].entry)
    /\ proc' = [proc EXCEPT !["daemon"] = [Idle EXCEPT !.pc = "drain", !.now = proc["daemon"].now]]
    /\ UNCHANGED <<counters, control, budget, tmp, denied, proposals, quarantine, breaker, executed,
                   network, lock, history>>

\* What the outcome does to the entry; a transport failure ends the drain.  An
\* entry is removed and renamed by its number, which does nothing to a temporary
\* file; in denied/ it replaces an older one of its number.
DrainSettles ==
    /\ At("daemon", "settle") /\ proc["daemon"].via = "drain"
    /\ LET d == proc["daemon"]
           there == d.entry \in DOMAIN pending \ tmp.left
           denies == d.outcome = "denied" /\ there
       IN  /\ pending' = IF d.outcome \in {"executed", "denied"} /\ there
                         THEN Without(pending, d.entry) ELSE pending
           /\ denied' = IF denies THEN With(denied, d.entry, pending[d.entry]) ELSE denied
           /\ orphans' = IF denies /\ d.entry \in DOMAIN denied
                         THEN orphans \union {denied[d.entry]} ELSE orphans
           /\ proc' = [proc EXCEPT !["daemon"] =
                 [Idle EXCEPT !.pc = "drain", !.now = d.now,
                              !.todo = IF d.outcome = "failed" THEN <<>> ELSE d.todo]]
    /\ UNCHANGED <<counters, control, budget, tmp, proposals, quarantine, breaker, executed,
                   network, lock, charged, fails, failed, raced>>

\* A decision may freeze a proposal, unless it is queued, set aside, or
\* repeats a text.
Decide ==
    /\ At("daemon", "decide")
    /\ \/ \E a \in Proposed \ (proposals \union quarantine \union (executed \intersect Texts)) :
              proposals' = proposals \union {a}
       \/ UNCHANGED proposals
    /\ proc' = [proc EXCEPT !["daemon"].pc = "select",
                            !["daemon"].approvals = control.approved]
    /\ UNCHANGED <<counters, control, budget, pending, tmp, denied, quarantine, breaker, executed,
                   network, lock, history>>

Gated == breaker.open_until # 0 /\ proc["daemon"].now < breaker.open_until

Candidates == {a \in proposals : a \in proc["daemon"].approvals /\ a \notin executed \intersect Texts}

\* The breaker is open, or no queued proposal may be executed.
NothingToExecute ==
    /\ At("daemon", "select")
    /\ Gated \/ Candidates = {}
    /\ proc' = [proc EXCEPT !["daemon"] = Idle]
    /\ UNCHANGED <<counters, files, network, lock, history>>

Select ==
    /\ At("daemon", "select") /\ ~Gated
    /\ \E a \in Candidates :
        proc' = [proc EXCEPT !["daemon"] =
                    [@ EXCEPT !.pc = "lock", !.act = a, !.via = "proposal",
                              !.brk = retain_proposals(breaker, proposals)]]
    /\ UNCHANGED <<counters, files, network, lock, history>>

\* What the outcome does to the proposal and to the breaker in memory.
ExecutionSettles ==
    /\ At("daemon", "settle") /\ proc["daemon"].via = "proposal"
    /\ lock' = None
    /\ LET d == proc["daemon"]
       IN  \/ /\ d.outcome = "executed"
              /\ proposals' = proposals \ {d.act}
              /\ proc' = [proc EXCEPT !["daemon"].pc = "close",
                                      !["daemon"].brk = record_success(d.brk, d.act)]
              /\ fails' = <<>>
              /\ failed' = [failed EXCEPT ![d.act] = 0]
              /\ UNCHANGED quarantine
           \/ /\ d.outcome = "failed"
              /\ IF Poisoned(d.brk, d.act)
                 THEN proposals' = proposals \ {d.act} /\ quarantine' = quarantine \union {d.act}
                 ELSE UNCHANGED <<proposals, quarantine>>
              /\ proc' = [proc EXCEPT !["daemon"].pc = "close",
                                      !["daemon"].brk = record_failure(d.brk, d.act, d.now)]
              /\ fails' = Append(fails, d.now)
              /\ failed' = [failed EXCEPT ![d.act] = @ + 1]
           \/ /\ d.outcome \in {"dry_run", "denied", "deferred"}
              /\ proc' = [proc EXCEPT !["daemon"] = Idle]
              /\ UNCHANGED <<proposals, quarantine, fails, failed>>
    /\ UNCHANGED <<counters, control, budget, pending, tmp, denied, breaker, executed, network,
                   charged, orphans, raced>>

save_breaker_state ==
    /\ At("daemon", "close")
    /\ breaker' = proc["daemon"].brk
    /\ proc' = [proc EXCEPT !["daemon"] = Idle]
    /\ UNCHANGED <<counters, control, budget, pending, tmp, denied, proposals, quarantine, executed,
                   network, lock, history>>

\* The process dies; the next one to want its lock finds it stale.
Dies(p) ==
    /\ ~At(p, "idle") /\ crashes < MaxCrashes
    /\ crashes' = crashes + 1
    /\ proc' = [proc EXCEPT ![p] = Idle]
    /\ lock' = IF lock = p THEN None ELSE lock

Crash(p) ==
    /\ Dies(p)
    /\ orphans' = IF /\ p = "publish"
                     /\ At(p, "charge") \/ (At(p, "record") /\ proc[p].outcome = "executed")
                  THEN orphans \union {proc[p].act} ELSE orphans
    /\ UNCHANGED <<clock, runs, edits, files, network, charged, fails, failed, raced>>

\* It dies in write_record, which leaves its temporary file, whole or cut short.
CrashInSpool(p) ==
    /\ Dies(p) /\ proc[p].via # "drain" /\ Listable
    /\ At(p, "resolve") \/ (At(p, "gate") /\ control.offline_mode)
    /\ \/ /\ pending' = spool_append(pending, proc[p].act)
          /\ tmp' = [tmp EXCEPT !.left = @ \union {NextSeq(pending)}]
       \/ tmp' = [tmp EXCEPT !.torn = TRUE] /\ UNCHANGED pending
    /\ UNCHANGED <<clock, runs, edits, control, budget, denied, proposals, quarantine, breaker,
                   executed, network, history>>
-----------------------------------------------------------------------------
Step(p) ==
    \/ attempt_outbound_action(p) \/ SessionFails(p) \/ ResolveFails(p) \/ SpoolFirst(p)
    \/ put_record(p) \/ put_record_fails(p) \/ spool_remove(p)
    \/ save_outbound_budget_state(p) \/ append_journal_action(p)
    \/ StateLockAcquired(p) \/ StateLockError(p) \/ Crash(p) \/ CrashInSpool(p)

Cycle ==
    \/ run_scheduler_cycle \/ spool_drain \/ DrainSettles \/ Decide
    \/ NothingToExecute \/ Select \/ ExecutionSettles \/ save_breaker_state

Next ==
    \/ Edit \/ run_publish \/ PublishReturns \/ Cycle
    \/ \E p \in Procs : Step(p)

Spec == Init /\ [][Next]_vars
-----------------------------------------------------------------------------
Time == 0..MaxTime

\* Records numbered from 1 to n, some of them dropped.
Numbered(n, V) == UNION {[S -> V] : S \in SUBSET (1..n)}

\* No file has seen more admissions than there were.
Budget ==
    LET n == Len(charged)
    IN  [last : Time \union {NoTime}, count : 0..n, recent : Numbered(n, Time),
         dups : Numbered(n, [key : Actions, at : Time])]

Breaker == [consecutive : Nat, open_until : Nat, cooldown : Nat, failures : [Proposed -> Nat]]
Outcomes == {"executed", "dry_run", "denied", "deferred", "failed"}
Spools == Numbered(MaxRuns, Actions)
Process ==
    [pc : {"idle", "drain", "decide", "select", "lock", "gate", "resolve", "put", "unspool",
           "charge", "record", "settle", "close"},
     now : Time, act : Actions \union {NoAction}, via : {None, "drain", "proposal", "file"},
     outcome : Outcomes \union {None}, base : Budget, entry : 0..MaxRuns, todo : Spools,
     approvals : SUBSET Actions, brk : Breaker]

\* The types of the files and of the processes.  A run spools at most one
\* entry, so the numbers stay below the bound on runs.
TypeOK ==
    /\ clock \in Time
    /\ control \in [paused : BOOLEAN, offline_mode : BOOLEAN, dry_run : BOOLEAN,
                    writes_enabled : BOOLEAN, approval_required : BOOLEAN, enabled : BOOLEAN,
                    approved : SUBSET Actions]
    /\ budget \in Budget /\ pending \in Spools /\ denied \in Spools
    /\ tmp \in [left : SUBSET (1..MaxRuns), torn : BOOLEAN]
    /\ proposals \subseteq Proposed /\ quarantine \subseteq Proposed /\ breaker \in Breaker
    /\ executed \subseteq Actions /\ network \subseteq Actions
    /\ lock \in Procs \union {None}
    /\ proc \in [Procs -> Process]
    /\ runs \in 0..MaxRuns /\ edits \in 0..MaxEdits /\ crashes \in 0..MaxCrashes
    /\ charged \in Seq([act : Actions, at : Time])
    /\ fails \in Seq(Time) /\ failed \in [Proposed -> Nat]
    /\ orphans \subseteq Actions /\ raced \in BOOLEAN

\* Of MaxInWindow + 1 admissions in a row, the last is more than a window
\* after the first, whichever processes made them and however old the `now`
\* they were started with (evaluate.cpp, budget.cpp; the lock of publish.cpp
\* and cycle.cpp).  A drain that overlaps with a publish takes no lock and is
\* left out: there the budget's read and write do race.  So is a limit above
\* the number of records the file keeps, which config.cpp:95 lets through
\* (up to 100000, against 256) and which no count ever reaches.
RateLimit ==
    (~raced /\ MaxInWindow <= MaxRecords) => \A i \in 1..(Len(charged) - MaxInWindow) :
                 charged[i + MaxInWindow].at > charged[i].at + Window

\* Any two admissions are the minimum interval apart, and two of one action a
\* duplicate cool-down (evaluate.cpp:43-66), across restarts, unless so many
\* came between them that the file forgot the first (budget.cpp:139-145).
AdmissionsAreSpaced ==
    ~raced => \A i, j \in 1..Len(charged) :
                 i < j => /\ charged[j].at >= charged[i].at + MinInterval
                          /\ (charged[i].act = charged[j].act /\ j - i <= MaxRecords) =>
                                charged[j].at >= charged[i].at + DupCooldown

\* What is admitted keeps to the operator's limits, however publish and the
\* scheduler interleave: the number in a window and the spacing (evaluate.cpp).
AdmissionsAreLimited == RateLimit /\ AdmissionsAreSpaced

\* A spooled action leaves pending/ only when its record is on the network or
\* it goes to denied/ (spool.cpp:170-180, 208-243): a failed or postponed
\* replay, a crash or a later attempt never drops it.
SpoolKeepsUnpublished ==
    [][~raced' => \A n \in DOMAIN pending :
                     \/ n \in DOMAIN pending' /\ pending'[n] = pending[n]
                     \/ pending[n] \in network' \union Range(denied')]_vars

\* The journal tells no lies, and what is on the network is in it, or is
\* still somewhere it will be retried or looked at: a proposal, quarantined
\* or not, the spool, denied/, an attempt under way (attempt.cpp:117-166, cycle.cpp:566).  Only
\* a publish that dies between its write and its journal line leaves nothing,
\* and, against docs/recovery.md:267 ("permanently"), an action whose document in
\* denied/ is replaced: numbers begin again at 1 when pending/ is empty
\* (spool.cpp:157-165), and the rename does not look (spool.cpp:175-180).
JournalAccountsForNetwork ==
    /\ executed \subseteq network
    /\ ~raced => network \subseteq
          executed \union proposals \union quarantine \union Range(pending)
                   \union Range(denied) \union orphans
          \union {proc[p].act : p \in Procs}

\* A proposal's execution fails at most ProposalFailureLimit times in a row
\* before it is set aside for good, plus once for each crash that lost the count
\* (breaker.cpp:74-82, cycle.cpp:356-358, 582-585).
PoisonIsSetAside ==
    \A a \in Proposed : failed[a] <= ProposalFailureLimit + crashes

\* Of FailureThreshold + 1 failures in a row, the last is a cool-down after
\* the one before it (breaker.cpp:64-77), while no crash lost the count.
FailuresArePaced ==
    crashes = 0 => \A i \in (FailureThreshold + 1)..Len(fails) :
                      fails[i] >= fails[i - 1] + BaseCooldown

\* The scheduler's execution of a failing proposal is contained, across cycles and
\* restarts: the breaker spaces the failures out and the quarantine ends them
\* (scheduler/breaker.cpp).  Of executions only: each failed one leaves a copy in
\* the spool, and the drain retries those in every cycle, before the breaker is
\* looked at and without a word to it (cycle.cpp:209-222), also when the proposal
\* is in quarantine, against breaker.hpp:7-10 and :25-27 ("only the network write
\* is held back").
FailuresAreContained == PoisonIsSetAside /\ FailuresArePaced
=============================================================================
