----------------------------- MODULE Reflection -----------------------------
(***************************************************************************)
(* The entity's notes about itself: thoughts (movements, consolidations,   *)
(* and the operator's own) and metric snapshots, each in a directory of    *)
(* records whose names grow with time.  The daemon runs both passes after  *)
(* a cycle, the operator runs them from the command line; each reads the   *)
(* clock, takes the store's lock, reads the store, decides, writes one     *)
(* record after the other, and may die between two of them.                *)
(***************************************************************************)
EXTENDS Integers, Sequences, FiniteSets, FiniteSetsExt

CONSTANTS
  Procs,            \* the daemon and commands
  Topics,           \* what may move: a token's valence, the reply ratio, authors
  Window, Cadence,  \* ReflectionConfig, SelfEvalConfig
  MaxThoughts,      \* ReflectionConfig::max_thoughts
  None,
  MaxTime, MaxRecords, MaxPasses, MaxCrashes    \* bounds of the instance

VARIABLES
  clock,
  moved,      \* <<topic, instant>> pairs the journal and the ledger hold
  thoughts,   \* the thought store, in id order
  snapshots,  \* the metric store, in id order
  holder,     \* who has the lock of each store
  proc,       \* the passes
  passes, crashes

vars == <<clock, moved, thoughts, snapshots, holder, proc, passes, crashes>>

Stores == {"thoughts", "metrics"}

\* a lock's owner is told from nobody; the budget of a pass is a count
ReflectionAssumption == None \notin Procs /\ MaxThoughts \in Nat
---------------------------------------------------------------------------
(* What a pass reads. *)

\* parse_thought and serialise_thought know three kinds
ThoughtKinds == {"reflection", "movement", "consolidation"}

Thought(kind, topic, now) == [kind |-> kind, topic |-> topic, at |-> now]

\* the trailing window, cut off at zero
InWindow(at, now) == at >= (IF Window > now THEN 0 ELSE now - Window) /\ at <= now

\* topics whose movement inside the window passes its threshold
Triggered(facts, now) ==
  {topic \in Topics : \E f \in facts : f[1] = topic /\ InWindow(f[2], now)}

already_has(store, kind, now) ==
  \E i \in DOMAIN store : store[i].kind = kind /\ store[i].at = now

\* an instant has its movements written at most once
Candidates(store, facts, now) ==
  IF already_has(store, "movement", now) THEN {} ELSE Triggered(facts, now)

last_consolidation(store) ==
  Max({0} \cup {store[i].at : i \in {k \in DOMAIN store : store[k].kind = "consolidation"}})

\* none yet, the clock stepped back, or a cadence has gone by
due(last, now) == last = 0 \/ now < last \/ now - last >= Cadence

\* the latest snapshot by id, 0 when there is none
previous(store) == Len(store)

MetricSnapshot(now, prev) == [at |-> now, previous |-> prev]
---------------------------------------------------------------------------
Idle == [pc |-> "idle", store |-> None, now |-> 0, facts |-> {}, left |-> {},
         consolidate |-> FALSE, budget |-> 0, prev |-> 0]

\* the clock, and the daemon's copy of the journal, are read before the lock
Begin(p, store) ==
  /\ proc[p].pc = "idle" /\ passes < MaxPasses
  /\ passes' = passes + 1
  /\ proc' = [proc EXCEPT ![p] = [Idle EXCEPT !.pc = "lock", !.store = store,
                                              !.now = clock, !.facts = moved]]
  /\ UNCHANGED <<clock, moved, thoughts, snapshots, holder, crashes>>

\* a lock that is held is an error: the pass is given up
Lock(p) ==
  LET free == holder[proc[p].store] = None
  IN /\ proc[p].pc = "lock"
     /\ proc' = [proc EXCEPT ![p] = IF free THEN [@ EXCEPT !.pc = "load"] ELSE Idle]
     /\ holder' = IF free THEN [holder EXCEPT ![proc[p].store] = p] ELSE holder
     /\ UNCHANGED <<clock, moved, thoughts, snapshots, passes, crashes>>

\* run_reflection_pass up to its write phase; a command reads the journal here
LoadThoughts(p) ==
  /\ proc[p].pc = "load" /\ proc[p].store = "thoughts"
  /\ \E facts \in {proc[p].facts, moved} :
       proc' = [proc EXCEPT ![p].pc = "write",
                            ![p].left = Candidates(thoughts, facts, proc[p].now),
                            ![p].consolidate = due(last_consolidation(thoughts), proc[p].now),
                            ![p].budget = MaxThoughts]
  /\ UNCHANGED <<clock, moved, thoughts, snapshots, holder, passes, crashes>>

Full(store) == Len(store) >= MaxRecords

WriteMovement(p, topic) ==
  /\ proc[p].pc = "write" /\ topic \in proc[p].left /\ proc[p].budget > 0
  /\ ~Full(thoughts)
  /\ thoughts' = Append(thoughts, Thought("movement", topic, proc[p].now))
  /\ proc' = [proc EXCEPT ![p].left = @ \ {topic}, ![p].budget = @ - 1]
  /\ UNCHANGED <<clock, moved, snapshots, holder, passes, crashes>>

\* the movements come first and may use the whole budget
WriteConsolidation(p) ==
  /\ proc[p].pc = "write" /\ proc[p].left = {} /\ proc[p].consolidate /\ proc[p].budget > 0
  /\ ~Full(thoughts)
  /\ thoughts' = Append(thoughts, Thought("consolidation", None, proc[p].now))
  /\ proc' = [proc EXCEPT ![p].consolidate = FALSE]
  /\ UNCHANGED <<clock, moved, snapshots, holder, passes, crashes>>

Unlock(p) ==
  /\ proc' = [proc EXCEPT ![p] = Idle]
  /\ holder' = [holder EXCEPT ![proc[p].store] = None]

EndReflection(p) ==
  /\ proc[p].pc = "write"
  /\ \/ proc[p].budget = 0
     \/ proc[p].left = {} /\ ~proc[p].consolidate
  /\ Unlock(p)
  /\ UNCHANGED <<clock, moved, thoughts, snapshots, passes, crashes>>

\* Mutation: the lock given back once the store is read.
LoadMetrics_unlocks(p) ==
  LET prev == previous(snapshots)
      go   == prev = 0 \/ due(snapshots[prev].at, proc[p].now)
  IN /\ proc[p].pc = "load" /\ proc[p].store = "metrics"
     /\ proc' = [proc EXCEPT ![p] = IF go THEN [@ EXCEPT !.pc = "snapshot", !.prev = prev]
                                    ELSE Idle]
     /\ holder' = [holder EXCEPT !["metrics"] = None]
     /\ UNCHANGED <<clock, moved, thoughts, snapshots, passes, crashes>>

\* run_self_eval_pass: inside the cadence nothing is written
LoadMetrics(p) ==
  LET prev == previous(snapshots)
      go   == prev = 0 \/ due(snapshots[prev].at, proc[p].now)
  IN /\ proc[p].pc = "load" /\ proc[p].store = "metrics"
     /\ IF go
        THEN /\ proc' = [proc EXCEPT ![p].pc = "snapshot", ![p].prev = prev]
             /\ UNCHANGED holder
        ELSE Unlock(p)
     /\ UNCHANGED <<clock, moved, thoughts, snapshots, passes, crashes>>

WriteSnapshot(p) ==
  /\ proc[p].pc = "snapshot" /\ ~Full(snapshots)
  /\ snapshots' = Append(snapshots, MetricSnapshot(proc[p].now, proc[p].prev))
  /\ Unlock(p)
  /\ UNCHANGED <<clock, moved, thoughts, passes, crashes>>

\* `thought`: the operator's own note
RecordThought ==
  /\ holder["thoughts"] = None /\ ~Full(thoughts)
  /\ thoughts' = Append(thoughts, Thought("reflection", None, clock))
  /\ UNCHANGED <<clock, moved, snapshots, holder, proc, passes, crashes>>

\* the process dies; the next to want the lock finds its owner dead
Crash(p) ==
  /\ proc[p].pc # "idle" /\ crashes < MaxCrashes
  /\ crashes' = crashes + 1
  /\ proc' = [proc EXCEPT ![p] = Idle]
  /\ holder' = [s \in Stores |-> IF holder[s] = p THEN None ELSE holder[s]]
  /\ UNCHANGED <<clock, moved, thoughts, snapshots, passes>>

Move(topic) ==
  /\ moved' = moved \cup {<<topic, clock>>}
  /\ UNCHANGED <<clock, thoughts, snapshots, holder, proc, passes, crashes>>

Tick ==
  /\ clock < MaxTime
  /\ clock' = clock + 1
  /\ UNCHANGED <<moved, thoughts, snapshots, holder, proc, passes, crashes>>

Init ==
  /\ clock = 1 /\ moved = {} /\ thoughts = <<>> /\ snapshots = <<>>
  /\ holder = [s \in Stores |-> None]
  /\ proc = [p \in Procs |-> Idle]
  /\ passes = 0 /\ crashes = 0

Next ==
  \/ \E p \in Procs, store \in Stores : Begin(p, store)
  \/ \E p \in Procs : \/ Lock(p) \/ LoadThoughts(p) \/ WriteConsolidation(p)
                      \/ EndReflection(p) \/ LoadMetrics(p) \/ WriteSnapshot(p)
                      \/ Crash(p)
  \/ \E p \in Procs, topic \in Topics : WriteMovement(p, topic)
  \/ RecordThought
  \/ \E topic \in Topics : Move(topic)
  \/ Tick

Spec == Init /\ [][Next]_vars
---------------------------------------------------------------------------
(* Properties. *)

TypeOK ==
  /\ \A i \in DOMAIN thoughts : thoughts[i].kind \in ThoughtKinds
  /\ \A p \in Procs : proc[p].budget \in 0..MaxThoughts

\* A movement is noted once: however the daemon's pass and the operator's
\* overlap, and whoever dies in the middle of a burst, no topic has two notes for
\* the window that ends at one instant (run_reflection_pass, the thoughts lock).
MovementsAreNotedOnce ==
  \A i, k \in DOMAIN thoughts :
    (/\ thoughts[i].kind = "movement" /\ thoughts[k].kind = "movement"
     /\ thoughts[i].topic = thoughts[k].topic /\ thoughts[i].at = thoughts[k].at) => i = k

\* The snapshots are one chain in the order they were written, whatever instant
\* each pass had read before it got the lock: each names the one before it, so a
\* delta is always taken against the latest (run_self_eval_pass).
SnapshotsFormAChain ==
  \A i \in DOMAIN snapshots : snapshots[i].previous = i - 1

\* The passes of the daemon and of commands leave the stores as if they had run
\* one after the other (the store locks of cli/thoughts.cpp and selfeval).
PassesAreSerial == MovementsAreNotedOnce /\ SnapshotsFormAChain
=============================================================================
