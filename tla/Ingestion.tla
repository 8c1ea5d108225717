----------------------------- MODULE Ingestion -----------------------------
(***************************************************************************)
(* Perception: how posts of the public timeline become ledger entries and  *)
(* learned state (sync/engine.cpp, sync/linkage.cpp, daemon/loop.cpp and   *)
(* the commands of src/app/cli that drive them).                           *)
(*                                                                         *)
(* Four files make one logical state: the ledger, the model snapshot, the  *)
(* ingestion cursor and the action journal.  A command loads the snapshot, *)
(* takes the writer lock, changes them one at a time, and may die between  *)
(* any two steps.                                                          *)
(*                                                                         *)
(* What is abstracted.  The timeline is the posts 1..published, newest     *)
(* last; a page is one post and its cursor the next older one.  A ledger   *)
(* call is one step, as ObservationLog promises of it; a snapshot or cursor *)
(* save is an atomic replacement.  A graph is how often each observation   *)
(* was trained into it.  The lock is exclusive and a dead owner's lock is  *)
(* taken over (StateLock is the module about that).                        *)
(***************************************************************************)
EXTENDS Integers

CONSTANTS
    Procs,          \* processes an operator or supervisor may start
    NoProc,         \* nobody owns the writer lock
    Commands,       \* the commands they are started with
    MaxPosts,       \* bound: posts ever published
    Eligible,       \* posts that policy lets the model learn from
    Replies,        \* posts that cite the entity's executed action
    ActsLive,       \* TRUE: the daemon's scheduler executes that action
    MaxPages,       \* SyncLimits.max_pages: pages per run or cycle
    SnapshotEvery,  \* DaemonConfig.snapshot_every_cycles
    MaxFaults       \* bound: crashes, transport failures and shutdowns

ASSUME MaxPostsAssumption == MaxPosts \in Nat \ {0}
ASSUME BoundsAssumption ==
    MaxPages \in Nat \ {0} /\ SnapshotEvery \in Nat \ {0} /\ MaxFaults \in Nat
ASSUME PostsAssumption ==
    /\ Eligible \subseteq 0..MaxPosts /\ Replies \subseteq 1..MaxPosts
    /\ ActsLive \in BOOLEAN
ASSUME ProcsAssumption == NoProc \notin Procs
ASSUME CommandsAssumption ==
    Commands \subseteq {"daemon", "sync", "ingest", "withdraw", "rebuild"}

VARIABLES
    published,   \* the timeline's newest post
    executed,    \* the entity's outbound action is in the journal
    ledger,      \* the outcome of every observation
    snapshot,    \* model.bin: how often each observation was trained
    checkpoint,  \* ingestion-state.json
    linked,      \* posts with an event entry in the action journal
    waiting,     \* processes that have not asked for the lock yet
    loaded,      \* the snapshot each of them has read
    holder,      \* the process that owns the writer lock
    cmd, pc,     \* the command it runs and where it is
    graph,       \* its model in memory
    base,        \* history: what it last read, replayed or saved of the model
    state,       \* its ingestion state in memory
    known,       \* its linker read the executed action from the journal
    cursor, item, pages, changed,  \* the traversal under way (run_sync)
    top,                           \* history: the head it began at
    dirty, cycles,                 \* run_daemon's locals
    faults

disk == <<ledger, snapshot, checkpoint, linked>>
world == <<published, executed>>
traversal == <<cursor, item, pages, changed, top>>
owner == <<holder, cmd, known>>
starting == <<waiting, loaded>>
vars == <<world, disk, starting, owner, pc, graph, base, state, traversal,
          dirty, cycles, faults>>
-----------------------------------------------------------------------------
Local == 0                      \* a text the operator passes to `ingest'
Observations == Local..MaxPosts
Outcomes == {"absent", "pending", "learned", "skipped", "withdrawn"}
is_committed(o) == o \in {"learned", "skipped", "withdrawn"}

Graph == [Observations -> Nat]
NoGraph == [i \in Observations |-> 0]

\* next: the cursor to resume at, 0 for the head (catchup inactive).
\* top: the head at which the traversal began (history).
FromHead == [next |-> 0, top |-> 0]
IngestionState == [next : 0..MaxPosts, top : 0..MaxPosts]

Init ==
    /\ published = 1 /\ executed = ~ActsLive
    /\ ledger = [i \in Observations |-> "absent"]
    /\ snapshot = NoGraph /\ checkpoint = FromHead /\ linked = {}
    /\ waiting = {} /\ loaded = [p \in Procs |-> NoGraph]
    /\ holder = NoProc /\ cmd = "none" /\ pc = "off"
    /\ graph = NoGraph /\ base = NoGraph /\ state = FromHead /\ known = FALSE
    /\ cursor = 0 /\ item = 0 /\ pages = 0 /\ changed = FALSE /\ top = 0
    /\ dirty = FALSE /\ cycles = 0
    /\ faults = 0

\* A post may only cite an action that exists.
Publish ==
    /\ published < MaxPosts
    /\ published + 1 \in Replies => executed
    /\ published' = published + 1
    /\ UNCHANGED <<executed, disk, starting, owner, base, pc, graph, state, traversal,
                   dirty, cycles, faults>>
-----------------------------------------------------------------------------
(* Starting and ending a command.                                          *)

\* main.cpp reads the model before the command asks for the lock (`withdraw'
\* and `rebuild' read none and ignore it here).
LoadGraph(p) ==
    /\ p \notin waiting /\ holder # p
    /\ waiting' = waiting \cup {p}
    /\ loaded' = [loaded EXCEPT ![p] = snapshot]
    /\ UNCHANGED <<world, disk, owner, base, pc, graph, state, traversal, dirty,
                   cycles, faults>>

EntryPoint(c) ==
    CASE c = "daemon" -> "loop"
      [] c = "sync" -> "begin"
      [] c = "ingest" -> "append"
      [] c = "withdraw" -> "withdraw"
      [] c = "rebuild" -> "rebuild"

\* Mutation: the command starts from an empty model.
Acquire_fresh(p) ==
    /\ p \in waiting /\ holder = NoProc
    /\ holder' = p
    /\ cmd' \in Commands
    /\ pc' = EntryPoint(cmd')
    /\ graph' = NoGraph /\ base' = loaded[p]
    /\ waiting' = waiting \ {p}
    /\ loaded' = [loaded EXCEPT ![p] = NoGraph]
    /\ state' = checkpoint
    /\ known' = executed
    /\ item' = Local
    /\ UNCHANGED <<world, disk, cursor, pages, changed, top, dirty, cycles, faults>>

Acquire(p) ==
    /\ p \in waiting /\ holder = NoProc
    /\ holder' = p
    /\ cmd' \in Commands
    /\ pc' = EntryPoint(cmd')
    /\ graph' = loaded[p] /\ base' = loaded[p]
    /\ waiting' = waiting \ {p}
    /\ loaded' = [loaded EXCEPT ![p] = NoGraph]
    /\ state' = checkpoint
    /\ known' = executed
    /\ item' = Local
    /\ UNCHANGED <<world, disk, cursor, pages, changed, top, dirty, cycles, faults>>

\* StateLock throws when the directory has a live owner.
Refused(p) ==
    /\ p \in waiting /\ holder # NoProc
    /\ waiting' = waiting \ {p}
    /\ loaded' = [loaded EXCEPT ![p] = NoGraph]
    /\ UNCHANGED <<world, disk, owner, base, pc, graph, state, traversal, dirty,
                   cycles, faults>>

Gone ==
    /\ holder' = NoProc /\ cmd' = "none" /\ pc' = "off"
    /\ graph' = NoGraph /\ base' = NoGraph /\ state' = FromHead /\ known' = FALSE
    /\ cursor' = 0 /\ item' = 0 /\ pages' = 0 /\ changed' = FALSE /\ top' = 0
    /\ dirty' = FALSE /\ cycles' = 0

Exit ==
    /\ pc = "exit"
    /\ Gone
    /\ UNCHANGED <<world, disk, starting, faults>>

\* The process dies: a crash, or an error that is not a RetryableError.
Crash ==
    /\ pc # "off" /\ faults < MaxFaults
    /\ faults' = faults + 1
    /\ Gone
    /\ UNCHANGED <<world, disk, starting>>
-----------------------------------------------------------------------------
(* sync/engine.cpp: run_sync and process_observation.                      *)

\* A fresh traversal starts at the head, an active one at its cursor.
Begin ==
    /\ pc = "begin"
    /\ cursor' = state.next
    /\ top' = state.top
    /\ pages' = 0 /\ changed' = FALSE
    /\ pc' = "fetch"
    /\ UNCHANGED <<world, disk, starting, owner, base, graph, state, item, dirty, cycles, faults>>

FetchPage ==
    /\ pc = "fetch"
    /\ item' = IF cursor = 0 THEN published ELSE cursor
    /\ top' = IF cursor = 0 THEN published ELSE top
    /\ pc' = "append"
    /\ UNCHANGED <<world, disk, starting, owner, base, graph, state, cursor, pages, changed,
                   dirty, cycles, faults>>

\* The service rejects the cursor: the fetcher goes back to the head.
CursorRejected ==
    /\ pc = "fetch" /\ cursor # 0 /\ faults < MaxFaults
    /\ faults' = faults + 1
    /\ item' = published
    /\ top' = published
    /\ pc' = "append"
    /\ UNCHANGED <<world, disk, starting, owner, base, graph, state, cursor, pages, changed,
                   dirty, cycles>>

\* A transport failure: run_daemon backs off and tries again; the other
\* commands end (Crash).
FetchRetry ==
    /\ pc = "fetch" /\ cmd = "daemon" /\ faults < MaxFaults
    /\ faults' = faults + 1
    /\ pc' = "loop"
    /\ UNCHANGED <<world, disk, starting, owner, base, graph, state, traversal, dirty, cycles>>

\* Mutation: an observation that was learned is trained again.
append_again ==
    /\ pc = "append"
    /\ IF ledger[item] \in {"skipped", "withdrawn"}
       THEN pc' = "next" /\ UNCHANGED ledger
       ELSE /\ pc' = "train"
            /\ ledger' = IF is_committed(ledger[item]) THEN ledger
                         ELSE [ledger EXCEPT ![item] = "pending"]
    /\ UNCHANGED <<world, snapshot, checkpoint, linked, starting, owner, base, graph,
                   state, traversal, dirty, cycles, faults>>

\* Mutation: whatever is in the ledger is a duplicate, an open entry too.
append_once ==
    /\ pc = "append"
    /\ IF ledger[item] # "absent"
       THEN pc' = "next" /\ UNCHANGED ledger
       ELSE pc' = "train" /\ ledger' = [ledger EXCEPT ![item] = "pending"]
    /\ UNCHANGED <<world, snapshot, checkpoint, linked, starting, owner, base, graph,
                   state, traversal, dirty, cycles, faults>>

\* Record the observation before training; a committed one is a duplicate.
append ==
    /\ pc = "append"
    /\ IF is_committed(ledger[item])
       THEN pc' = "next" /\ UNCHANGED ledger
       ELSE pc' = "train" /\ ledger' = [ledger EXCEPT ![item] = "pending"]
    /\ UNCHANGED <<world, snapshot, checkpoint, linked, starting, owner, base, graph,
                   state, traversal, dirty, cycles, faults>>

\* Mutation: the model is saved before the outcome is committed.
remember_and_save ==
    /\ pc = "train"
    /\ graph' = IF item \in Eligible THEN [graph EXCEPT ![item] = 1] ELSE graph
    /\ snapshot' = graph'
    /\ pc' = "outcome"
    /\ UNCHANGED <<world, ledger, checkpoint, linked, starting, owner, base, state,
                   traversal, dirty, cycles, faults>>

remember ==
    /\ pc = "train"
    /\ graph' = IF item \in Eligible THEN [graph EXCEPT ![item] = @ + 1] ELSE graph
    /\ pc' = "outcome"
    /\ UNCHANGED <<world, disk, starting, owner, base, state, traversal, dirty, cycles, faults>>

set_outcome ==
    /\ pc = "outcome"
    /\ ledger' = [ledger EXCEPT ![item] =
                    IF item \in Eligible THEN "learned" ELSE "skipped"]
    /\ changed' = TRUE
    /\ pc' = "link"
    /\ UNCHANGED <<world, snapshot, checkpoint, linked, starting, owner, base, graph,
                   state, cursor, item, pages, top, dirty, cycles, faults>>

\* sync/linkage.cpp: against the journal as the command found it at its start.
link ==
    /\ pc = "link"
    /\ linked' = IF known /\ item \in Replies THEN linked \cup {item} ELSE linked
    /\ pc' = "next"
    /\ UNCHANGED <<world, ledger, snapshot, checkpoint, starting, owner, base, graph,
                   state, traversal, dirty, cycles, faults>>

\* Mutation: the run's cursor skips a post.
NextPage_skips ==
    /\ pc = "next" /\ cmd \in {"daemon", "sync"}
    /\ pages' = pages + 1
    /\ state' = [next |-> IF item > 1 THEN item - 2 ELSE 0, top |-> top]
    /\ pc' = IF cmd = "daemon" THEN "cycle" ELSE "save_graph"
    /\ UNCHANGED <<world, disk, starting, owner, base, graph, cursor, item, changed, top,
                   dirty, cycles, faults>>

\* The page is done: fetch the next, or end the run and move the cursor.
NextPage ==
    /\ pc = "next" /\ cmd \in {"daemon", "sync"}
    /\ pages' = pages + 1
    /\ IF item = 1 \/ pages' = MaxPages
       THEN /\ state' = [next |-> item - 1, top |-> top]
            /\ pc' = IF cmd = "daemon" THEN "cycle" ELSE "save_graph"
            /\ UNCHANGED cursor
       ELSE /\ cursor' = item - 1
            /\ pc' = "fetch"
            /\ UNCHANGED state
    /\ UNCHANGED <<world, disk, starting, owner, base, graph, item, changed, top,
                   dirty, cycles, faults>>

\* cli/ingest.cpp: one local observation; nothing new is nothing to save.
IngestDone ==
    /\ pc = "next" /\ cmd = "ingest"
    /\ pc' = IF changed THEN "save_graph" ELSE "exit"
    /\ UNCHANGED <<world, disk, starting, owner, base, graph, state, traversal, dirty,
                   cycles, faults>>
-----------------------------------------------------------------------------
(* daemon/loop.cpp: run_daemon.                                            *)

Loop ==
    /\ pc = "loop"
    /\ pc' = "begin"
    /\ UNCHANGED <<world, disk, starting, owner, base, graph, state, traversal, dirty,
                   cycles, faults>>

\* A signal, `control shutdown' or max_cycles: flush and leave.
Stop ==
    /\ pc = "loop" /\ faults < MaxFaults
    /\ faults' = faults + 1
    /\ pc' = "flush"
    /\ UNCHANGED <<world, disk, starting, owner, base, graph, state, traversal, dirty, cycles>>

Cycle ==
    /\ pc = "cycle"
    /\ cycles' = (cycles + 1) % SnapshotEvery
    /\ dirty' = (dirty \/ changed)
    /\ pc' = "save_ingestion"
    /\ UNCHANGED <<world, disk, starting, owner, base, graph, state, traversal, faults>>

\* The cursor first, then the snapshot when it is due; at exit the same order.
DaemonSaveIngestion ==
    /\ pc \in {"save_ingestion", "flush"} /\ cmd = "daemon"
    /\ checkpoint' = state
    /\ pc' = CASE pc = "flush" -> IF dirty THEN "flush_graph" ELSE "exit"
               [] pc = "save_ingestion" ->
                    IF dirty /\ cycles = 0 THEN "save_graph" ELSE "on_cycle"
    /\ UNCHANGED <<world, ledger, snapshot, linked, starting, owner, base, graph, state,
                   traversal, dirty, cycles, faults>>

SaveGraph ==
    /\ pc \in {"save_graph", "flush_graph"}
    /\ snapshot' = graph /\ base' = graph
    /\ dirty' = FALSE
    /\ pc' = CASE pc = "flush_graph" -> "exit"
               [] cmd = "daemon" -> "on_cycle"
               [] cmd = "sync" -> "save_ingestion"
               [] OTHER -> "exit"
    /\ UNCHANGED <<world, ledger, checkpoint, linked, starting, owner, graph,
                   state, traversal, cycles, faults>>

\* cli/sync.cpp saves the other way round: the snapshot, then the cursor.
SyncSaveIngestion ==
    /\ pc = "save_ingestion" /\ cmd = "sync"
    /\ checkpoint' = state
    /\ pc' = "exit"
    /\ UNCHANGED <<world, ledger, snapshot, linked, starting, owner, base, graph, state,
                   traversal, dirty, cycles, faults>>

\* The scheduler runs in the hook and may append an action to the journal.
OnCycle ==
    /\ pc = "on_cycle"
    /\ executed' \in {executed, TRUE}
    /\ pc' = "loop"
    /\ UNCHANGED <<published, disk, starting, owner, base, graph, state, traversal,
                   dirty, cycles, faults>>
-----------------------------------------------------------------------------
(* cli/maintenance.cpp: withdrawal, and the rebuild that follows it.       *)

Withdraw ==
    /\ pc = "withdraw"
    /\ \E i \in Observations :
        /\ ledger[i] # "absent"
        /\ ledger' = [ledger EXCEPT ![i] = "withdrawn"]
    /\ pc' = "exit"
    /\ UNCHANGED <<world, snapshot, checkpoint, linked, starting, owner, base, graph,
                   state, traversal, dirty, cycles, faults>>

\* Nothing matches what the operator named.
WithdrawNothing ==
    /\ pc = "withdraw"
    /\ pc' = "exit"
    /\ UNCHANGED <<world, disk, starting, owner, base, graph, state, traversal, dirty,
                   cycles, faults>>

\* core/replay.c into a fresh graph: every learned entry once, in id order.
Replayed == [i \in Observations |-> IF ledger[i] = "learned" THEN 1 ELSE 0]

Rebuild ==
    /\ pc = "rebuild"
    /\ graph' = Replayed /\ base' = graph'
    /\ pc' = "save_graph"
    /\ UNCHANGED <<world, disk, starting, owner, state, traversal, dirty, cycles, faults>>
-----------------------------------------------------------------------------
Steps ==
    \/ \E p \in Procs : LoadGraph(p) \/ Acquire(p)
    \/ Exit
    \/ Begin \/ FetchPage \/ append \/ remember \/ set_outcome \/ link
    \/ NextPage \/ IngestDone
    \/ Loop \/ Cycle \/ DaemonSaveIngestion \/ SaveGraph \/ SyncSaveIngestion
    \/ OnCycle
    \/ Withdraw \/ WithdrawNothing \/ Rebuild

Next ==
    \/ Steps
    \/ Publish
    \/ \E p \in Procs : Refused(p)
    \/ CursorRejected \/ FetchRetry \/ Stop \/ Crash

Spec == Init /\ [][Next]_vars

\* A supervisor restarts the daemon and it keeps running.
FairSpec == Spec /\ WF_vars(Steps)
-----------------------------------------------------------------------------
(* Properties.                                                             *)

TypeOK ==
    /\ published \in 1..MaxPosts /\ executed \in BOOLEAN
    /\ ledger \in [Observations -> Outcomes]
    /\ snapshot \in Graph /\ graph \in Graph /\ base \in Graph
    /\ checkpoint \in IngestionState /\ state \in IngestionState
    /\ linked \subseteq Replies
    /\ waiting \subseteq Procs /\ loaded \in [Procs -> Graph]
    /\ holder \in Procs \cup {NoProc} /\ cmd \in Commands \cup {"none"}
    /\ pc \in {"off", "begin", "fetch", "append", "train", "outcome", "link",
               "next", "loop", "cycle", "save_ingestion", "save_graph",
               "on_cycle", "flush", "flush_graph", "withdraw", "rebuild", "exit"}
    /\ known \in BOOLEAN /\ changed \in BOOLEAN /\ dirty \in BOOLEAN
    /\ cursor \in 0..MaxPosts /\ top \in 0..MaxPosts /\ item \in Observations
    /\ pages \in Nat /\ cycles \in Nat /\ faults \in Nat

\* engine.cpp appends before it trains "so a restarted process can never
\* re-train": whatever dies and is retried, no model, in memory or on disk,
\* has an observation trained into it twice.
TrainedOnce == \A i \in Observations : graph[i] <= 1 /\ snapshot[i] <= 1

\* What a snapshot on disk was trained on is settled in the ledger: retrying
\* a pending entry never meets a model that already learned from it.
SnapshotIsSettled ==
    \A i \in Observations : snapshot[i] > 0 => ledger[i] \in {"learned", "withdrawn"}

\* The saved cursor never moves past an observation that was not committed:
\* everything from the head its traversal began at down to it is in the ledger.
CursorIsCovered ==
    \A i \in Observations :
        (checkpoint.next < i /\ i <= checkpoint.top) => is_committed(ledger[i])

\* No save loses what an earlier save had learned, except what was withdrawn
\* and what another process saved after this one had read the model: main.cpp
\* loads the snapshot before the command asks for the writer lock, and the lock
\* is no reason to load it again.  (docs/daemon.md:26 and daemon.cpp:180-182
\* promise that processes cannot overwrite each other; README, section 7.)
\* Whatever the lock's owner has seen of the model on the disk, none of its
\* saves takes out again, through retries, replays and its own earlier saves.
SnapshotKeepsLearned ==
    [][\A i \in Observations :
        snapshot[i] > 0 /\ snapshot'[i] = 0 =>
            ledger[i] = "withdrawn" \/ base[i] = 0]_vars

\* Every published post is ledgered in the end, through crashes, transport
\* failures, rejected cursors and shutdowns (finitely many of them).
EveryPostSettled ==
    \A i \in 1..MaxPosts : (published >= i) ~> is_committed(ledger[i])
=============================================================================
