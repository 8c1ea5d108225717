# atperson: specification, model checking and proofs

This directory holds TLA+ modules of the parts of atperson that keep durable
state or share it between processes and threads. TLC checks them on small
instances; TLAPS proves the main safety results for every value of the
constants. `PROJECT.json` maps every definition to the lines it stands for.

Paths below are relative to the repository's root; `core/` and `app/` are short
for `src/core/` and `src/app/`.

## 1. The system

atperson is a single-entity AT Protocol agent. A C23 core learns a language
graph from public posts; a C++ application around it reads the timeline, keeps
the observation ledger, decides on outbound actions and runs as a daemon or as
one-shot commands over one data directory.

| Part | State it keeps | Operations | What is hard |
|---|---|---|---|
| Observation ledger, `core/ledger` | append-only log, `.off` commit marker, mirror in memory | open/recover, append, set_outcome, withdraw (id, source, author), compact, release_payloads, close | crash between write, fsync, marker; a commit that fails half-way; compaction without a marker |
| Ledger migration, `core/ledger/migrate.c` | older files | upgrade at open | crash between rename and marker removal |
| Sync engine, `app/sync/engine.cpp` | cursor, ledger, graph | run_sync, process_observation | crash between append, train, outcome, link, save |
| Event linkage, `app/sync/linkage.cpp` | action journal | make_journal_linker, link | stale journal, crash before link |
| Daemon loop, `app/daemon` | dirty flag, cycle count, backoff | run_daemon, flush | retry part-way through a cycle; order of saves |
| Parallel sync, `app/sync/parallel.cpp` | ready queue, error flag, condition variable | run_sync_parallel | lost wakeup, lifetime of the frame, one graph, two threads |
| Worker pool, `app/worker` | queue, pending count, first error | submit, wait, resize, shutdown | backpressure, error while the owner sleeps |
| State lock, `app/state/lock.cpp` | lock file | acquire, steal, release | check and removal are separate calls; dead owners |
| State files, `app/state`, `app/ingestion/state.cpp` | JSON files | load, save by temporary and rename | crash between snapshot and cursor |
| Commands, `app/main.cpp`, `app/cli` | – | sync, daemon, ingest, rebuild, withdraw, compact, rotate, publish, ... | the model is loaded before the lock is taken |
| Replay, `core/replay.c` | – | rebuild a graph from the ledger | withdrawn and released entries, layout migrations |
| Graph, `core/graph`, `core/memory.c`, `core/valence.c` | nodes, edges, two hash indexes, episodes, recall groups, valence | observe, recall, feel, prune, expand, query | everything names a node by its number, and pruning renumbers; ceilings; derived structures that must follow |
| Snapshot, `core/persistence` | `model.bin` | save, load, v4 to v6 formats | a loader that validates what the writer never tests |
| Outbound, `app/outbound` | budget file, spool, audit log | attempt, execute, drain | crash after the network write, duplicate publication, budget race |
| Operator control, `app/control` | control file, remote cursor, envelopes | pause, approve, remote commands, grant, revoke | read-modify-write without a lock, replayed and overlapping polls |
| Journal, `app/journal` | JSON lines of actions, events, resolutions, intents, valence | append, load, link, resolve, map | torn tail, redelivered events, model and journal saved apart |
| Scheduler, intents, `app/scheduler`, `app/intent` | circuit breaker, open intents | decision cycle; open, continue, expire | failure counts, half-open probes; caps tested against a growing journal |
| Replication, `app/replicate` | publication cursor, published records | publish, reconstruct | one failure of several writes; withdrawals behind the cursor |
| Resource budget, `app/resource`, `app/cli/rotation.cpp` | measured capacity | measure, derive ceilings, admit a load, rotation by size | a host that changes after it was measured; zero as "unknown" and as "no limit" |
| Autonomy, `app/autonomy` | run state, heartbeat, envelopes, policy | arm, disarm, preflight, begin, stop | an arm that dies between three files |
| Reflection, self-evaluation, thoughts | two directories of records | periodic passes, notes | the clock read before the lock; a burst that dies half-way |
| AT Protocol client, jetstream, `app/atproto`, `app/sync/jetstream_*` | session, stream cursor, evidence | fetch, stream, archive replay, backfill | lost and repeated frames, deletes, the order of the saves |
| Audit, attestation, inspection | – | read only | – |
| Protocol evidence ledger, `protocol/` | its own log | append, load, verify | torn tail, a second appender without the lock |

How they interact. A command of `main.cpp` loads the snapshot, takes the state
lock and opens the ledger. `run_daemon` calls a sync runner (sequential, or
parallel over a worker pool); the runner fetches a page, and for every post
calls the ledger, the graph and the linker; the loop then saves cursor and
snapshot through callbacks and calls the hooks (remote control, scheduler,
reflection, publication, heartbeat). Control commands write the control file
without taking the lock; the daemon reads it between cycles.

What makes the parts correct: an acknowledged ledger operation survives any
crash; no post is trained twice; the cursor never passes a post that is not in
the ledger; a snapshot never loses what was learned; one process owns the data
directory; a pool call returns; every post is settled in the end; an index finds
every node; what is written can be read again; what is published is journalled,
and what the journal says can be restored; a remote command takes effect in its
turn; work the budget allows leaves the host its reserve.

## 2. Plan

1. `Ledger`, with `ObservationLog` as its abstract specification. *Done, proved.*
2. `Ingestion`: commands over ledger, snapshot, cursor and journal. *Done, proved.*
3. `StateLock`. *Done, proved.*
4. `WorkerPool`, and `ParallelSync` composed with it. *Done, proved.*
5. `Outbound`: attempt, budget, spool, drain, the scheduler's cycle and its
   breaker, with the control file beside it. *Done, proved.*
6. `Operator`: control file races, remote command sequencing, envelopes, arming.
   *Done, proved but for liveness.*
7. `Journal`: events, resolutions, valence and intents. *Done, proved.*
8. `Replication`, `Reflection`, `Migration`, `Resources`, `Jetstream`, composed in
   `Records` and `Platform`. *Done, proved; one disagreement with a comment is a
   run.*
9. `Graph`: indexes, groups, recall, valence, pruning, snapshots, replay. *Done,
   proved.*

Every safety property of the runs is proved but one (section 6). What is left is
listed in section 8 and, for hazards no property covers, in `PROJECT.json`.

## 3. Modules and how they correspond to the code

### Ledger, ObservationLog
`log` is the file as a sequence of extents, one per `fwrite`; `synced` how much
of it is durable; `marker` the `.off` file. A commit is `StartCommit`
(write), `SyncRecord` (fsync), `PublishMarker` (temporary, fsync, rename) as in
`commit.c`; a crash may fall between any two, and leaves any prefix of the
unsynced bytes (`Survivors`). `append`, `set_outcome`, the withdrawal loops,
`compact` and `release_payloads` start from the code's guards. Opening is
`recover.c`'s loop one record at a time: `RecoverRecord` accepts a record,
`RecoverHeal` cuts an unfenced tail, `RecoverRefused` refuses a damaged fenced
prefix, `RecoverDone` republishes the marker when there was none. `acked` and
`unfenced` are history variables. Lengths are units (a patch 2, an entry 3, its
text 1), enough to tell every boundary apart.

`ObservationLog` is what callers rely on: a list of observations whose outcomes
are set, never reopened, and dropped as a whole only by compaction of entries
that were withdrawn. `MCLedger` gives the mapping (the acknowledged entries).

Not modelled: durability of a rename without a directory fsync (taken as durable),
a failing `remove` in compaction (ignored by the code as well), allocation
failure, the header and magic bytes, the hash index (an exact lookup here).

### Ingestion
One process may hold the lock (`holder`), others have loaded the snapshot and
wait (`waiting`, `loaded`), as `main.cpp` loads before any command locks. A page
is one post. `append`, `remember`, `set_outcome`, `link`, `NextPage` are
`process_observation` and `run_sync` step by step; `Loop` to `OnCycle` are
`run_daemon`; `IngestDone`, `SyncSaveIngestion`, `Withdraw`, `Rebuild` are the
commands. A ledger call is one step, which is what `ObservationLog` promises of
it. `Crash` also stands for an error that is not retryable, in the hooks too.
Bounds: `MaxPosts`, `MaxFaults` (crashes, transport failures, rejected cursors,
stops). Rotation by size inside `save_graph` and the startup archive are left out.

### StateLock
One action per system call of the constructor: create, write the metadata, read
the size, read the contents, probe the pid that was read, remove by path; and the
end of the process, from which on its pid is dead. `WriteFaults` says whether the
metadata may fail to be written or be cut short. `fresh` and `mistaken` are history:
whether the file a process judged is still the one at the path, and whether a steal
took a live process's file in one of the two windows the code leaves open. Pid reuse
is excluded.

### WorkerPool, ParallelSync
The pool's mutex makes each critical section one action; a thread is asleep on a
condition variable until it is notified, and spurious wakeups, which only help,
are left out. `owner` is the one calling thread (the daemon). `resize` waits,
replaces the implementation, and joins. Calls after `shutdown` are not made by
the program and not modelled. `ParallelSync` instantiates the pool (its tasks
never throw, because `submit_fetch` catches everything) and adds `drain_next`,
the ready queue, the error flag and the condition variable. In it the mutex, the
flag and the notification are separate steps, as in the code. The branch
`fetch_exhausted` needs a `submit` that throws and is not reachable here.

### Outbound
Two processes, the daemon and `atperson publish`, and the operator. An attempt
goes `gate` (control, policy and budget reloaded, the gates in order), `resolve`,
`put` (spooled first, unless it is a replay), `unspool`, `charge` (the budget
file, written over what was read at the gate), `record` (audit and journal) and
`settle`. Publish and the execution of a proposal hold the outbound lock from
before the gate; the drain does not. The cycle is `drain`, `decide`, `select`,
`lock`, the attempt, `close` (the breaker file). Each carries the `now` it
started with. The lock is exclusive here: `StateLock` has its file, and a dead
owner's lock is free. `charged`, `fails`, `failed`, `orphans` and `raced` are
history variables (`failed` counts an action's failures since it last went
through); `raced` says that a drain and a publish overlapped, where the
unlocked drain does lose budget updates and spool entries (section 7).

The spool numbers its entries as the code does, from 1 again when `pending` is
empty; `denied` is the directory by number, so that a later document replaces an
older one. `CrashInSpool` is a death inside `write_record`: the temporary file it
leaves is read as an entry (`tmp.left`, replayed and never removed by its number),
or, cut short, makes the spool unreadable (`Listable`), which fails the spooling of an
attempt and ends the daemon at its next cycle.

`charge` keeps what the budget file keeps: the admissions still inside a window or a
cooldown, and of them the last `MaxRecords` (256 in the code).

Abstracted: one kind of action, an action is its own key, digest and rkey, and a
put under an existing rkey replaces the record. The cycle writes and executes
one proposal at most (the defaults), any of the candidates rather than the first
by name; a login may fail although an earlier replay of the cycle had one.
Left out: envelopes (in `Operator`), intents (in `Journal`), drives, engagement rules, the wall-clock bound of
a cycle, the week after which a text may repeat, `outbound admit`, `autonomy
breaker reset`.

### Operator
The control file, the envelopes, the policy and the remote cursor are files that
every command reads whole and renames whole, with no lock: `ControlLoad` and
`ControlSave`, `SyncLoad` and `SyncSave` (the sync that keeps what it read before
its traversal), `GrantLoad`/`GrantSave`, and the arm in its four writes
(`ArmRevoke`, `ArmEnvelopes`, `ArmPolicy`, `ArmControl`), each of which may be the
last before a crash. `PollStart` to `PollCursor` are `remote_poll.cpp`: a listing,
one request after another through `accepts`, the control state saved before the
cursor. The listing is a set of candidates, taken in the order of their numbers; the daemon's poll and a poll by hand may overlap. `Consider`, `Attempt` and
`Write` are as much of the scheduler as the operator's settings decide; the rest of
an attempt is in `Outbound`. `ready` is `run_preflight`. `Emit` is `control remote
emit`; `EmitElsewhere` any other writer of the operator's repository. A ceiling is
over one window that lasts the run; an action either meets an envelope's scope and
floors or it does not.

### Journal
One append-only file of five kinds of line and its tail (`clean`, `torn`,
`corrupt`). The daemon's cycle is `Link` (perceive, through `link_observation`),
`Drain` (each spooled entry once: what is published or denied leaves the spool, what is
deferred or fails stays), `Sweep` (intents), `Resolve` (expectations), `ProposePost`,
`ProposeReply`, `Execute`, `RecordIntent`; the operator's `Publish`,
`ResolveCommand`, `journal map` (`MapBegin`, `MapUpdate`, `MapSave`) and `Rebuild`
run beside it. Other people's records are posted, edited, delivered late and
again after a restart. Whether an attempt is admitted is `Outbound`'s: here its
outcome is any the journal can record. Message authentication codes are left out.

`append_line` repairs the tail, adds the line and flushes it to the operating system;
no call synchronises the file. `disk` is what a `PowerCut` leaves: after an append
(`WriteBack`) it is the file as it is now or an earlier state of it. `publish` runs under
the outbound lock and everything else under the writer lock, so both may repair one torn
end at once. `ReadTail` is `publish` reading where the last complete line ends (`repair`),
`PublishRepaired` its truncation there and its line, which cut off what was appended in
between, and `PublishOverrun` the other order, in which a writer that had seen the torn
end truncates after the line of `publish`. `lost` remembers what the lines cut off had
said. Appends of `publish` fall between two cycles of the daemon. A line longer than a
stream's buffer, which leaves in several writes, is not modelled, and the torn end a
power cut may leave is the one `Stop` leaves.

### Replication
`BeginPass` loads cursor and state; `Recheck` walks the window behind the cursor,
`PublishObservation` and `PublishLine` put one record each and `Failed` is a put
that failed or whose answer was lost; the cursor is saved by `Failed` and at the
end, as in `publish.cpp`. Keys are real: `observation_rkey` is the fixed-width
encoding, `listing_position` the order a repository lists it in, `valence_rkey`
seconds plus position. `ReplicationAssumption` says that there are more of them than
items and than the instants of the host, as 13 symbols of five bits are for a 64-bit id.
`InOrder` is the code's sort by key. `Reconstruct` replays what the listing gives on a new host.

### Reflection
Both passes (`reflect/pass.cpp`, `selfeval/pass.cpp`) from the reading of the
clock through the store's lock, the writes one by one and the unlock; two
processes; `RecordThought` is the operator's own note. The metrics are left out.

### Jetstream
A server log, an unfiltered or filtered subscription, a transport that loses and
repeats frames, the reader's batches (`BeginBatch`, `Receive`, `Event`, `Reserve`,
`Learn`, `withdraw_source`, `EndBatch` with its rebuild and checkpoint), the two
saves of `run_jetstream`, and the archive replay whose end is the next live
cursor. The evidence ledger is a set of records (they are looked up, never counted), how its
file ends, and its index. A commit carries its revision: a TID, something else, or
none, when the typed parse failed; posts and deletes with the second are rejected and
dropped. A lost frame is not handled, and neither is a rejected one; the cursor property
says that every other one behind it is.

### Migration
`atp_ledger_migrate` read record by record under the old marker's fence, patches
folded, the temporary file, the rename and the removal of the marker, and
`atp_ledger_recover` after it, again record by record, with the marker's own count
compared and a tail cut off; every step may fail or be the last. Init has every small file an
older program leaves, intact, cut short or damaged, with or without its marker.

### Resources
`inspect_runtime_resources` and `derive_resource_budget` over a host that changes
at any step, the loads, creations and expansions they admit, pages and work
batches, growth under the ceilings, the saves. `calm` is a history variable: the
host is as it was measured last. Sizes are small numbers of one unit.

### Graph
`g` is the graph: arrays of nodes, edges, episodes and valence records, the two
open-addressing tables (`Probe`, `Insert`, `MaybeGrow`, `Rebuilt`), the groups
derived from episode summaries. `Observe` is an observation with its dry run of the
ceilings (`check_budget`), walk, episode and eviction; `Recall` and `RecallRanked`
the two read paths that count; `Feel` a valence event; `Rotate` a prune with its
renumbering; `ExpandNeural`, `Save`, `Stop`, `Restart`, `Exclude` and `Rebuild` the
commands. `Encode` and `Decode` are the snapshot as a list of sections with the
loader's checks; `BytesAfter`, a constant, is what lies behind the context's rows, which
the loader's size check depends on (posts that neither reply nor quote: a URI only adds
room). `Replayed` the replay with recorded expansions and both
tokenizers. Weights and scores that only rank or report are left out; a score
compares overlaps and ages as integers. `RecallIsExact` compares the grouped scan
with a scan of every episode.

### Records, Platform
Seven components share no state with each other: the journal, replication and
reflection, and, between the agent and its host, the state lock, the jetstream
reader, the upgrade and the resource budget. `Records` puts the first three side by
side and `Platform` the others, so that one module can hold what is proved of them:
`part` and `side` name the component a behaviour is of, each component has its own
variables (`jn_`, `rp_`, `rf_`; `lk_`, `js_`, `mg_`, `rs_`), those of the others stay
null, and the properties are theirs. `MCRecords` runs both, a behaviour of one of them,
and gives the constants values.

### Proof modules
`LedgerProofs`, `WorkerPoolProofs`, `ParallelSyncProofs`, `OperatorProofs`,
`OutboundProofs`, `RecordsProofs`, `GraphProofs` and `PlatformProofs`, each over the
module it is named for; the last also over `Ingestion` (section 6).

## 4. Runs

Passing runs (deadlock is not checked where the system may simply stop: the
owner of a pool may stop calling, and commands, cycles, pages and faults are
bounded):

| Run | Instance | Shows |
|---|---|---|
| `ledger_crash` | 2 keys, 3 extents, caps 3 and 6, withdrawals of both keys | crash safety, no self-refusal, released size, refinement of `ObservationLog` |
| `ledger_faults` | 1 key, 3 extents, failing calls and damaged bytes | an open that succeeds restores what was acknowledged, unless bytes were damaged while there was no marker |
| `ingestion_pair` | 2 processes, 2 posts, 2 pages, 1 fault | trained once, snapshot settled, cursor covered, no save takes out what its process had seen, with a competitor |
| `ingestion_live` | a daemon under its supervisor, a page per cycle, 2 faults | every post is settled |
| `lock` | 3 processes, 2 deaths | a dead owner's lock is recovered |
| `pool` | 3 workers, queue of 2, tasks that may throw | a wait that returns left no task; every call returns unless a task has thrown |
| `parallel_sync` | 2 workers, failing fetches and page handling | a returned call left no fetch behind and one graph user; cursor behind the handled pages; a call ends unless a fetch failed |
| `outbound` | one proposed and one hand-made action, 3 cycles or commands, times 0 to 3, a window and a cooldown of 2, 2 kept records, two edits (offline mode, approvals), 1 crash | rate limit, spacing and duplicate rule over both processes; no unpublished action leaves the spool; what is published is accounted for; failures are paced and a poison proposal is set aside |
| `operator` | a daemon and one command process, 2 commands of any of 7, 2 remote requests out of pause, resume and an unknown one, an arm of two envelopes, 1 crash | requests apply without gaps; READY means able; an interrupted arm is inert; a visible request is obeyed |
| `graph` | 2 texts over 3 tokens in one hash bucket, room for 2 edges, 2 episodes, 3 entries, a prune to 1 node, 1 expansion, 1 withdrawal | indexes find everything; grouped recall is exact; valence follows its token through pruning and replay; every snapshot loads as it was saved, or is refused for its context rows; a rejected observation leaves no trace |
| `records` | the modules of `Records` and `Platform`: state lock (3 processes, 1 death, failing writes), journal (2 actions, 1 record, 3 instants, 2 attempts, 1 stop or power cut, 1 line the disk may lack), replication (3 items, drains of 2, window 2, 1 fault, 1 move to a new host), reflection (2 processes, 3 passes, 1 crash), jetstream (3 frames, 2 runs, 1 fault), migration (3 records, 2 faults), resources (4 hosts, 5 environments) | eleven properties, listed in section 5 |

The violation run `jetstream_gap` states the comment of
`app/sync/jetstream_backfill.cpp:212`, "Never checkpoint past a protocol gap", as
`NeverPastAGap`. TLC finds a run in which a frame is lost, the batch that saw the
gap ends without a checkpoint, and the next batch, which starts its own protocol
cursor from the saved state, stores the client's cursor, already past the gap.

The bounds let each hazard happen: three extents hold an entry, its patch and an
unacknowledged tail; two keys tell deduplication from overwriting; two posts and
a page per run make a cursor between them; two pages make a failure after a
handled page; three workers let two sleep while one fails; three cycles or
commands with room for two in a window, over a time longer than it, make the third
admission the one to refuse, or to let through once the first is forgotten. Two remote requests make an order, and one apply per poll makes
them fall into two polls. Three tokens in one bucket make chains of collisions; two
edges make the ceiling reachable in the middle of a text, and a prune to one node
renumbers the rest. Two texts under one URI make an edit, a create and a delete two
batches. Three old records hold an entry, its patch and a damaged or unfenced tail.
The four hosts are a roomy one, one with a full disk, one in pressure, and one at
its limit. Where the code has a known disagreement (section 7), the property of the
passing run is stated on the states before it, and says so in its comment.

Every property has a mutant: a plausible bug in a mapped definition that TLC
finds by that property.

Fairness. `Ingestion!FairSpec` is weak fairness of the running process's steps:
the supervisor restarts the daemon and the process is scheduled. `StateLock`,
`WorkerPool` and `ParallelSync` assume weak fairness of every process or thread,
which the operating system's scheduler gives. `Operator!Spec` assumes that the
daemon's next step is taken, its poll once a cycle included. Nothing is assumed of
crashes, failures, commands or new work.

## 5. What the properties say

- *Ledger.* `OpenRestoresAcked`, `NeverRefused`: a crash anywhere loses nothing
  acknowledged and leaves a file that opens. `ReleaseMeetsCap`: a release brings the
  file under the cap it was asked for. `ImplementsObservationLog`: refinement.
- *Ingestion.* `TrainedOnce`, `SnapshotIsSettled`, `CursorIsCovered` (safety);
  `SnapshotKeepsLearned` (a save
  never loses what its own process had read or saved); `EveryPostSettled` (liveness).
- *Threads and locks.* `LiveOwnerIsRespected`, `DeadLockIsRecovered`; `WaitMeansDone`,
  `CallsReturn`; `SharingIsSafe`, `CursorBehindHandled`, `SyncEnds`.
- *Outbound.* `AdmissionsAreLimited` (rate and spacing over both processes),
  `JournalAccountsForNetwork`, `SpoolKeepsUnpublished`, `FailuresAreContained` (of the
  scheduler's executions: the drain's retries are outside the breaker, and named so).
- *Operator.* `AppliedWithoutGaps`, `InterruptedArmIsInert`, `ReadyMeansAble`,
  `Obeyed` (liveness).
- *Graph.* `IndexesFindEverything`, `RecallIsExact`, `ValenceFollowsItsToken`,
  `SnapshotsLoad` (but for the context's size check, its stated exception),
  `RejectedWhole`.
- *Journal.* `JournalRestores`: the file parses after any crash, power cut or repair by
  two processes, and holds every valence the saved model does, but for lines cut off after
  their append. `EventsLinkOnce`: one event per record and action, executed before.
  `ResolutionsOnlyImprove`. `ConversationsAreBounded`: the open ones keep to the cap, and
  after the recorded end of one its thread only starts anew, with a new budget.
- *Replication.* `PublicationIsTrue`: nothing behind the cursor is missing, and a
  withdrawal a pass saw is told. *Reflection.* `PassesAreSerial`: overlapping passes
  leave what some order of them would.
- *Jetstream.* `CursorBehindHandled` (frames that were lost, or whose revision is
  rejected, are its exceptions), `ChangesAreAccounted` (evidence before effect;
  model and ledger agree between batches).
- *Migration.* `UpgradeKeepsHistory`. *Resources.* `BudgetKeepsReserve`.

## 6. Proofs

Theorems hold for every value of the constants that satisfies the modules' ASSUMEs.

- `LedgerProofs`. `LedgerTypeCorrect` needs nothing else. `CrashSafety`, `NoRefusal`,
  `MarkerDurability` and `DedupKeys` assume `Benign`: no damaged bytes, and I/O
  failures only where there is no withdrawal loop to go on after one (with both there
  is a counterexample, section 7); so they cover the failing calls that
  `ledger_faults` checks only `OpenRestoresAcked` for. The inductive invariant
  `CrashInv` says there is a prefix of the log (`n` extents) whose replay gives the
  acknowledged entries (`Durable`), that it is synced and the marker names it, and
  what each program location adds to it (`Working`): which record follows the prefix,
  how far recovery has come, what compaction has staged.
  `KeepsThePromise` is the refinement of `ObservationLog`, with what callers were told
  of (`acked`) for its entries; `FilesKeepThePromise` adds that the files hold a durable
  prefix which replays to just that, at every instant. (`ImplementsObservationLog`, in the
  run, reads the entries off the files instead.) `ReleaseReachesCap` counts what a
  compacted log of the entries takes (`Bulk`): no patch adds to it, and a release either
  gives up the excess or leaves nothing to release. Its sums are inductions by least
  counterexample (`LeastNatural`).
- `WorkerPoolProofs`. `IInv` is typing, the exact pending count and the queue's
  bound; `WaitDrains` is an action property from it.

- `ParallelSyncProofs`. The pool's own invariant is reused: `ParallelSync` instantiates
  `WorkerPool`, and every step of a traversal is a step of the pool or leaves it alone.
  `Own` adds that at most one fetch is outstanding and where (`Fetching`), which call of
  the pool each place of the owner is in (`OwnerAt`), that a worker is in a task exactly
  when the pool counts it (`Bodies`), and that the pages before the two cursors are
  handled (`Prefix`). It gives `SharingSafe` and `ResumesBehindHandled`.
- `OperatorProofs`, for any set of command processes. `Typed` also types the copies of
  files the processes hold, since each may be written back. `NoGaps` strengthens
  `AppliedWithoutGaps` by the watermark every poll carries in memory: a stale one can
  apply again and never skip. `StaysInert` is the action property's invariant: while an
  interrupted arm is inert, writes are off in the control file, the last of the four to
  be written, and the daemon is past no gate.
- `OutboundProofs`, for any actions and limits. `Typed` says where an attempt may stand,
  who has the lock, and that a run spools one entry at most. On it rest three
  independent invariants: `Accounts` (what an attempt has written is on the network, and
  every published action is journalled, still queued, in `denied/`, in the hands of the
  one publish that knows it, or in `orphans`: a publish that died, a denied document that
  another replaced); `Contained` (`Counts` relates the failures in the file, in the cycle's
  copy and in history, up to one per crash; `Pacing` the breaker's opening to the last
  failure); `Limits` (`Recalls`: the budget file still has every admission that a limit
  may ask about; `Spaced`: the admissions obey the limits; `ReadyOf`: so does one that an
  attempt past its gates will charge). `SpoolIsKept` is an action property from
  `EntriesKept`. Two of the conclusions are conditional in the property itself: the limit
  per window on `MaxInWindow <= MaxRecords`, the duplicate rule on admissions at most
  `MaxRecords` apart, because the file keeps no more (section 7).
- `RecordsProofs`, one invariant per component; only the steps of that component
  disturb it.
  - Reflection: `ReflectionInv` adds to the property that a pass past the lock holds it,
    and that what it has still to write is not in the store.
  - Journal: a power cut or a repair may bring an earlier state of the file back, so what
    is proved of the file is proved of every journal it may become (`AllGood`): the
    present one, the disk's, and the one a `publish` saw before its repair. Each is `Good`:
    no event twice (`Unique`), open conversations within the cap (`Capped`), nothing
    continued past its end (`Fresh`), and every resolution reached from an executed line
    at some instant, by rising ranks (`Resolved`). `GoodPlus` is the one lemma about a line
    added to a good journal that it `Fits`, `FateIs` says what an action's expectation has
    come to in a journal. `Linked` (an event's action was executed unless lines were cut
    off; the linker's memory has every event of the file) and `Replayable` (what the model
    and `journal map` know is in the file or in `lost`) relate the file to the processes.
    None of the four theorems has a hypothesis on stops or cuts.
  - Replication: `KeyIsExact` says that an id is read back from its key, digit by digit
    (`Recursion`: a function given by its first value and a step exists; `Upwards`:
    induction, by least counterexample), so no two entries share a key; of two lines with
    one key the later is the newer (`LineKeys`). `PublicationInv` says that everything
    behind the durable cursor, and behind the running pass's, was written (`Behind`); that
    the pass has told its sink of the withdrawals it has looked at again (`Told`); that
    the network holds records of entries and lines only, one under a key (`NetworkFits`);
    and that the lists are as a host writes or rebuilds them (`LinesFit`). What a new host
    rebuilds fits because a sort by different keys gives every record once
    (`InOrderIsExact`). After a move the valence events may stand at other positions, and
    the property does not speak of them (section 7).
- `PlatformProofs`, in the same way.
  - State lock: `LockTypeCorrect` and `LockIsRespected`, through crashes, exits and
    failed writes. `Judged` says that what a contender read is true of the file at the
    path while that file is there, and why it is about to remove it; `Owned` that an
    owner's file is in place until a steal was mistaken. So a removal that is not
    mistaken takes a dead owner's file or none.
  - Jetstream: `Positions` relates the saved cursor, the protocol cursor of the batch,
    the client's, and the frame in hand, for streams of any length; `Noted`: evidence is
    written before effect; `Settled`: model and ledger agree on what the run touched.
  - Migration: `UpgradeInv` is either `Before` (the older files stand, and the reading
    loop has restored the first `at - 1` records) or `After` (the log is the list that
    was restored, in the current format, and reading it again is reading the whole of
    it). The rename is the only step from one to the other; `AcceptableIs` says that a
    record in order is rejected only for damage, so a refusal means damage.
  - Resources: `Stages` (what a command knows at each step), `MemoryKept` (measured and
    untouched; used beside the reserve; or grown under ceilings whose cost fits the room
    measured, `Room`), `DiskKept` (the rest of the page fits).
    `ResourcesAssumption` asks for `ObservationBytes <= WriteMinimum` (512 KiB at
    `budget.cpp:24`, 16 MiB at `:462`) and non-zero divisors.
  - Ingestion, which shares nothing with the four but the module its proofs are in: `Inv`
    joins typing, where the current item stands (`ItemInv`), what each model in memory or
    on disk has learned against the ledger (`ModelInv`: settled entries only, except the
    one being processed), and what lies behind the cursor in memory and on disk
    (`CursorInv`). It gives `NoDoubleTraining`, `SavedModelIsSettled`, `CursorSafety`.
    `NothingSeenIsLost`, for commands that overlap: what the owner has read, replayed or
    saved of the model stays in its memory unless withdrawn (`KeptInv`). What another
    process saved between the read and the lock is lost (section 7).
- `GraphProofs`, for any texts, tokenizers, hashes, group keys, ceilings and number of
  operations. `GraphInv` holds between two of them:
  - `Sound(g)` has three parts. `Stored`: the arrays are typed, no token has two nodes, no
    pair two edges, every number in an edge, a summary, a valence record or the event log
    is a node's, records are in node order and not empty, and the generations are a chain
    that ends at the present one. `Indexed`: each table `Holds` its array: every entry once,
    after no free slot of its probe chain, with a free slot left, which is what makes a
    probe end and find it (`FindIs`). `Grouped`: the group of each episode, unless it is
    full, `Covers` its summary.
  - `Felt`: the records hold what each token felt, by token and not by number, so that it
    survives a renumbering.
  - `Due`: no migration's boundary is beyond the ledger. Replay refuses such a plan, and the
    rebuilt graph has the same generations.
  - `Written`: the file is `Encode` of a sound graph, and of what its tokens had felt.

  One lemma per operation says that it leaves a sound graph (`ObserveKeeps`,
  `PruneSound`, `ReplayedSound`, ...): a walk over a text by the number of tokens, a rebuild of a
  table by the number of entries, replay by the number of ledger entries. The model writes
  these as recursive functions, so they are plain inductions over a set of naturals
  (`Upwards`, by least counterexample) and a lemma that such a function exists and has the
  value its body says (`Recursion`). Where the code sorts or compacts (`Ordered`), an
  element's place is the number of those before it.
  `DecodeEncode` reads a snapshot of any of the three versions section by section: what is
  read after each is known, no check of the loader refuses it but the one on the size of
  the context's rows (`Roomy`, `Cramped`), after which nothing more is read, and without
  that the graph at the end encodes to the same image. The five properties follow: `IndexesAreComplete`,
  `RecallHidesNothing`, `SnapshotsAreReadable`, `ValenceStaysWithItsToken`; and
  `RejectionIsWhole`, because the dry run of the ceilings counts at least the nodes and edges
  a walk will add (`Within`, `StepWithin`), so that a walk it admits is never stopped.

What the other assumptions ask: that None and the reserved digests are not values, that
bounds and limits are numbers, and that settings are those the configuration's own
validation lets through. TLC evaluates each of them in the runs.

Only model-checked:
- liveness (`EveryPostSettled`, `DeadLockIsRecovered`, `CallsReturn`, `SyncEnds`,
  `Obeyed`): out of the prover's reach;
- `ImplementsObservationLog`, which reads the files by a fold; `LedgerProofs` proves the
  refinement through `acked`, above.

## 7. Disagreements between the code and its docs or comments

Met while modelling. Only `jetstream_gap` has a run; the four marked TLC have a
counterexample in the module named, for the property stated without its exception.

Ledger, ingestion, locks, threads
- TLC, `Ledger`: `core/ledger/outcome.c:56` goes on after a failed commit, whose bytes
  stay in the log (`commit.c:17-26`, against `commit.c:5`); the next marker covers the
  wrong record, and a withdrawal that was counted is not restored.
- TLC, `Ingestion`: `app/main.cpp:496` loads the model before a command has the lock;
  its save may replace a newer snapshot, against `docs/daemon.md:26` "prevents a second
  mutating process from loading stale model state and later overwriting newer state" and
  `cli/daemon.cpp:180-182`.
- TLC, `StateLock`: between the read of the file (`state/lock.cpp:165`), the probe of
  its owner's pid (`:178`, `:66`) and the removal by path (`:179`) the owner may release
  the lock and end, or die, and another create its own file: that file is removed and
  two processes own the lock, against `lock.hpp:20-21` "A lockfile owned by a live
  process on the current boot is respected". No crash is needed. An owner slow to write
  its metadata, or whose write failed, is taken for dead (`lock.cpp:167-175`), against
  `:123` "the lock is still exclusive even if the metadata is truncated"; a file cut
  short is refused for ever (`lock.cpp:104,165`).
- TLC, `ParallelSync`: `sync/parallel.cpp:64` stores the error flag and notifies without
  the mutex, between the owner's test and its sleep (`parallel.hpp:27`). The owner
  throws before `pool.wait`, and a worker may notify in a frame already left
  (`cli/daemon.cpp:258-260`); a failed fetch becomes a `runtime_error` that
  `loop.cpp:89` does not retry; `parallel.hpp:17-19` promises an overlap the code does
  not have.
- `daemon/loop.hpp:19-20`: after a retryable error on page 2 `dirty` was never set, and
  the pages already learned are not saved at a graceful exit.
- `worker/pool.hpp:59-61`: `wait` may sleep for ever after a task threw (none does).
- `cli/sync.cpp:55,128-129` saves the control state it read before the traversal.

Outbound and scheduler
- `scheduler/cycle.hpp:203`, `spool.cpp:157`: `spool_drain` (`cycle.cpp:214`) takes no
  lock; it can overwrite an admission of a concurrent publish, and remove or deny a
  spool number used again.
- `attempt.cpp:81-82`: no gate looks at `offline_mode`. `attempt.cpp:92` spools offline
  before any gate, once per cycle for the same proposal (`docs/recovery.md:246-273`).
- A pause during a drain moves the entries behind it to `denied/` (`spool.cpp:227`).
- `docs/recovery.md:267` "a since-denied action moves to `denied/` permanently": the
  number of an entry starts at 1 again when `pending/` is empty (`spool.cpp:157-165`), so
  a later denial renames its document over an earlier one (`spool.cpp:175-180`).
- `breaker.hpp:7-10` ("it must stop hammering"), `:21`, `:25-27` ("only the network write
  is held back"): the drain comes before the breaker is looked at and asks neither it nor
  the quarantine (`cycle.cpp:209-222`), and every failed execution leaves a spooled copy
  (`spool.cpp:196-205`): a failing proposal is retried in each cycle, unpaced and
  uncounted. `breaker.hpp:9`: a failed login (`attempt.cpp:108`) is never counted.
- `spool.cpp:134-141` lists every regular file of `pending/`. A crash in `write_record`
  (`state/records.cpp:85-100`) leaves `<seq>.json.tmp`: a whole one is replayed in each
  drain and never removed or denied, since both go by `<seq>.json`; a cut one makes every
  append and every drain throw, which ends the daemon (`cycle.cpp:209`, `cli/daemon.cpp:401`).
- `arming.cpp:273`: only publish is bound by `ATPERSON_ALLOW_EXTERNAL_PUBLISHING`.
- `cycle.cpp:485` compares the steady clock, not the time since the cycle began.
- `cli/outbound.cpp:280` rewrites the budget without the lock.
- A limit per window above the 256 kept records is accepted (`outbound/config.cpp:95`;
  `docs/outbound-policy.md:52` against `:65`), and is then never reached.

Operator
- `daemon/loop.cpp:59`: a paused daemon does not poll, so a remote resume after a
  remote pause never takes effect (`docs/remote-control.md:173`).
- `control/envelope.cpp:452` says a corrupt envelope is "never an abort"; the load
  throws, out of the cycle and the daemon (`cycle.cpp:531`, `cli/daemon.cpp:401`).
- Preflight says READY with approvals off (`arming.cpp:428-434`), where
  `cycle.cpp:522-539` still asks for an envelope. The envelope's window is `<` where
  the budget's is `>=`.
- `arming.cpp:249` "nothing can publish": a sync's stale save or an attempt under way
  may; "inert rather than half-armed" needs writes to have been off before.
- A poll that died after the control state re-applies over a local change; `emit` may
  overwrite a sequence number; overlapping polls may move the cursor back; more than
  `max_records` unseen requests leave a gap for ever.

Journal
- `sync/linkage.hpp:7-10`: the journal is read once (`linkage.cpp:85-93`), so replies to
  actions of the same process's life are not linked; a crash between the ledger's
  commit and the link loses the event.
- `docs/action-journal.md:184` against the fixed window of seven days.
- `docs/action-journal.md:178` "a conversation never orbits one thread forever", `:180`,
  `intent/sweep.hpp:18-19` and `intent/config.hpp:31-32`: `record_pending_intent` opens a
  new intent for the thread of a closed or expired one (`mutate.cpp:56-72`), with a window
  and a budget of its own, so the thread goes on. `ConversationsAreBounded` says so.
- `via == "reply"` is never written, so the reply ratio is 0 (`reflect/pass.cpp:158`,
  `selfeval/pass.cpp:158`).
- `journal/store.cpp:69-70` "flush, fsync the file", `store.hpp:226` "fsync it" and
  `docs/action-journal.md:9` "each append is flushed durably": the file is flushed to the
  operating system and only its directory is synchronised (`store.cpp:80-86`), so a power
  cut may take lines whose append had returned. `publish` holds another lock than the
  other writers, and the repair of a torn end by one (`jsonl.hpp:28-67`) may cut off what
  the other appended meanwhile. `JournalRestores` names both (`lost`).
- A torn line is left by a load; a second executed line may turn a resolution from met to
  unmet.

Replication and notes
- `replicate/publish.cpp:29-31`: the same key across hosts; `reconstruct.cpp:128-150`
  gives new ids, and an experience withdrawn before may come back. An entry PENDING
  when the cursor passed is never published (`publish.cpp:192-193`); withdrawals behind
  the recheck window are not told; intents' keys hold a `/`, which the file writer
  rejects (`publish.cpp:326-333`); offline staging shares the cursor.
- A reconstruct that died leaves a target that refuses another; it restores neither
  expectations nor events, resolutions or authentication codes, and writes
  `thoughts.jsonl` where the store is a directory.
- The passes read `now` before the lock, so a delayed one finds `now < last` and is due;
  a clock that steps back makes every pass due; movements may starve a consolidation;
  a crash in a burst loses its other topics for the window.

Graph
- `README.md:303` rebuild after a withdrawal: the valence replay ends with NOT_FOUND for
  a token only the withdrawn text had (`maintenance.cpp:138-152`, `graph.cpp:323-330`),
  and the rebuild never completes.
- The loader asks 15 bytes of each context row (`sections.c:246`), and the writer leaves
  12 for a post that neither replies nor quotes (`sections.c:58-61`, `wire.c:70-75`). When
  three times the entries exceed what follows the rows, the file that `save` just wrote is
  refused by every later load, and by `rebuild`, which loads it first. `SnapshotsLoad`
  names the exception, and the run reaches it.
- A text over the ceiling stays PENDING, and every sync ends at it. The dry run of the
  ceilings overcounts repeated tokens. Version 5 snapshots drop plasticity; ceilings and
  the valence rate are not kept. `rebuild_from_ledger` (`graph.cpp:412`) uses default
  settings and loses valence and expansions.

Jetstream and evidence
- The evidence of a gap has an empty subject or revision, which append refuses
  (`docs/jetstream.md:47-51`, `jetstream_backfill.cpp:176-186`). A filter by kind is not
  counted as one (`jetstream_client.hpp:127`), so every filtered frame is a gap; a
  stream of version 1 always has gaps; a filtered stream cannot show a lost frame.
- A post or a delete whose revision is no TID is rejected
  (`jetstream_client.cpp:289-293`, `protocol.cpp:654`) and asks for a resync. Its batch
  keeps the cursor, the next one stores the client's, which is past it
  (`jetstream_backfill.cpp:220`, against the comment at `:212`): the post is never
  learned, the delete never obeyed. `CursorBehindHandled` names the exception.
- `jetstream archive` without collections always fails (`jetstream_replay_client.cpp:87`
  against `docs/jetstream.md:77-79`), and ignores deletes (`jetstream_replay.cpp:47-55`
  against `engine.hpp:160`).
- A crash between a withdrawal and the save leaves the text in the saved model until
  `rebuild`; one before the save leaves a post LEARNED that the model lacks.
- The evidence ledger refuses an existing empty file (`protocol.cpp:449`); `protocol
  resolve` appends without the state lock (`protocol.cpp:484`, `main.cpp:353-362`).

Resources
- `docs/resources.md` says an override beyond the headroom is rejected; an explicit node
  or edge ceiling and a page size are never compared with it (`budget.cpp:482-487`).
- A measured zero is "unknown": at a container's limit the load checks are skipped and
  growth goes on. A model grown within its budget may be refused at the next start on
  the same host, which asks for twice the snapshot (`runtime.cpp:141-161`). A snapshot's
  own bytes are not in the write budget. A memory override equal to the headroom makes
  the next refresh end the daemon.

## 8. Not modelled

- Floating-point learning: weights, network training, generation, candidate scores,
  drives and the metrics of self-evaluation. TLC has no reals, and no state but the
  weights depends on them.
- Bytes: JSON, CBOR, CAR and the snapshot's encoding; HTTP, OAuth and websockets;
  signatures, authentication codes, identity and repository verification.
- Reports: audit, attestation, inspection, the run-state file and heartbeat; service
  files and the sandbox.
- Choosing what to rotate by file size (what it calls, releasing payloads and pruning,
  is modelled); the version 4 decoder and the options of recall that only narrow it;
  `outbound admit`, `autonomy breaker reset`; allocation failure.
- Durability of a rename without a directory fsync: a rename is durable when it returns.
