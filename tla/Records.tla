------------------------------ MODULE Records ------------------------------
(***************************************************************************)
(* The components that keep the entity's records, side by side: the action *)
(* journal, the replication of state and the notes about itself.  A        *)
(* behaviour is one component's, chosen at its start; the variables of the *)
(* others stay None.                                                       *)
(***************************************************************************)
EXTENDS Integers, Sequences

CONSTANTS
  None,
  \* Journal: its actions, who cites them, its windows, caps, rules and bounds
  Actions, Citations, ExpectationWindow, RepeatWindow, IntentWindow, MaxActive,
  MaxContinuations, Rules, Skews, JournalTime, MaxStops, MaxAttempts,
  MaxUnwritten,
  \* Replication: what is published, its keys, its limits and bounds
  Sources, ActionIds, Base, Letters, Digits, DrainRecords, RecheckWindow, Instants,
  MaxLines, MaxItems, DrainFaults, MaxMoves,
  \* Reflection: who writes about what, how often and how much
  Procs, Topics, ReflectionWindow, Cadence, MaxThoughts, ReflectionTime, StoreRecords,
  MaxPasses, MaxCrashes

VARIABLES
  part,     \* the component this behaviour is of
  jn_clock, jn_journal, jn_tail, jn_disk, jn_repair, jn_root, jn_queue, jn_spool,
  jn_posted, jn_ledger, jn_behind, jn_daemon, jn_mapper, jn_model, jn_lost, jn_stops,
  rp_ledger, rp_lines, rp_cursor, rp_pass, rp_network, rp_staged, rp_overtaken, rp_faults,
  rp_moves,
  rf_clock, rf_moved, rf_thoughts, rf_snapshots, rf_holder, rf_proc, rf_passes, rf_crashes

journal_vars == <<jn_clock, jn_journal, jn_tail, jn_disk, jn_repair, jn_root, jn_queue,
                  jn_spool, jn_posted, jn_ledger, jn_behind, jn_daemon, jn_mapper, jn_model,
                  jn_lost, jn_stops>>
replication_vars == <<rp_ledger, rp_lines, rp_cursor, rp_pass, rp_network, rp_staged,
                      rp_overtaken, rp_faults, rp_moves>>
reflection_vars == <<rf_clock, rf_moved, rf_thoughts, rf_snapshots, rf_holder, rf_proc,
                     rf_passes, rf_crashes>>
records_vars == <<part, journal_vars, replication_vars, reflection_vars>>
---------------------------------------------------------------------------
Acts == INSTANCE Journal WITH
  Records <- Citations, Window <- ExpectationWindow, MaxTime <- JournalTime,
  clock <- jn_clock, journal <- jn_journal, tail <- jn_tail, disk <- jn_disk,
  repair <- jn_repair, root <- jn_root,
  queue <- jn_queue, spool <- jn_spool, posted <- jn_posted, ledger <- jn_ledger,
  behind <- jn_behind, daemon <- jn_daemon, mapper <- jn_mapper, model <- jn_model,
  lost <- jn_lost, stops <- jn_stops

Publish == INSTANCE Replication WITH
  MaxRecords <- DrainRecords, MaxFaults <- DrainFaults, ledger <- rp_ledger,
  lines <- rp_lines, cursor <- rp_cursor, pass <- rp_pass, network <- rp_network,
  staged <- rp_staged, overtaken <- rp_overtaken, faults <- rp_faults, moves <- rp_moves

Reflect == INSTANCE Reflection WITH
  Window <- ReflectionWindow, MaxTime <- ReflectionTime, MaxRecords <- StoreRecords,
  clock <- rf_clock, moved <- rf_moved, thoughts <- rf_thoughts,
  snapshots <- rf_snapshots, holder <- rf_holder, proc <- rf_proc, passes <- rf_passes,
  crashes <- rf_crashes

ASSUME RecordsAssumption ==
  /\ Acts!JournalAssumption
  /\ Publish!ReplicationAssumption
  /\ Reflect!ReflectionAssumption
---------------------------------------------------------------------------
NoJournal ==
  /\ jn_clock = None /\ jn_journal = None /\ jn_tail = None /\ jn_root = None
  /\ jn_queue = None /\ jn_spool = None /\ jn_posted = None /\ jn_ledger = None
  /\ jn_behind = None /\ jn_daemon = None /\ jn_mapper = None /\ jn_model = None
  /\ jn_disk = None /\ jn_repair = None /\ jn_lost = None /\ jn_stops = None

NoReplication ==
  /\ rp_ledger = None /\ rp_lines = None /\ rp_cursor = None /\ rp_pass = None
  /\ rp_network = None /\ rp_staged = None /\ rp_overtaken = None /\ rp_faults = None
  /\ rp_moves = None

NoReflection ==
  /\ rf_clock = None /\ rf_moved = None /\ rf_thoughts = None /\ rf_snapshots = None
  /\ rf_holder = None /\ rf_proc = None /\ rf_passes = None /\ rf_crashes = None

\* None of the components runs.
RecordsIdle == part = None /\ NoJournal /\ NoReplication /\ NoReflection

Init ==
  \/ part = "journal" /\ Acts!Init /\ NoReplication /\ NoReflection
  \/ part = "replication" /\ Publish!Init /\ NoJournal /\ NoReflection
  \/ part = "reflection" /\ Reflect!Init /\ NoJournal /\ NoReplication

JournalNext ==
  part = "journal" /\ Acts!Next /\ UNCHANGED <<part, replication_vars, reflection_vars>>

ReplicationNext ==
  part = "replication" /\ Publish!Next /\ UNCHANGED <<part, journal_vars, reflection_vars>>

ReflectionNext ==
  part = "reflection" /\ Reflect!Next /\ UNCHANGED <<part, journal_vars, replication_vars>>

Next == JournalNext \/ ReplicationNext \/ ReflectionNext

Spec == Init /\ [][Next]_records_vars
---------------------------------------------------------------------------
(* What the components' modules state, each in its own behaviours. *)

\* The journal parses, and gives back every valence the model holds, but for lines
\* cut off after their append (append_line, run_map).
JournalRestores == part = "journal" => Acts!JournalRestores

\* A record is linked once, and only to an executed action (link_observation).
EventsLinkOnce == part = "journal" => Acts!EventsLinkOnce

\* An expectation's recorded fate only improves (resolve_expectations).
ResolutionsOnlyImprove == part = "journal" => Acts!ResolutionsOnlyImprove

\* Open intents keep to their cap, and one that ended stays so (record_pending_intent).
ConversationsAreBounded == part = "journal" => Acts!ConversationsAreBounded

\* What is behind the publication cursor was written, and withdrawals inside the
\* recheck window are published (replicate_drain).
PublicationIsTrue == part = "replication" => Publish!PublicationIsTrue

\* Passes over one store leave it as if one had run after the other
\* (run_reflection_pass, run_self_eval_pass).
PassesAreSerial == part = "reflection" => Reflect!PassesAreSerial
=============================================================================
