------------------------------ MODULE Platform ------------------------------
(***************************************************************************)
(* The components between the agent and its host, side by side: the state  *)
(* lock, the jetstream reader, the upgrade of an old ledger and the        *)
(* resource budget.  A behaviour is one component's, chosen at its start;  *)
(* the variables of the others stay Nil.                                   *)
(***************************************************************************)
EXTENDS Integers, Sequences

CONSTANTS
  Nil,
  \* StateLock: who wants the lock, how patient, failing writes, and bounds
  Contenders, EmptyRetries, WriteFaults, MaxDeaths,
  \* Jetstream: the stream and its bounds
  Uris, StreamTexts, StreamLength, MaxNoise, StreamFaults, MaxRuns,
  \* Migration: bounds
  LegacyRecords, UpgradeFaults,
  \* Resources: hosts, settings, classes, reserves, costs and bounds
  Hosts, Overrides, Classes, Disk, MemoryFloor, MemoryCap, DiskFloor, DiskCap, EdgeBytes,
  ObservationBytes, WriteMinimum, GrowthMinimum, PageStep, PagePerCpu, MaxPage,
  PressurePage, Growths, MaxWritten, MaxNodes, MaxEdges

VARIABLES
  side,     \* the component this behaviour is of
  lk_file, lk_pc, lk_retries, lk_seen, lk_crashes, lk_fresh, lk_mistaken,
  js_log, js_mode, js_socket, js_ledger, js_evidence, js_model, js_saved, js_run, js_lost,
  js_faults, js_runs,
  mg_log, mg_marker, mg_tmp, mg_pc, mg_at, mg_entries, mg_original, mg_faults,
  rs_host, rs_override, rs_written, rs_saved, rs_proc, rs_calm

lock_vars == <<lk_file, lk_pc, lk_retries, lk_seen, lk_crashes, lk_fresh, lk_mistaken>>
jetstream_vars == <<js_log, js_mode, js_socket, js_ledger, js_evidence, js_model, js_saved,
                    js_run, js_lost, js_faults, js_runs>>
migration_vars == <<mg_log, mg_marker, mg_tmp, mg_pc, mg_at, mg_entries, mg_original, mg_faults>>
resource_vars == <<rs_host, rs_override, rs_written, rs_saved, rs_proc, rs_calm>>
platform_vars == <<side, lock_vars, jetstream_vars, migration_vars, resource_vars>>
---------------------------------------------------------------------------
Lock == INSTANCE StateLock WITH
  Procs <- Contenders, NoProc <- Nil, MaxCrashes <- MaxDeaths, file <- lk_file,
  pc <- lk_pc, retries <- lk_retries, seen <- lk_seen, crashes <- lk_crashes,
  fresh <- lk_fresh, mistaken <- lk_mistaken

Stream == INSTANCE Jetstream WITH
  None <- Nil, Texts <- StreamTexts, MaxFaults <- StreamFaults, log <- js_log,
  mode <- js_mode, socket <- js_socket, ledger <- js_ledger, evidence <- js_evidence,
  model <- js_model, saved <- js_saved, run <- js_run, lost <- js_lost,
  faults <- js_faults, runs <- js_runs

Upgrade == INSTANCE Migration WITH
  None <- Nil, MaxRecords <- LegacyRecords, MaxFaults <- UpgradeFaults, log <- mg_log,
  marker <- mg_marker, tmp <- mg_tmp, pc <- mg_pc, at <- mg_at, entries <- mg_entries,
  original <- mg_original, faults <- mg_faults

Budget == INSTANCE Resources WITH
  None <- Nil, host <- rs_host, override <- rs_override, written <- rs_written,
  saved <- rs_saved, proc <- rs_proc, calm <- rs_calm

ASSUME PlatformAssumption ==
  /\ Lock!LockAssumption
  /\ Stream!JetstreamAssumption
  /\ Upgrade!MigrationAssumption
  /\ Budget!ResourcesAssumption
---------------------------------------------------------------------------
NoLock ==
  /\ lk_file = Nil /\ lk_pc = Nil /\ lk_retries = Nil /\ lk_seen = Nil
  /\ lk_crashes = Nil /\ lk_fresh = Nil /\ lk_mistaken = Nil

NoJetstream ==
  /\ js_log = Nil /\ js_mode = Nil /\ js_socket = Nil /\ js_ledger = Nil
  /\ js_evidence = Nil /\ js_model = Nil /\ js_saved = Nil /\ js_run = Nil
  /\ js_lost = Nil /\ js_faults = Nil /\ js_runs = Nil

NoMigration ==
  /\ mg_log = Nil /\ mg_marker = Nil /\ mg_tmp = Nil /\ mg_pc = Nil /\ mg_at = Nil
  /\ mg_entries = Nil /\ mg_original = Nil /\ mg_faults = Nil

NoResources ==
  /\ rs_host = Nil /\ rs_override = Nil /\ rs_written = Nil /\ rs_saved = Nil
  /\ rs_proc = Nil /\ rs_calm = Nil

\* None of the components runs.
PlatformIdle == side = Nil /\ NoLock /\ NoJetstream /\ NoMigration /\ NoResources

PlatformInit ==
  \/ side = "lock" /\ Lock!Init /\ NoJetstream /\ NoMigration /\ NoResources
  \/ side = "jetstream" /\ Stream!Init /\ NoLock /\ NoMigration /\ NoResources
  \/ side = "migration" /\ Upgrade!Init /\ NoLock /\ NoJetstream /\ NoResources
  \/ side = "resources" /\ Budget!Init /\ NoLock /\ NoJetstream /\ NoMigration

LockNext ==
  /\ side = "lock" /\ Lock!Next
  /\ UNCHANGED <<side, jetstream_vars, migration_vars, resource_vars>>

JetstreamNext ==
  /\ side = "jetstream" /\ Stream!Next
  /\ UNCHANGED <<side, lock_vars, migration_vars, resource_vars>>

MigrationNext ==
  /\ side = "migration" /\ Upgrade!Next
  /\ UNCHANGED <<side, lock_vars, jetstream_vars, resource_vars>>

ResourcesNext ==
  /\ side = "resources" /\ Budget!Next
  /\ UNCHANGED <<side, lock_vars, jetstream_vars, migration_vars>>

PlatformNext == LockNext \/ JetstreamNext \/ MigrationNext \/ ResourcesNext

PlatformSpec == PlatformInit /\ [][PlatformNext]_platform_vars
---------------------------------------------------------------------------
(* What the components' modules state, each in its own behaviours. *)

\* The lock of a process that runs is respected, outside the two windows StateLock
\* names (StateLock::StateLock, ~StateLock).
LiveOwnerIsRespected == side = "lock" => Lock!LiveOwnerIsRespected

\* The saved cursor is behind handled frames (run_jetstream_backfill, run_jetstream).
CursorBehindHandled == side = "jetstream" => Stream!CursorBehindHandled

\* What is learned or withdrawn has its evidence first, and is settled between
\* batches (append_firehose_event, rebuild_from_ledger).
ChangesAreAccounted == side = "jetstream" => Stream!ChangesAreAccounted

\* An upgraded ledger holds what the old one had committed (atp_ledger_migrate).
UpgradeKeepsHistory == side = "migration" => Upgrade!UpgradeKeepsHistory

\* No work a budget allows goes into the host's reserve (derive_resource_budget).
BudgetKeepsReserve == side = "resources" => Budget!BudgetKeepsReserve
=============================================================================
