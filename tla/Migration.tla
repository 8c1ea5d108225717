----------------------------- MODULE Migration -----------------------------
(***************************************************************************)
(* The upgrade of a ledger file that an older program wrote (versions 1    *)
(* and 2), at the open that finds it: the committed prefix is read back,   *)
(* patches are folded into their entries, the entries go to a temporary    *)
(* file that replaces the log, and the old marker is removed; then the     *)
(* open goes on as for a current file.  The process may die between any    *)
(* two steps, and the old file may have an unfinished tail, or be damaged, *)
(* or have lost bytes or its marker.                                       *)
(*                                                                         *)
(* A record is intact when its length, checksum and fields are right.  The *)
(* marker counts records where the code counts bytes.  A rename is durable *)
(* when it returns (as in Ledger).                                         *)
(***************************************************************************)
EXTENDS Integers, Sequences, SequencesExt, FiniteSets

CONSTANTS
  MaxRecords,    \* bound: records of the old file
  MaxFaults,     \* bound: crashes and failed writes
  None

VARIABLES
  log,       \* the log file: its version and its records
  marker,    \* the `.off' file: its version and how much it covers
  tmp,       \* the `.tmp' file
  pc,        \* where the open is
  at,        \* the next record to read
  entries,   \* what was read so far; once open, the ledger's entries
  original,  \* history: log and marker as the older program left them
  faults

vars == <<log, marker, tmp, pc, at, entries, original, faults>>

MigrationAssumption == MaxRecords \in Nat

Legacy  == {1, 2}
Current == 3
---------------------------------------------------------------------------
EntryOf(id, text) ==
  [type |-> "entry", id |-> id, outcome |-> "pending", text |-> text, intact |-> TRUE]
PatchOf(id, outcome) ==
  [type |-> "patch", id |-> id, outcome |-> outcome, text |-> FALSE, intact |-> TRUE]

Ids == 1..MaxRecords

\* version 1 kept no text
TextsOf(version) == IF version = 1 THEN {FALSE} ELSE BOOLEAN

RecordsOf(version) ==
  {EntryOf(id, text) : id \in Ids, text \in TextsOf(version)}
    \cup {PatchOf(id, o) : id \in Ids, o \in {"learned", "withdrawn"}}

\* the tests of the reading loop: an entry has the next id, a patch names an
\* entry that exists
Acceptable(read, r) ==
  /\ r.intact
  /\ IF r.type = "entry" THEN r.id = Len(read) + 1 ELSE r.id \in DOMAIN read

Folded(read, r) ==
  IF r.type = "entry" THEN Append(read, r) ELSE [read EXCEPT ![r.id].outcome = r.outcome]

\* a marker counts when it is of the log's own version
Fenced(l, m) == m # None /\ m.version = l.version

Fence(l, m) == IF Fenced(l, m) THEN m.covers ELSE Len(l.records)
---------------------------------------------------------------------------
Ends(where) ==
  /\ pc' = where /\ at' = 1 /\ entries' = <<>>

\* atp_ledger_open: leftovers go, the header says which format this is, and a
\* marker for more than there is is refused in either
Open ==
  /\ pc = "closed"
  /\ tmp' = None
  /\ Ends(IF Fence(log, marker) > Len(log.records) THEN "refused"
          ELSE IF log.version \in Legacy THEN "read" ELSE "recover")
  /\ UNCHANGED <<log, marker, original, faults>>

ReadsOn ==
  /\ at <= Fence(log, marker)
  /\ Acceptable(entries, log.records[at])
  /\ entries' = Folded(entries, log.records[at])
  /\ at' = at + 1
  /\ UNCHANGED <<log, marker, tmp, pc, original, faults>>

\* the loops of atp_ledger_migrate and of atp_ledger_recover, a record at a time
ReadRecord    == pc = "read" /\ ReadsOn
RecoverRecord == pc = "recover" /\ ReadsOn

Loops == {"read", "recover"}
After(loop) == IF loop = "read" THEN "write" ELSE "mark"

\* what the marker covers must be sound; without one the first bad record is
\* taken for an unfinished tail
ReadStops ==
  /\ pc \in Loops /\ at <= Fence(log, marker)
  /\ ~Acceptable(entries, log.records[at])
  /\ IF Fenced(log, marker) THEN Ends("refused")
     ELSE pc' = After(pc) /\ UNCHANGED <<at, entries>>
  /\ UNCHANGED <<log, marker, tmp, original, faults>>

ReadDone ==
  /\ pc \in Loops /\ at > Fence(log, marker)
  /\ pc' = After(pc)
  /\ UNCHANGED <<log, marker, tmp, at, entries, original, faults>>

\* the entries as current records, and their fsync
WriteEntries ==
  /\ pc = "write"
  /\ tmp' = [version |-> Current, records |-> entries]
  /\ pc' = "rename"
  /\ UNCHANGED <<log, marker, at, entries, original, faults>>

\* Mutation: the marker goes before the log is replaced.
Rename_marker_first ==
  /\ pc = "rename"
  /\ marker' = None
  /\ \/ log' = tmp /\ tmp' = None /\ Ends("recover")
     \/ UNCHANGED <<log, tmp, pc, at, entries>>
  /\ UNCHANGED <<original, faults>>

Rename ==
  /\ pc = "rename"
  /\ log' = tmp /\ tmp' = None
  /\ pc' = "remove"
  /\ UNCHANGED <<marker, at, entries, original, faults>>

\* the result of remove is not looked at
RemoveMarker ==
  /\ pc = "remove"
  /\ marker' \in {None, marker}
  /\ Ends("recover")
  /\ UNCHANGED <<log, tmp, original, faults>>

\* the end of atp_ledger_recover: the marker's own count is compared, a tail is
\* cut off, and a marker that was missing is written
Recover ==
  /\ pc = "mark"
  /\ IF Fenced(log, marker) /\ marker.count # Len(entries)
     THEN Ends("refused") /\ UNCHANGED <<log, marker>>
     ELSE /\ log' = [log EXCEPT !.records = SubSeq(@, 1, at - 1)]
          /\ marker' = IF Fenced(log, marker) THEN marker
                       ELSE [version |-> Current, covers |-> at - 1, count |-> Len(entries)]
          /\ pc' = "open"
          /\ UNCHANGED <<at, entries>>
  /\ UNCHANGED <<tmp, original, faults>>

Close ==
  /\ pc = "open"
  /\ Ends("closed")
  /\ UNCHANGED <<log, marker, tmp, original, faults>>

Fault == faults < MaxFaults /\ faults' = faults + 1

\* a write, an fsync or the rename fails: the open reports it and the
\* temporary file goes
StepFails ==
  /\ pc \in {"write", "rename"} /\ Fault
  /\ tmp' = None
  /\ Ends("closed")
  /\ UNCHANGED <<log, marker, original>>

\* the process dies, inside a write with part of it done
Crash ==
  /\ pc \notin {"closed", "refused"} /\ Fault
  /\ tmp' \in IF pc = "write" THEN {[version |-> Current, records |-> SubSeq(entries, 1, n)] :
                                       n \in 0..Len(entries)}
              ELSE {tmp}
  /\ Ends("closed")
  /\ UNCHANGED <<log, marker, original>>
---------------------------------------------------------------------------
\* What an older program leaves: records in order, of which the last may be cut
\* short and any one damaged, and a marker, none, or one for more than is there.
EntriesBefore(records, i) == Cardinality({k \in 1..(i - 1) : records[k].type = "entry"})

Sound(records) ==
  \A i \in DOMAIN records :
    IF records[i].type = "entry" THEN records[i].id = EntriesBefore(records, i) + 1
    ELSE records[i].id <= EntriesBefore(records, i)

Damaged(records) ==
  {records} \cup {[records EXCEPT ![i].intact = FALSE] : i \in DOMAIN records}

Init ==
  /\ \E version \in Legacy :
       \E records \in {s \in BoundedSeq(RecordsOf(version), MaxRecords) : Sound(s)} :
         /\ log \in {[version |-> version, records |-> r] : r \in Damaged(records)}
         /\ marker \in {[version |-> version, covers |-> n] : n \in 0..(Len(records) + 1)}
                         \cup {None}
  /\ original = [log |-> log, marker |-> marker]
  /\ tmp = None /\ pc = "closed" /\ at = 1 /\ entries = <<>> /\ faults = 0

Next ==
  \/ Open \/ ReadRecord \/ ReadStops \/ ReadDone \/ WriteEntries \/ Rename \/ RemoveMarker
  \/ RecoverRecord \/ Recover \/ Close \/ StepFails \/ Crash

Spec == Init /\ [][Next]_vars
---------------------------------------------------------------------------
(* Properties. *)

\* The records that count: what the marker covers, or what precedes the first
\* bad record.
Covered(l, m) ==
  IF Fenced(l, m) THEN m.covers
  ELSE CHOOSE k \in 0..Len(l.records) :
         /\ \A i \in 1..k : l.records[i].intact
         /\ k < Len(l.records) => ~l.records[k + 1].intact

Readable(l, m) ==
  /\ Covered(l, m) <= Len(l.records)
  /\ \A i \in 1..Covered(l, m) : l.records[i].intact

\* The list has the entries among the first n records, each under its id and with
\* the outcome of the last record about it.
Restores(list, records, n) ==
  /\ \A i \in 1..n : records[i].type = "entry" => records[i].id \in DOMAIN list
  /\ \A id \in DOMAIN list :
       \E i \in 1..n, j \in 1..n :
         /\ records[i].type = "entry" /\ records[i].id = id
         /\ records[j].id = id /\ \A k \in (j + 1)..n : records[k].id # id
         /\ list[id] = [records[i] EXCEPT !.outcome = records[j].outcome]

\* However often the upgrade dies, fails or is begun again, an open that succeeds
\* finds every committed entry of the older file with its last outcome and
\* nothing that was not committed, and an open is refused only when committed
\* bytes are damaged or missing ("A crash at any point leaves either the intact
\* legacy log or the complete migrated log", migrate.c:10).
UpgradeKeepsHistory ==
  LET l == original.log
      m == original.marker
  IN /\ pc = "open" => Readable(l, m) /\ Restores(entries, l.records, Covered(l, m))
     /\ pc = "refused" => ~Readable(l, m)
=============================================================================
