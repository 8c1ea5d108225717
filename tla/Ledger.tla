------------------------------- MODULE Ledger -------------------------------
(***************************************************************************)
(* The observation ledger (src/src/core/ledger): an append-only log of     *)
(* entry and patch records, the `.off' commit marker that fences its       *)
(* committed prefix, and the in-memory mirror the single writer works on.  *)
(*                                                                         *)
(* One operation is a sequence of steps (write, fsync, publish the marker) *)
(* and a crash may fall between any two of them.  Recovery is the code's   *)
(* loop, one record per step.                                              *)
(*                                                                         *)
(* What is abstracted.  The log file is a sequence of extents, one per     *)
(* fwrite: the record, the offset it starts at and how many of its units   *)
(* read back intact.  A patch is PatchUnits long, an entry MetaUnits and   *)
(* one more when it retains its text.  An observation is its dedup key     *)
(* (source id and digest).  An extent that is not whole never passes the   *)
(* checksum.  A rename and a truncation are durable when they return, and  *)
(* memory allocation succeeds.                                             *)
(***************************************************************************)
EXTENDS Integers, Sequences, FiniteSets

CONSTANTS
    Keys,       \* dedup keys: (source id, content digest) pairs
    Selectors,  \* what a withdrawal names: the keys of one source or author
    Caps,       \* size caps that release_payloads is called with
    MaxLog,     \* bound: extents in the log when an operation starts
    IOFaults,   \* TRUE when a write, fsync or rename may fail
    LogDamage   \* TRUE when bytes of a closed log may be lost or corrupted

ASSUME SelectorsAssumption == Selectors \subseteq SUBSET Keys
ASSUME CapsAssumption == Caps \subseteq Nat \ {0}
ASSUME MaxLogAssumption == MaxLog \in Nat
ASSUME FaultsAssumption == IOFaults \in BOOLEAN /\ LogDamage \in BOOLEAN

VARIABLES
    log,      \* the log file: extents in write order
    synced,   \* how much of the log would survive a crash
    marker,   \* the `.off' file
    pc,       \* what the writer is doing
    mem,      \* ledger->entries and payloads (id is the index)
    offset,   \* ledger->committed_offset
    pending,  \* the record being committed
    pos,      \* recovery: the extent to read next
    fence,    \* recovery: where the committed prefix ends
    sweep,    \* a withdraw_source/withdraw_author loop under way
    staged,   \* compaction: the log written to `.tmp'
    acked,    \* history: what callers were told is committed
    unfenced  \* history: the log was damaged while it had no marker

vars == <<log, synced, marker, pc, mem, offset, pending, pos, fence, sweep,
          staged, acked, unfenced>>
-----------------------------------------------------------------------------
(* Entries, records and what a record does to the entries.                 *)

Outcomes == {"pending", "learned", "skipped", "failed", "withdrawn"}

is_committed(o) == o \in {"learned", "skipped", "withdrawn"}

Payloads == {"text", "none", "released"}

Entry == [key : Keys, outcome : Outcomes, payload : Payloads]

EntryRecord == [type : {"entry"}, id : Nat \ {0}, entry : Entry]
PatchRecord == [type : {"patch"}, id : Nat \ {0}, outcome : Outcomes]
Record == EntryRecord \cup PatchRecord

EntryRec(i, e) == [type |-> "entry", id |-> i, entry |-> e]
PatchRec(i, o) == [type |-> "patch", id |-> i, outcome |-> o]

PatchUnits == 2
MetaUnits == 3
TextUnits(e) == IF e.payload = "text" THEN 1 ELSE 0

RecordLen(r) ==
    IF r.type = "patch" THEN PatchUnits ELSE MetaUnits + TextUnits(r.entry)

\* The tests recovery makes before it accepts a record.
Acceptable(m, r) ==
    \/ r.type = "entry" /\ r.id = Len(m) + 1
    \/ /\ r.type = "patch"
       /\ r.id \in DOMAIN m
       /\ ~(is_committed(m[r.id].outcome) /\ r.outcome = "pending")

Applied(m, r) ==
    IF r.type = "entry" THEN Append(m, r.entry)
                        ELSE [m EXCEPT ![r.id].outcome = r.outcome]

lookup(m, k) == {i \in DOMAIN m : m[i].key = k}
-----------------------------------------------------------------------------
(* The log file.                                                           *)

Extent == [rec : Record, at : Nat, len : Nat \ {0}]

FileSize(l) == IF l = <<>> THEN 0 ELSE l[Len(l)].at + l[Len(l)].len

Written(l, r) == Append(l, [rec |-> r, at |-> FileSize(l), len |-> RecordLen(r)])

\* The first n extents, the last of them cut to c units.
CutTail(l, n, c) ==
    IF n = 0 THEN <<>> ELSE [SubSeq(l, 1, n) EXCEPT ![n].len = c]

\* What a crash can leave of l when the first s units are durable.
Survivors(l, s) ==
    {x \in {CutTail(l, n, c) : n \in 0..Len(l), c \in 1..(MetaUnits + 1)} :
        /\ FileSize(x) >= s
        /\ \A i \in DOMAIN x : x[i].len <= l[i].len}

NoMarker == [count |-> 0, offset |-> -1]
Marker == [count : Nat, offset : Nat] \cup {NoMarker}

NoSweep == [sel |-> {}, next |-> 0]
NoRecord == [type |-> "none"]
-----------------------------------------------------------------------------
Init ==
    /\ log = <<>> /\ synced = 0 /\ marker = NoMarker
    /\ pc = "closed"
    /\ mem = <<>> /\ offset = 0 /\ pending = NoRecord
    /\ pos = 1 /\ fence = 0
    /\ sweep = NoSweep /\ staged = <<>>
    /\ acked = <<>> /\ unfenced = FALSE

\* The process is gone: nothing of the writer's memory remains.
Forget ==
    /\ mem' = <<>> /\ offset' = 0 /\ pending' = NoRecord
    /\ pos' = 1 /\ fence' = 0
    /\ sweep' = NoSweep /\ staged' = <<>>

-----------------------------------------------------------------------------
(* lifecycle.c and recover.c: open.                                        *)

\* The marker points beyond the log: bytes were lost after it was durable.
OpenRefused ==
    /\ pc \in {"closed", "refused"}
    /\ marker # NoMarker /\ marker.offset > FileSize(log)
    /\ pc' = "refused"
    /\ Forget
    /\ UNCHANGED <<log, synced, marker, acked, unfenced>>

Open ==
    /\ pc \in {"closed", "refused"}
    /\ marker = NoMarker \/ marker.offset <= FileSize(log)
    /\ pc' = "recover"
    /\ fence' = IF marker = NoMarker THEN FileSize(log) ELSE marker.offset
    /\ mem' = <<>> /\ offset' = 0 /\ pending' = NoRecord /\ pos' = 1
    /\ sweep' = NoSweep /\ staged' = <<>>
    /\ UNCHANGED <<log, synced, marker, acked, unfenced>>

MoreToRecover == pos <= Len(log) /\ log[pos].at < fence

ValidAt(i) ==
    /\ log[i].len = RecordLen(log[i].rec)
    /\ log[i].at + log[i].len <= fence
    /\ Acceptable(mem, log[i].rec)

\* Mutation: recovery reads a patch and does not apply it.
RecoverRecord_drops_patch ==
    /\ pc = "recover" /\ MoreToRecover /\ ValidAt(pos)
    /\ mem' = IF log[pos].rec.type = "entry" THEN Applied(mem, log[pos].rec) ELSE mem
    /\ pos' = pos + 1
    /\ UNCHANGED <<log, synced, marker, pc, offset, pending, fence, sweep,
                   staged, acked, unfenced>>

RecoverRecord ==
    /\ pc = "recover" /\ MoreToRecover /\ ValidAt(pos)
    /\ mem' = Applied(mem, log[pos].rec)
    /\ pos' = pos + 1
    /\ UNCHANGED <<log, synced, marker, pc, offset, pending, fence, sweep,
                   staged, acked, unfenced>>

\* Mutation: a fenced record that does not validate ends the log too.
RecoverHeal_fenced ==
    /\ pc = "recover" /\ MoreToRecover /\ ~ValidAt(pos)
    /\ fence' = log[pos].at
    /\ UNCHANGED <<log, synced, marker, pc, mem, offset, pending, pos, sweep,
                   staged, acked, unfenced>>

\* Without a marker the first record that does not validate ends the log.
RecoverHeal ==
    /\ pc = "recover" /\ MoreToRecover /\ ~ValidAt(pos)
    /\ marker = NoMarker
    /\ fence' = log[pos].at
    /\ UNCHANGED <<log, synced, marker, pc, mem, offset, pending, pos, sweep,
                   staged, acked, unfenced>>

\* With a marker it is corruption, and so is a count that disagrees.
RecoverRefused ==
    /\ pc = "recover" /\ marker # NoMarker
    /\ \/ MoreToRecover /\ ~ValidAt(pos)
       \/ ~MoreToRecover /\ Len(mem) # marker.count
    /\ pc' = "refused"
    /\ Forget
    /\ UNCHANGED <<log, synced, marker, acked, unfenced>>

\* Truncate the tail; a missing marker is rewritten (RepublishMarker).
RecoverDone ==
    /\ pc = "recover" /\ ~MoreToRecover
    /\ marker = NoMarker \/ Len(mem) = marker.count
    /\ log' = SubSeq(log, 1, pos - 1)
    /\ synced' = IF synced > fence THEN fence ELSE synced
    /\ offset' = fence
    /\ pc' = IF marker = NoMarker THEN "remark" ELSE "idle"
    /\ pos' = 1 /\ fence' = 0
    /\ UNCHANGED <<marker, mem, pending, sweep, staged, acked, unfenced>>

write_off(count, off) == marker' = [count |-> count, offset |-> off]

RepublishMarker ==
    /\ pc = "remark"
    /\ write_off(Len(mem), offset)
    /\ pc' = "idle"
    /\ UNCHANGED <<log, synced, mem, offset, pending, pos, fence, sweep,
                   staged, acked, unfenced>>
-----------------------------------------------------------------------------
(* commit.c: write the record, fsync, publish the marker.                  *)

StartCommit(r) ==
    /\ log' = Written(log, r)
    /\ pending' = r
    /\ pc' = "sync"

SyncRecord ==
    /\ pc = "sync"
    /\ synced' = FileSize(log)
    /\ offset' = offset + RecordLen(pending)
    /\ pc' = "publish"
    /\ UNCHANGED <<log, marker, mem, pending, pos, fence, sweep, staged, acked, unfenced>>

\* Mutation: the marker's count is taken before the entry is counted.
PublishMarker_old_count ==
    /\ pc = "publish"
    /\ write_off(Len(mem), offset)
    /\ mem' = Applied(mem, pending)
    /\ acked' = IF Acceptable(acked, pending) THEN Applied(acked, pending)
                                              ELSE acked
    /\ pending' = NoRecord
    /\ pc' = "idle"
    /\ UNCHANGED <<log, synced, offset, pos, fence, sweep, staged, unfenced>>

\* The operation succeeded: memory follows and the caller is told.
PublishMarker ==
    /\ pc = "publish"
    /\ write_off(Len(Applied(mem, pending)), offset)
    /\ mem' = Applied(mem, pending)
    /\ acked' = IF Acceptable(acked, pending) THEN Applied(acked, pending)
                                              ELSE acked
    /\ pending' = NoRecord
    /\ pc' = "idle"
    /\ UNCHANGED <<log, synced, offset, pos, fence, sweep, staged, unfenced>>

\* append.c: a key that is already known only reports the existing entry.
append(k, o, p) ==
    /\ pc = "idle" /\ sweep = NoSweep /\ Len(log) < MaxLog
    /\ lookup(mem, k) = {}
    /\ StartCommit(EntryRec(Len(mem) + 1,
                            [key |-> k, outcome |-> o, payload |-> p]))
    /\ UNCHANGED <<synced, marker, mem, offset, pos, fence, sweep, staged, acked, unfenced>>

\* outcome.c: a committed entry is never reopened; no change is no write.
set_outcome(i, o) ==
    /\ pc = "idle" /\ sweep = NoSweep /\ Len(log) < MaxLog
    /\ i \in DOMAIN mem
    /\ ~(is_committed(mem[i].outcome) /\ o = "pending")
    /\ mem[i].outcome # o
    /\ StartCommit(PatchRec(i, o))
    /\ UNCHANGED <<synced, marker, mem, offset, pos, fence, sweep, staged, acked, unfenced>>

\* outcome.c: withdraw_source and withdraw_author walk the entries in order.
WithdrawBegin(S) ==
    /\ pc = "idle" /\ sweep = NoSweep
    /\ Len(log) + Len(mem) <= MaxLog
    /\ sweep' = [sel |-> S, next |-> 1]
    /\ UNCHANGED <<log, synced, marker, pc, mem, offset, pending, pos, fence,
                   staged, acked, unfenced>>

ToWithdraw == {i \in DOMAIN mem : /\ i >= sweep.next
                                  /\ mem[i].key \in sweep.sel
                                  /\ mem[i].outcome # "withdrawn"}

WithdrawNext ==
    /\ pc = "idle" /\ sweep # NoSweep
    /\ \E i \in ToWithdraw :
        /\ \A j \in ToWithdraw : i <= j
        /\ StartCommit(PatchRec(i, "withdrawn"))
        /\ sweep' = [sweep EXCEPT !.next = i + 1]
    /\ UNCHANGED <<synced, marker, mem, offset, pos, fence, staged, acked, unfenced>>

WithdrawEnd ==
    /\ pc = "idle" /\ sweep # NoSweep
    /\ ToWithdraw = {}
    /\ sweep' = NoSweep
    /\ UNCHANGED <<log, synced, marker, pc, mem, offset, pending, pos, fence,
                   staged, acked, unfenced>>
-----------------------------------------------------------------------------
(* compact.c: rewrite the log from memory, one entry record per entry.     *)

\* Mutation: an entry that is still open loses its text.
Releasable_open(m) == {i \in DOMAIN m : /\ m[i].payload = "text"
                                        /\ m[i].outcome # "withdrawn"}

Releasable(m) == {i \in DOMAIN m : /\ m[i].payload = "text"
                                   /\ m[i].outcome \in {"learned", "skipped"}}

\* Oldest first, until `need' units are released.
Released(m, need) ==
    {i \in Releasable(m) : Cardinality({j \in Releasable(m) : j < i}) < need}

Compacted(m, need) ==
    [i \in DOMAIN m |->
        [m[i] EXCEPT !.payload =
            IF i \in Released(m, need) THEN "released"
            ELSE IF m[i].outcome = "withdrawn" /\ m[i].payload = "text" THEN "none"
            ELSE m[i].payload]]

\* How many of the first n entries retain their text.
Texts(m, n) == Cardinality({j \in 1..n : m[j].payload = "text"})

Flattened(m) ==
    [i \in DOMAIN m |->
        [rec |-> EntryRec(i, m[i]),
         at  |-> MetaUnits * (i - 1) + Texts(m, i - 1),
         len |-> RecordLen(EntryRec(i, m[i]))]]

\* The walk that counts patches insists on whole records up to the offset.
Walkable ==
    \E n \in 0..Len(log) :
        /\ FileSize(SubSeq(log, 1, n)) = offset
        /\ \A i \in 1..n : log[i].len = RecordLen(log[i].rec)

compact_release(need) ==
    /\ pc = "idle" /\ sweep = NoSweep /\ Walkable
    /\ mem' = Compacted(mem, need)
    /\ staged' = Flattened(mem')
    /\ pc' = "staged"
    /\ UNCHANGED <<log, synced, marker, offset, pending, pos, fence, sweep, acked, unfenced>>

compact == compact_release(0)

\* Mutation: one unit short of the cap.
release_payloads_short(cap) ==
    /\ offset > cap
    /\ Releasable(mem) # {}
    /\ compact_release(offset - cap - 1)

\* Release down to 80% of the cap so the next append does not cross it again.
release_payloads(cap) ==
    /\ offset > cap
    /\ Releasable(mem) # {}
    /\ compact_release(offset - (cap - cap \div 5))

CompactRemoveMarker ==
    /\ pc = "staged"
    /\ marker' = NoMarker
    /\ pc' = "unmarked"
    /\ UNCHANGED <<log, synced, mem, offset, pending, pos, fence, sweep,
                   staged, acked, unfenced>>

CompactRename ==
    /\ pc = "unmarked"
    /\ log' = staged
    /\ synced' = FileSize(staged)
    /\ staged' = <<>>
    /\ acked' = [i \in DOMAIN acked |->
                    IF i \in DOMAIN mem
                    THEN [acked[i] EXCEPT !.payload = mem[i].payload]
                    ELSE acked[i]]
    /\ pc' = "reopen"
    /\ UNCHANGED <<marker, mem, offset, pending, pos, fence, sweep, unfenced>>

CompactPublish ==
    /\ pc = "reopen"
    /\ offset' = FileSize(log)
    /\ write_off(Len(mem), FileSize(log))
    /\ pc' = "idle"
    /\ UNCHANGED <<log, synced, mem, pending, pos, fence, sweep, staged, acked, unfenced>>
-----------------------------------------------------------------------------
(* Failures.  A caller lets the error end the process; only the withdrawal *)
(* loop carries on with the next entry.                                    *)

GiveUp ==
    IF sweep # NoSweep /\ pc \in {"sync", "publish"}
    THEN /\ pc' = "idle" /\ pending' = NoRecord
         /\ UNCHANGED <<mem, offset, pos, fence, sweep, staged>>
    ELSE pc' = "closed" /\ Forget

\* fwrite or fsync fails: some of the record's units stay in the file.
SyncFails ==
    /\ IOFaults /\ pc = "sync"
    /\ LET n == Len(log)
       IN \/ log' = SubSeq(log, 1, n - 1)
          \/ \E c \in 1..log[n].len : log' = CutTail(log, n, c)
    /\ GiveUp
    /\ UNCHANGED <<synced, marker, acked, unfenced>>

\* The marker cannot be staged or renamed: the previous one stays.
PublishFails ==
    /\ IOFaults /\ pc \in {"publish", "remark", "reopen"}
    /\ GiveUp
    /\ UNCHANGED <<log, synced, marker, acked, unfenced>>

\* The compacted log cannot be staged, or cannot be renamed over the log.
CompactFails ==
    /\ IOFaults /\ pc \in {"staged", "unmarked"}
    /\ GiveUp
    /\ UNCHANGED <<log, synced, marker, acked, unfenced>>

\* atp_ledger_destroy
Close ==
    /\ pc = "idle" /\ sweep = NoSweep
    /\ synced' = FileSize(log)
    /\ pc' = "closed"
    /\ Forget
    /\ UNCHANGED <<log, marker, acked, unfenced>>

Crash ==
    /\ pc \notin {"closed", "refused"}
    /\ log' \in Survivors(log, synced)
    /\ synced' = FileSize(log')
    /\ pc' = "closed"
    /\ Forget
    /\ UNCHANGED <<marker, acked, unfenced>>

\* The environment damages the log of a closed ledger: a whole extent loses
\* a unit, or the file its end.  (At most one loss that no marker fences.)
DamageLog ==
    /\ LogDamage /\ pc = "closed" /\ ~unfenced
    /\ \E i \in DOMAIN log :
        \/ /\ log[i].len = RecordLen(log[i].rec)
           /\ log' = [log EXCEPT ![i].len = log[i].len - 1]
        \/ log' = SubSeq(log, 1, i - 1)
    /\ synced' = IF FileSize(log') < synced THEN FileSize(log') ELSE synced
    /\ unfenced' = (marker = NoMarker)
    /\ UNCHANGED <<marker, pc, mem, offset, pending, pos, fence, sweep, staged,
                   acked>>
-----------------------------------------------------------------------------
Next ==
    \/ OpenRefused \/ Open
    \/ RecoverRecord \/ RecoverHeal \/ RecoverRefused \/ RecoverDone
    \/ RepublishMarker
    \/ \E k \in Keys, o \in Outcomes, p \in {"text", "none"} : append(k, o, p)
    \/ \E i \in DOMAIN mem, o \in Outcomes : set_outcome(i, o)
    \/ SyncRecord \/ PublishMarker
    \/ \E S \in Selectors : WithdrawBegin(S)
    \/ WithdrawNext \/ WithdrawEnd
    \/ compact \/ \E cap \in Caps : release_payloads(cap)
    \/ CompactRemoveMarker \/ CompactRename \/ CompactPublish
    \/ SyncFails \/ PublishFails \/ CompactFails
    \/ Close \/ Crash \/ DamageLog

Spec == Init /\ [][Next]_vars
-----------------------------------------------------------------------------
(* Properties.                                                             *)

TypeOK ==
    /\ log \in Seq(Extent) /\ synced \in Nat /\ marker \in Marker
    /\ pc \in {"closed", "refused", "recover", "remark", "idle", "sync",
               "publish", "staged", "unmarked", "reopen"}
    /\ mem \in Seq(Entry) /\ offset \in Nat
    /\ pending \in Record \cup {NoRecord}
    /\ pos \in Nat \ {0} /\ fence \in Nat
    /\ sweep \in [sel : Selectors, next : Nat] \cup {NoSweep}
    /\ staged \in Seq(Extent)
    /\ acked \in Seq(Entry) /\ unfenced \in BOOLEAN

\* A ledger that opened holds exactly what its callers were told is committed,
\* whatever crashed in between (append.c, outcome.c, compact.c and recover.c
\* together), unless the log was damaged while no marker fenced it.
OpenRestoresAcked == (pc = "idle" /\ ~unfenced) => mem = acked

\* Crashes alone never make recover.c refuse its own files.
NeverRefused == pc # "refused"

\* The marker never runs ahead of the bytes commit.c has fsync'd: a crash
\* cannot leave the `off_offset > file_size' that recover.c refuses.
MarkerIsDurable == marker # NoMarker => marker.offset <= synced

\* The dedup key stays unique through crashes, recovery and compaction, so an
\* observation has one id for ever (append.c's lookup, recover.c, compact.c).
UniqueKeys == \A i, j \in DOMAIN mem : mem[i].key = mem[j].key => i = j

\* release_payloads leaves a log within the cap, or nothing more to release.
ReleaseMeetsCap ==
    [][\A cap \in Caps :
        release_payloads(cap) => \/ FileSize(staged') <= cap
                                 \/ Releasable(mem') = {}]_vars
=============================================================================
