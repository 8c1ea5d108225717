----------------------------- MODULE Jetstream -----------------------------
(***************************************************************************)
(* Reading the public stream.  A live run connects after the cursor it     *)
(* saved, takes frames in batches, notes each in the protocol evidence     *)
(* ledger, learns posts and withdraws deleted ones, and at its end saves   *)
(* the model and then the cursor.  An archive run replays a sealed window  *)
(* the same way and hands its end to the next live run as a cursor.        *)
(* An unfiltered stream numbers its frames without gaps, so a frame that   *)
(* is missing shows; the transport may lose frames there, and anywhere may *)
(* reconnect and deliver frames again.  The process may die at any point,  *)
(* or end on an error of the transport, which saves nothing either.        *)
(*                                                                         *)
(* The stream is the second version of the protocol, whose cursor is a     *)
(* sequence number.  The frame's policy decision and its link to an action *)
(* are in Ingestion and Journal.                                           *)
(***************************************************************************)
EXTENDS Integers, Sequences, FiniteSets

CONSTANTS
  Uris, Texts,     \* records, and what they may say
  None,
  StreamLength,    \* frames the server holds
  MaxNoise,        \* and how many of them are no commits with a TID
  MaxFaults, MaxRuns   \* bounds of the instance

VARIABLES
  log,       \* the server's frames, by sequence number
  mode,      \* JetstreamClient::filtered, JetstreamLimits::record_commit_evidence
  socket,    \* the next frame the transport delivers
  ledger,    \* outcome of each <<uri, text>>, on disk
  evidence,  \* the protocol evidence ledger: the file's records and its end
  model,     \* the saved model: the texts it was trained on
  saved,     \* jetstream ingestion state: cursor, and what it stands for
  run,       \* the process
  lost,      \* frames the transport lost
  faults, runs   \* losses, reconnects and crashes, and runs, so far

vars == <<log, mode, socket, ledger, evidence, model, saved, run, lost, faults, runs>>

Keys == Uris \X Texts

JetstreamAssumption == StreamLength \in Nat
---------------------------------------------------------------------------
(* Frames. *)

\* A commit's revision is a TID, is none ("bad"), or the typed parse gave none.
Revisions == {"tid", "bad", "none"}

Create(u, x, v) == [op |-> "create", uri |-> u, text |-> x, rev |-> v]
Delete(u, v)    == [op |-> "delete", uri |-> u, text |-> None, rev |-> v]
Other           == [op |-> "other", uri |-> None, text |-> None, rev |-> "none"]
Malformed       == [op |-> "malformed", uri |-> None, text |-> None, rev |-> "none"]

\* creates and updates, deletes, accounts and identities, and what does not parse
Frames ==
  {Create(u, x, v) : u \in Uris, x \in Texts, v \in Revisions}
    \cup {Delete(u, v) : u \in Uris, v \in Revisions} \cup {Other, Malformed}

Key(s)      == <<log[s].uri, log[s].text>>
Commit(s)   == log[s].op \in {"create", "delete"}

\* a collection filter leaves out what is no post
Delivered(s) == mode.filtered => log[s].op # "other"
---------------------------------------------------------------------------
(* protocol::observe_sequence and observe_stream on the cursor of a batch. *)

CursorResult(r, s) ==
  CASE r.last = 0                                            -> "Initialized"
    [] r.last # 0 /\ r.gap                                   -> "Gap"
    [] r.last # 0 /\ ~r.gap /\ s = r.last                    -> "Duplicate"
    [] r.last # 0 /\ ~r.gap /\ s < r.last                    -> "Rewind"
    [] r.last # 0 /\ ~r.gap /\ s > r.last + 1 /\ ~mode.filtered -> "Gap"
    [] OTHER                                                 -> "Advanced"

observe_sequence(r, s) ==
  LET result == CursorResult(r, s)
  IN [r EXCEPT !.last = IF result \in {"Initialized", "Advanced"} THEN s ELSE @,
               !.from = IF result = "Initialized" THEN s ELSE @,
               !.live = IF result = "Initialized" THEN s ELSE @,
               !.gap = result = "Gap",
               !.resync = @ \/ result \in {"Gap", "Rewind"}]

\* an event with a revision is rejected when that is no TID; the batch then keeps
\* its cursor
observe_stream(r, s) ==
  IF log[s].rev # "bad" THEN observe_sequence(r, s) ELSE [r EXCEPT !.resync = TRUE]

StreamResult(r, s) == IF log[s].rev # "bad" THEN CursorResult(r, s) ELSE "Rejected"
---------------------------------------------------------------------------
(* protocol::EvidenceLedger. *)

\* the file's records, and how it ends
File(records, end) == [records |-> records, end |-> end]

NoFile == File({}, "absent")

\* what is already there is not written again; a torn tail goes before a record
append_evidence(file, e) ==
  IF e \in file.records THEN file ELSE File(file.records \cup {e}, "whole")

\* a crash while a record is written: part of it, or none of it, is in the file
Interrupted(file) == {file, File(file.records, "whole"), File(file.records, "torn")}

\* append_firehose_event for a frame and for the event in it
FrameEvidence(s) ==
  IF log[s].op = "other" \/ mode.all THEN append_evidence(evidence, <<"frame", s>>)
  ELSE evidence

EventEvidence(s) ==
  IF log[s].op = "delete" \/ mode.all THEN append_evidence(evidence, <<log[s].op, s>>)
  ELSE evidence

\* the note of a frame that is dropped names the revision; without one it is
\* refused by the evidence ledger
GapEvidence(s) ==
  IF log[s].rev # "none" THEN append_evidence(evidence, <<"cursor-gap", s>>) ELSE evidence
---------------------------------------------------------------------------
Down == [pc |-> "down", graph |-> {}, cursor |-> 0, from |-> 0, live |-> 0, client |-> 0,
         last |-> 0, gap |-> FALSE, resync |-> FALSE, withdrawn |-> FALSE,
         touched |-> {}, before |-> 0, connected |-> 0]

Fault == faults < MaxFaults /\ faults' = faults + 1

BeginRun == runs < MaxRuns /\ runs' = runs + 1

\* EvidenceLedger's constructor refuses a file with nothing in it
Opens == run.pc = "down" /\ evidence # File({}, "whole")

\* run_jetstream up to its loop; without a cursor the stream starts at its head
Start ==
  /\ Opens /\ BeginRun
  /\ \E head \in 1..Len(log) :
       LET at == IF saved.cursor = 0 THEN head ELSE saved.cursor + 1
       IN /\ saved.cursor = 0 \/ head = 1
          /\ socket' = at
          /\ run' = [Down EXCEPT !.pc = "live", !.graph = model, !.cursor = saved.cursor,
                                 !.client = saved.cursor, !.connected = at,
                                 !.from = saved.from, !.live = saved.live]
  /\ UNCHANGED <<log, mode, ledger, evidence, model, saved, lost, faults>>

\* run_jetstream_backfill builds the protocol cursor anew from the saved one
BeginBatch ==
  /\ run.pc = "live"
  /\ run' = [run EXCEPT !.pc = "batch", !.last = run.cursor]
  /\ UNCHANGED <<log, mode, socket, ledger, evidence, model, saved, lost, faults, runs>>

\* a frame that does not parse is consumed and gives no cursor
Skip ==
  /\ run.pc = "batch" /\ socket <= Len(log)
  /\ ~Delivered(socket) \/ log[socket].op = "malformed"
  /\ socket' = socket + 1
  /\ UNCHANGED <<log, mode, ledger, evidence, model, saved, run, lost, faults, runs>>

\* the frame is finished with: the client's cursor follows it
Finish(r) ==
  /\ run' = [r EXCEPT !.pc = IF r.pc = "row" THEN "rows" ELSE "batch", !.client = socket]
  /\ socket' = socket + 1

Proceed(r, pc) == run' = [r EXCEPT !.pc = pc] /\ UNCHANGED socket

\* on_event with the frame itself; a rewound one is noted and dropped
Receive ==
  LET r == observe_sequence(run, socket)
  IN /\ run.pc = "batch" /\ socket <= Len(log)
     /\ Delivered(socket) /\ log[socket].op # "malformed"
     /\ evidence' = IF CursorResult(run, socket) = "Rewind" THEN GapEvidence(socket)
                    ELSE FrameEvidence(socket)
     /\ IF Commit(socket) THEN Proceed(r, "event") ELSE Finish(r)
     /\ UNCHANGED <<log, mode, ledger, model, saved, lost, faults, runs>>

Dropped(s) == StreamResult(run, s) \in {"Rewind", "Rejected"}

\* on_event with the delete in the frame, or with the post: one that is rewound
\* or rejected is noted and dropped
Event ==
  LET r == observe_stream(run, socket)
  IN /\ run.pc = "event"
     /\ IF Dropped(socket)
        THEN evidence' = GapEvidence(socket) /\ Finish(r)
        ELSE evidence' = EventEvidence(socket) /\ Proceed(r, "apply")
     /\ UNCHANGED <<log, mode, ledger, model, saved, lost, faults, runs>>

\* process_observation's first step: the entry is on disk before any training
Reserve(s) ==
  /\ ledger[Key(s)] = "absent"
  /\ ledger' = [ledger EXCEPT ![Key(s)] = "pending"]
  /\ UNCHANGED <<log, mode, socket, evidence, model, saved, run, lost, faults, runs>>

\* Mutation: any entry is a duplicate, an open one too.
ExistsCommitted_any(s) == ledger[Key(s)] # "absent"

ExistsCommitted(s) == ledger[Key(s)] \in {"learned", "withdrawn"}

\* its second: a committed entry is a duplicate, any other is trained on
Learn(s) ==
  LET new == IF ExistsCommitted(s) THEN {} ELSE {Key(s)}
  IN /\ ledger[Key(s)] # "absent"
     /\ ledger' = [k \in Keys |-> IF k \in new THEN "learned" ELSE ledger[k]]
     /\ Finish([run EXCEPT !.graph = @ \cup new, !.touched = @ \cup new])
     /\ UNCHANGED <<log, mode, evidence, model, saved, lost, faults, runs>>

\* withdraw_source: every text of the record, one entry at a time
withdraw_source(s) ==
  LET left == {k \in Keys : k[1] = log[s].uri /\ ledger[k] \in {"pending", "learned"}}
  IN IF left = {}
     THEN /\ Finish(run)
          /\ UNCHANGED <<log, mode, ledger, evidence, model, saved, lost, faults, runs>>
     ELSE \E k \in left :
            /\ ledger' = [ledger EXCEPT ![k] = "withdrawn"]
            /\ run' = [run EXCEPT !.withdrawn = TRUE, !.touched = @ \cup {k}]
            /\ UNCHANGED <<log, mode, socket, evidence, model, saved, lost, faults, runs>>

Apply ==
  /\ run.pc = "apply"
  /\ \/ log[socket].op = "create" /\ Reserve(socket)
     \/ log[socket].op = "create" /\ Learn(socket)
     \/ log[socket].op = "delete" /\ withdraw_source(socket)

\* what the ledger says is learned, and nothing else
rebuild_from_ledger == {k \in Keys : ledger[k] = "learned"}

Between(r) ==
  [r EXCEPT !.pc = "live", !.last = 0, !.gap = FALSE, !.resync = FALSE, !.withdrawn = FALSE]

\* Mutation: a batch that withdrew leaves the model as it was.
EndBatch_keeps ==
  /\ run.pc = "batch"
  /\ run' = [Between(run) EXCEPT !.cursor = IF run.resync THEN @ ELSE run.client]
  /\ UNCHANGED <<log, mode, socket, ledger, evidence, model, saved, lost, faults, runs>>

\* the frame or time budget is spent, or the transport asks to wait: deletions
\* are taken out of the model, and the cursor moves unless a gap was seen
EndBatch ==
  /\ run.pc = "batch"
  /\ run' = [Between(run) EXCEPT
               !.graph = IF run.withdrawn THEN rebuild_from_ledger ELSE @,
               !.cursor = IF run.resync THEN @ ELSE run.client]
  /\ UNCHANGED <<log, mode, socket, ledger, evidence, model, saved, lost, faults, runs>>

\* the end of a run: first the model, then the cursor
SaveModel ==
  /\ run.pc \in {"live", "done"}
  /\ model' = run.graph
  /\ run' = [run EXCEPT !.pc = "save"]
  /\ UNCHANGED <<log, mode, socket, ledger, evidence, saved, lost, faults, runs>>

SaveState ==
  /\ run.pc = "save"
  /\ saved' = [cursor |-> run.cursor, from |-> run.from, live |-> run.live]
  /\ run' = Down /\ socket' = 1
  /\ UNCHANGED <<log, mode, ledger, evidence, model, lost, faults, runs>>
---------------------------------------------------------------------------
(* The archive.  Its rows are creates and updates; a replay needs a filter. *)

\* from the saved cursor, or from where the operator says, up to the window's end
StartArchive ==
  /\ Opens /\ mode.filtered /\ BeginRun
  /\ \E after \in 0..Len(log), before \in 1..Len(log) :
       LET goes_on == after = saved.cursor /\ after # 0
       IN /\ after < before
          /\ socket' = after + 1
          /\ run' = [Down EXCEPT !.pc = "rows", !.graph = model, !.before = before,
                                 !.from = IF goes_on THEN saved.from ELSE after + 1]
  /\ UNCHANGED <<log, mode, ledger, evidence, model, saved, lost, faults>>

SkipRow ==
  /\ run.pc = "rows" /\ socket <= run.before /\ log[socket].op # "create"
  /\ socket' = socket + 1
  /\ UNCHANGED <<log, mode, ledger, evidence, model, saved, run, lost, faults, runs>>

Row ==
  /\ run.pc = "rows" /\ socket <= run.before /\ log[socket].op = "create"
  /\ evidence' = append_evidence(evidence, <<"create", socket>>)
  /\ run' = [run EXCEPT !.pc = "row"]
  /\ UNCHANGED <<log, mode, socket, ledger, model, saved, lost, faults, runs>>

LearnRow ==
  /\ run.pc = "row"
  /\ Reserve(socket) \/ Learn(socket)

\* the window is read to its end: live runs go on from there
EndWindow ==
  /\ run.pc = "rows" /\ socket > run.before
  /\ run' = [run EXCEPT !.pc = "done", !.cursor = run.before, !.live = run.before + 1]
  /\ UNCHANGED <<log, mode, socket, ledger, evidence, model, saved, lost, faults, runs>>
---------------------------------------------------------------------------
(* The transport and the process. *)

\* a frame of an unfiltered stream is lost
Lose ==
  /\ run.pc = "batch" /\ ~mode.filtered /\ socket < Len(log)
  /\ Fault
  /\ lost' = lost \cup {socket} /\ socket' = socket + 1
  /\ UNCHANGED <<log, mode, ledger, evidence, model, saved, run, runs>>

\* the library connects again, and frames since it first connected come again
Reconnect ==
  /\ run.pc \in {"live", "batch"} /\ Fault
  /\ \E at \in run.connected..(socket - 1) : socket' = at
  /\ UNCHANGED <<log, mode, ledger, evidence, model, saved, run, lost, runs>>

Crash ==
  /\ run.pc # "down" /\ Fault
  /\ evidence' \in IF run.pc \in {"batch", "event", "rows"} THEN Interrupted(evidence)
                   ELSE {evidence}
  /\ run' = Down /\ socket' = 1
  /\ UNCHANGED <<log, mode, ledger, model, saved, lost, runs>>

Init ==
  /\ log \in {l \in [1..StreamLength -> Frames] :
                /\ \E s \in DOMAIN l : l[s].op = "create"
                /\ Cardinality({s \in DOMAIN l : l[s].rev # "tid"}) <= MaxNoise}
  /\ mode \in [filtered : BOOLEAN, all : BOOLEAN]
  /\ socket = 1
  /\ ledger = [k \in Keys |-> "absent"]
  /\ evidence = NoFile
  /\ model = {}
  /\ saved = [cursor |-> 0, from |-> 1, live |-> 1]
  /\ run = Down
  /\ lost = {}
  /\ faults = 0 /\ runs = 0

Next ==
  \/ Start \/ BeginBatch \/ Skip \/ Receive \/ Event \/ Apply \/ EndBatch
  \/ SaveModel \/ SaveState
  \/ StartArchive \/ SkipRow \/ Row \/ LearnRow \/ EndWindow
  \/ Lose \/ Reconnect \/ Crash

Spec == Init /\ [][Next]_vars
---------------------------------------------------------------------------
(* Properties. *)

TypeOK ==
  /\ ledger \in [Keys -> {"absent", "pending", "learned", "withdrawn"}]
  /\ model \subseteq Keys /\ run.graph \subseteq Keys
  /\ saved.cursor \in 0..StreamLength /\ run.client \in 0..StreamLength

\* A live run rejects a create or delete whose revision is no TID, and drops it.
Refused(s) == log[s].rev = "bad"

Handled(s) ==
  /\ (log[s].op = "create" /\ ~Refused(s)) => ledger[Key(s)] \in {"learned", "withdrawn"}
  /\ (log[s].op = "delete" /\ ~Refused(s) /\ s >= saved.live) =>
       \A c \in (saved.from..(s - 1)) \ lost :
         (log[c].op = "create" /\ log[c].uri = log[s].uri /\ ~Refused(c)) =>
           ledger[Key(c)] # "learned"

\* The saved cursor stands for work that is done: of the frames that arrived
\* between where reading began and the cursor, no post is missing from the
\* ledger, and none that a live run then saw deleted is still learned, however
\* frames were repeated and wherever a run died (run_jetstream_backfill's
\* checkpoint, the order of the saves in run_jetstream).  Except: the batch that
\* rejects a commit for its revision (protocol.cpp:654) keeps its cursor, but the
\* next one moves past it (jetstream_backfill.cpp:220), so such a post is never
\* learned and such a delete never obeyed, against jetstream_backfill.cpp:212.
CursorBehindHandled ==
  \A s \in (saved.from..saved.cursor) \ lost : Handled(s)

\* An unfiltered stream shows a frame that was lost, and the cursor waits in
\* front of it: "Never checkpoint past a protocol gap. The persisted cursor
\* remains the last known-good boundary until a validated CAR resync clears it."
\* (jetstream_backfill.cpp:212)
NeverPastAGap ==
  ~mode.filtered => \A s \in saved.from..saved.cursor : Handled(s)

\* Between two batches the model and the ledger agree on everything this run
\* handled: a post that was learned and then deleted is in neither, however the
\* two were split over frames and batches (rebuild_from_ledger after a batch
\* that withdrew).
BatchSettles ==
  run.pc \in {"live", "done", "save"} =>
    \A k \in run.touched : k \in run.graph <=> ledger[k] = "learned"

\* Nothing is learned or withdrawn from the stream without evidence that is on
\* disk before it: however a run died, a withdrawn record has a delete in the
\* evidence ledger, and in mode `all` a learned one its commit
\* (append_firehose_event comes before process_observation and withdraw_source).
EvidenceComesFirst ==
  \A k \in Keys :
    LET noted(type) == \E s \in DOMAIN log : /\ log[s].uri = k[1]
                                             /\ <<type, s>> \in evidence.records
    IN /\ ledger[k] = "withdrawn" => noted("delete")
       /\ ledger[k] = "learned" /\ mode.all => noted("create")

\* Every change a run makes is accounted for: by evidence on disk before it, and
\* between batches by the model (run_jetstream_backfill's on_event and its end).
ChangesAreAccounted == EvidenceComesFirst /\ BatchSettles
=============================================================================
