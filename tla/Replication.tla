---------------------------- MODULE Replication ----------------------------
(***************************************************************************)
(* Publishing the entity's state as AT Protocol records, and building a    *)
(* host from them.  A pass (the daemon's, or `statepub drain`) walks the   *)
(* ledger and four append-only lists from a durable cursor, puts one       *)
(* record per item under a key of its own, and saves the cursor.  Puts     *)
(* fail, answers are lost, the process dies; the ledger and the lists grow *)
(* and entries are withdrawn meanwhile; offline mode sends a pass to files *)
(* instead.  `reconstruct` replays the records of the network on a new     *)
(* host.  The publication lock admits one pass at a time.                  *)
(***************************************************************************)
EXTENDS Integers, Sequences, FiniteSets, FiniteSetsExt, SequencesExt

CONSTANTS
  Sources,          \* public records the entity observes
  ActionIds,        \* frozen record keys of its actions
  Base, Digits,     \* the alphabet and the length of an observation's record key
  Letters,          \* its first symbols are letters, the others sort before them
  MaxRecords,       \* PublicationConfig::max_records_per_drain
  RecheckWindow,    \* PublicationConfig::withdrawal_recheck_window
  Instants,         \* epoch seconds of valence events; of no matter elsewhere
  None,
  MaxLines,         \* bounds of the instance: [list |-> how many lines it may have],
  MaxItems,         \* how many entries and lines there are together,
  MaxFaults, MaxMoves

Lists == <<"actions", "valence", "thoughts", "intents">>

\* how many keys there are, Base to the power of Digits
Keys == LET power[d \in 0..Digits] == IF d = 0 THEN 1 ELSE Base * power[d - 1]
        IN power[Digits]

\* The keys of the code take any 64-bit number: none is ever short.
ReplicationAssumption ==
  /\ Base \in Nat \ {0, 1} /\ Digits \in Nat \ {0} /\ Letters \in 0..Base
  /\ ActionIds \subseteq Nat
  /\ MaxItems \in Nat /\ MaxItems < Keys
  /\ \A at \in Instants : at \in Nat /\ at + MaxItems <= Keys
  /\ MaxRecords \in Nat \ {0} /\ RecheckWindow \in Nat \ {0}
  /\ DOMAIN MaxLines = Range(Lists)

VARIABLES
  ledger,     \* the observation ledger, [source, outcome] by id
  lines,      \* the journal's and the thought store's lists
  cursor,     \* the durable ReplicateCursor
  pass,       \* the running pass, or None
  network,    \* records of the entity's repository
  staged,     \* records staged as files
  overtaken,  \* ids a pass read as PENDING and left behind its cursor
  faults, moves

vars == <<ledger, lines, cursor, pass, network, staged, overtaken,
          faults, moves>>

source_state == <<ledger, lines, moves>>
---------------------------------------------------------------------------
(* Records and their keys. *)

Committed == {"learned", "withdrawn"}

\* the id in base 32, most significant digit first, written from the last
observation_rkey(id) ==
  LET rest[d \in 0..Digits] == IF d = Digits THEN id ELSE rest[d + 1] \div Base
  IN [d \in 1..Digits |-> rest[d] % Base]

rkey_to_id(rkey) ==
  LET id[d \in 0..Digits] == IF d = 0 THEN 0 ELSE id[d - 1] * Base + rkey[d]
  IN id[Digits]

\* where the repository lists a key: symbols in character order
listing_position(rkey) ==
  FoldLeft(LAMBDA v, d : v * 2 * Base + (IF d < Letters THEN Base + d ELSE d), 0, rkey)

\* a valence record is keyed by its instant and its position
valence_rkey(line, i) == observation_rkey(line.at + i - 1)

\* an action, a thought and an intent are keyed by their own id
Rkey(c, i) == IF c = "valence" THEN valence_rkey(lines[c][i], i) ELSE <<lines[c][i].id>>

\* an intent's id is the URI of its thread's root: no record key may hold a '/'
usable_rkey(c) == c # "intents"

serialise_observation_record(id, entry) ==
  [in |-> "observations", rkey |-> observation_rkey(id), what |-> entry]

\* an action, a valence event, a thought or an intent: the line itself
serialise_record(c, i) == [in |-> c, rkey |-> Rkey(c, i), what |-> lines[c][i]]

put_record(records, r) ==
  {old \in records : old.in # r.in \/ old.rkey # r.rkey} \cup {r}

NoCursor == [observations |-> 1, actions |-> 0, valence |-> 0, thoughts |-> 0, intents |-> 0]
---------------------------------------------------------------------------
(* One pass. *)

\* run_publication_pass: the gates are open, the lock is taken; the ledger is the
\* one the process has open
BeginPass(offline) ==
  /\ pass = None
  /\ pass' = [pc |-> "recheck", offline |-> offline, view |-> ledger, cursor |-> cursor,
              at |-> IF cursor.observations > RecheckWindow
                     THEN cursor.observations - RecheckWindow ELSE 1,
              length |-> NoCursor, written |-> 0]
  /\ UNCHANGED <<source_state, cursor, network, staged, overtaken, faults>>

Written(r) ==
  IF pass.offline THEN staged' = put_record(staged, r) /\ UNCHANGED network
                  ELSE network' = put_record(network, r) /\ UNCHANGED staged

\* the writer throws: the record may be there all the same
Failed(r, saved) ==
  /\ faults < MaxFaults /\ faults' = faults + 1
  /\ Written(r) \/ UNCHANGED <<network, staged>>
  /\ cursor' = saved
  /\ pass' = None
  /\ UNCHANGED <<source_state, overtaken>>

\* withdrawals among the entries just behind the cursor
Rechecked ==
  {id \in pass.at..(pass.cursor.observations - 1) :
     id <= Len(pass.view) /\ pass.view[id].outcome = "withdrawn"}

Recheck ==
  /\ pass # None /\ pass.pc = "recheck" /\ Rechecked # {}
  /\ LET id == Min(Rechecked)
         r  == serialise_observation_record(id, pass.view[id])
     IN \/ /\ Written(r)
           /\ pass' = [pass EXCEPT !.at = id + 1]
           /\ UNCHANGED <<source_state, cursor, overtaken, faults>>
        \/ Failed(r, cursor)

RecheckDone ==
  /\ pass # None /\ pass.pc = "recheck" /\ Rechecked = {}
  /\ pass' = [pass EXCEPT !.pc = "observations", !.at = pass.cursor.observations]
  /\ UNCHANGED <<source_state, cursor, network, staged, overtaken, faults>>

Publishable ==
  {id \in pass.at..Len(pass.view) : pass.view[id].outcome \in Committed}

\* the next committed entry; the cursor follows it past any PENDING one
PublishObservation ==
  /\ pass # None /\ pass.pc = "observations"
  /\ pass.written < MaxRecords /\ Publishable # {}
  /\ LET id == Min(Publishable)
         r  == serialise_observation_record(id, pass.view[id])
     IN \/ /\ Written(r)
           /\ pass' = [pass EXCEPT !.at = id + 1, !.cursor.observations = id + 1,
                                   !.written = @ + 1]
           /\ overtaken' = overtaken \cup pass.at..(id - 1)
           /\ UNCHANGED <<source_state, cursor, faults>>
        \/ Failed(r, pass.cursor)

\* load_journal
ObservationsDone ==
  /\ pass # None /\ pass.pc = "observations"
  /\ pass.written >= MaxRecords \/ Publishable = {}
  /\ pass' = [pass EXCEPT !.pc = "actions",
                          !.length = [c \in Range(Lists) |->
                                        IF c = "thoughts" THEN 0 ELSE Len(lines[c])]]
  /\ UNCHANGED <<source_state, cursor, network, staged, overtaken, faults>>

\* Mutation: the cursor saved before the record is put.
PublishLine_cursor_first(c) ==
  /\ pass # None /\ pass.pc = c
  /\ pass.written < MaxRecords /\ pass.cursor[c] < pass.length[c]
  /\ usable_rkey(c)
  /\ LET r    == serialise_record(c, pass.cursor[c] + 1)
         next == [pass.cursor EXCEPT ![c] = @ + 1]
     IN \/ /\ Written(r)
           /\ pass' = [pass EXCEPT !.cursor = next, !.written = @ + 1]
           /\ UNCHANGED <<source_state, cursor, overtaken, faults>>
        \/ Failed(r, next)

PublishLine(c) ==
  /\ pass # None /\ pass.pc = c
  /\ pass.written < MaxRecords /\ pass.cursor[c] < pass.length[c]
  /\ LET r == serialise_record(c, pass.cursor[c] + 1)
     IN IF usable_rkey(c)
        THEN \/ /\ Written(r)
                /\ pass' = [pass EXCEPT !.cursor[c] = @ + 1, !.written = @ + 1]
                /\ UNCHANGED <<source_state, cursor, overtaken, faults>>
             \/ Failed(r, pass.cursor)
        ELSE /\ cursor' = pass.cursor /\ pass' = None
             /\ UNCHANGED <<source_state, network, staged, overtaken, faults>>

\* load_thoughts on the way to the thoughts
ListDone(k) ==
  /\ pass # None /\ pass.pc = Lists[k]
  /\ pass.written >= MaxRecords \/ pass.cursor[Lists[k]] >= pass.length[Lists[k]]
  /\ IF k < Len(Lists)
     THEN /\ pass' = [pass EXCEPT !.pc = Lists[k + 1],
                                  !.length["thoughts"] = Len(lines["thoughts"])]
          /\ UNCHANGED cursor
     ELSE /\ pass' = None
          /\ cursor' = pass.cursor
  /\ UNCHANGED <<source_state, network, staged, overtaken, faults>>

\* the process dies between two steps
Crash ==
  /\ pass # None /\ faults < MaxFaults
  /\ faults' = faults + 1
  /\ pass' = None
  /\ UNCHANGED <<source_state, cursor, network, staged, overtaken>>

Pass ==
  \/ \E offline \in BOOLEAN : BeginPass(offline)
  \/ Recheck \/ RecheckDone \/ PublishObservation \/ ObservationsDone
  \/ \E k \in DOMAIN Lists : PublishLine(Lists[k]) \/ ListDone(k)
  \/ Crash
---------------------------------------------------------------------------
(* What is published: other commands and the daemon's own cycle.  A pass   *)
(* reads the ledger when it opens it and each list once, and only their    *)
(* ends change, so a step of theirs during a pass has the effect of the    *)
(* same step before or after it.                                           *)

BetweenPasses == pass = None

Room ==
  MaxItems > Len(ledger) + Len(lines.actions) + Len(lines.valence)
               + Len(lines.thoughts) + Len(lines.intents)

published == <<cursor, pass, network, staged, overtaken, faults, moves>>

Observe(s) ==
  /\ BetweenPasses /\ Room
  /\ \A id \in DOMAIN ledger : ledger[id].source # s
  /\ ledger' = Append(ledger, [source |-> s, outcome |-> "pending"])
  /\ UNCHANGED <<lines, published>>

SetOutcome(id) ==
  /\ BetweenPasses
  /\ ledger[id].outcome = "pending"
  /\ ledger' = [ledger EXCEPT ![id].outcome = "learned"]
  /\ UNCHANGED <<lines, published>>

Withdraw(id) ==
  /\ BetweenPasses
  /\ ledger[id].outcome # "withdrawn"
  /\ ledger' = [ledger EXCEPT ![id].outcome = "withdrawn"]
  /\ UNCHANGED <<lines, published>>

\* a line of a list, the n-th ever, at an instant no earlier than the one before;
\* an action's id comes back with each attempt
Record(c, id, at) ==
  LET n == Max({0} \cup {lines[c][i].n : i \in DOMAIN lines[c]}) + 1
  IN /\ BetweenPasses /\ Room /\ n <= MaxLines[c]
     /\ \A i \in DOMAIN lines[c] : lines[c][i].at <= at
     /\ lines' = [lines EXCEPT ![c] = Append(@, [id |-> id, at |-> at, n |-> n])]
     /\ UNCHANGED <<ledger, published>>
---------------------------------------------------------------------------
(* A new host. *)

RecordsIn(c) == {r \in network : r.in = c}

\* the members of S in the order of their keys
InOrder(S, key) ==
  [i \in 1..Cardinality(S) |->
     CHOOSE x \in S : Cardinality({y \in S : key[y] < key[x]}) = i - 1]

\* reconstruct_state: observations in id order, withdrawn ones and those whose
\* content is gone or changed left out, a source taken once
Replayed(available) ==
  LET usable == {r \in RecordsIn("observations") :
                   r.what.outcome # "withdrawn" /\ r.what.source \in available}
      id == [r \in usable |-> rkey_to_id(r.rkey)]
      fresh == {r \in usable : \A q \in usable :
                                q.what.source = r.what.source => id[r] <= id[q]}
      sorted == InOrder(fresh, id)
  IN [i \in DOMAIN sorted |-> sorted[i].what]

\* the lists come back in the order of the listing, one line per record
ReplayedLines(c) ==
  LET place == [r \in RecordsIn(c) |->
                  IF c = "valence" THEN listing_position(r.rkey) ELSE r.what.id]
      sorted == InOrder(RecordsIn(c), place)
  IN [i \in DOMAIN sorted |-> sorted[i].what]

\* the host is replaced by one built from the network, with no cursor of its own
Reconstruct(available) ==
  /\ moves < MaxMoves /\ pass = None
  /\ moves' = moves + 1
  /\ ledger' = Replayed(available)
  /\ lines' = [c \in Range(Lists) |-> ReplayedLines(c)]
  /\ cursor' = NoCursor /\ staged' = {} /\ overtaken' = {}
  /\ UNCHANGED <<pass, network, faults>>

Init ==
  /\ ledger = <<>>
  /\ lines = [c \in Range(Lists) |-> <<>>]
  /\ cursor = NoCursor /\ pass = None
  /\ network = {} /\ staged = {} /\ overtaken = {}
  /\ faults = 0 /\ moves = 0

Next ==
  \/ Pass
  \/ \E s \in Sources : Observe(s)
  \/ \E id \in DOMAIN ledger : SetOutcome(id) \/ Withdraw(id)
  \/ \E id \in ActionIds : Record("actions", id, 1)
  \/ \E at \in Instants : Record("valence", Len(lines.valence) + 1, at)
  \/ \E c \in {"thoughts", "intents"} : Record(c, Len(lines[c]) + 1, 1)
  \/ \E available \in SUBSET Sources : Reconstruct(available)

Spec == Init /\ [][Next]_vars
---------------------------------------------------------------------------
(* Properties. *)

TypeOK ==
  /\ \A id \in DOMAIN ledger : /\ ledger[id].source \in Sources
                              /\ ledger[id].outcome \in Committed \cup {"pending"}
  /\ cursor.observations \in 1..(Len(ledger) + 1)
  /\ \A k \in DOMAIN Lists : cursor[Lists[k]] \in 0..Len(lines[Lists[k]])

Records == network \cup staged

\* What the durable cursor has passed was written, whatever failed or died, and
\* whichever process took over: every ledger entry behind it has its record
\* (those a pass overtook while they were PENDING excepted), and of every list
\* line behind it the record of its key holds that line or a later one.  Two
\* lines never share a key on the host that wrote them (replicate_drain).
BehindCursorIsWritten ==
  /\ \A id \in 1..(cursor.observations - 1) :
       \/ id \in overtaken
       \/ \E r \in Records : /\ r.in = "observations" /\ r.rkey = observation_rkey(id)
                            /\ r.what.source = ledger[id].source
  /\ \A k \in DOMAIN Lists : \A i \in 1..cursor[Lists[k]] :
       LET c == Lists[k]
       IN \/ c = "valence" /\ moves > 0
          \/ \E r \in Records : /\ r.in = c /\ r.rkey = Rkey(c, i)
                               /\ r.what.id = lines[c][i].id
                               /\ r.what.n >= lines[c][i].n

\* A pass that leaves the observations behind has told its sink of every
\* withdrawal it saw: no entry behind its cursor and inside the window is still
\* recorded there as learned (replicate_drain, steps 1 and 2).
WithdrawalsAreTold ==
  (pass # None /\ pass.pc \in Range(Lists)) =>
    \A id \in 1..(pass.cursor.observations - 1) :
      (id + RecheckWindow >= pass.cursor.observations /\ id <= Len(pass.view)) =>
        (pass.view[id].outcome = "withdrawn" =>
           \A r \in IF pass.offline THEN staged ELSE network :
             (r.in = "observations" /\ r.rkey = observation_rkey(id)) =>
               r.what.outcome = "withdrawn")

\* What was published is what the host holds: nothing behind the cursor is
\* missing and no withdrawal a pass saw is untold (replicate_drain).
PublicationIsTrue == BehindCursorIsWritten /\ WithdrawalsAreTold
=============================================================================
