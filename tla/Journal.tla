------------------------------ MODULE Journal ------------------------------
(***************************************************************************)
(* The action journal and the passes that read it back.  One append-only   *)
(* file holds five kinds of line: an attempted action, an event (a public  *)
(* record that cites an executed action), an intent (a conversation the    *)
(* entity is waiting on), a resolution (how an action's expectation ended) *)
(* and a valence update.  The daemon links events while it perceives,      *)
(* sweeps intents, resolves expectations, proposes and executes; the       *)
(* operator publishes, resolves, maps and rebuilds from the command line.  *)
(* Whether an attempt is admitted is module Outbound's subject: here its   *)
(* outcome is any the journal can record.                                  *)
(***************************************************************************)
EXTENDS Integers, Sequences, FiniteSets

CONSTANTS
  Actions,          \* record keys of the entity's own posts and replies
  Records,          \* other people's public records
  Window,           \* kExpectationWindowSeconds
  RepeatWindow,     \* TextGuardConfig::repeat_window_seconds
  IntentWindow,     \* IntentConfig::window_seconds
  MaxActive,        \* IntentConfig::max_active
  MaxContinuations, \* IntentConfig::max_continuations
  Rules,            \* the operator's rule table, a sequence of rules
  None,
  Skews,            \* how far ahead other people's createdAt may be
  MaxTime, MaxStops, MaxAttempts, \* bounds of the instance
  MaxUnwritten      \* bound: lines of the file that the disk may lack

VARIABLES
  clock,    \* wall clock, epoch seconds
  journal,  \* JournalContents: the complete lines of the file, by kind
  tail,     \* the end of the file: "clean", a "torn" line, or "corrupt" inside
  disk,     \* the part of the journal a power cut leaves: what reached the disk
  repair,   \* the lines a `publish` under way saw in front of a torn end, or None
  root,     \* reply_root frozen in an action's document, None when not proposed
  queue,    \* proposals waiting for execution
  spool,    \* actions with a spool entry
  posted,   \* posted[r]: what r cites and when, None until r is public
  ledger,   \* texts of records committed to the observation ledger
  behind,   \* texts of records behind the durable sync cursor
  daemon,   \* the daemon process
  mapper,   \* a running `journal map`: the model and the action lines it read
  model,    \* valence events in the saved model
  lost,     \* what lines that were cut off after their append had said
  stops

vars == <<clock, journal, tail, disk, repair, root, queue, spool, posted, ledger, behind,
          daemon, mapper, model, lost, stops>>
---------------------------------------------------------------------------
(* Lines. *)

\* "refused" stands for denied and deferred, "unsent" for a transport failure
\* and for offline mode's dry run: both leave a spool entry
Outcomes == {"executed", "refused", "unsent"}
TerminalStates == {"met", "unmet", "expired"}
IntentStates == {"open", "expired", "closed"}

\* the kinds of line parse_line tells apart; any other is a JournalError
Kinds == {"actions", "events", "resolutions", "intents", "valence"}

\* a rule may ask for an outcome, a number of linked events inside a window,
\* and a terminal expectation: parse_rule refuses anything else
ValenceRule ==
  [outcome : Outcomes, min_events : Nat \cup {None}, within : Nat \cup {None},
   expectation : TerminalStates \cup {None}]

parse_rule_table(rules) ==
  /\ rules \in Seq(ValenceRule)
  /\ \A i \in DOMAIN rules : rules[i].min_events # 0 /\ rules[i].within # 0

\* intent_config_from_environment: a missing, malformed or zero value falls
\* back to a positive default
intent_config_from_environment ==
  /\ MaxActive \in Nat \ {0}
  /\ MaxContinuations \in Nat \ {0}
  /\ IntentWindow \in Nat \ {0}

JournalAssumption ==
  /\ parse_rule_table(Rules)
  /\ intent_config_from_environment
  /\ Window \in Nat /\ RepeatWindow \in Nat /\ Skews \subseteq Nat
  /\ MaxUnwritten \in Nat
  /\ None \notin Actions \cup Records \cup Nat \cup TerminalStates

\* an edit gives a record another text, hence another digest
Texts == {1, 2}

ActionLine(a, outcome, expected, at) ==
  [id |-> a, outcome |-> outcome, expectation |-> expected, at |-> at]

EventLine(a, r, via, at) == [action |-> a, uri |-> r, via |-> via, at |-> at]

ResolutionLine(a, state) == [action |-> a, state |-> state]

IntentLine(id, actions, expires, state) ==
  [id |-> id, actions |-> actions, expires |-> expires, state |-> state]

ValenceLine(a, provenance) == [source |-> a, provenance |-> provenance]

Lines(kind) == {journal[kind][i] : i \in DOMAIN journal[kind]}

\* repair_torn_tail: the bytes after the last newline are dropped
repair_torn_tail(t) == IF t = "torn" THEN "clean" ELSE t

Size(j) == Len(j.actions) + Len(j.events) + Len(j.resolutions) + Len(j.intents)
             + Len(j.valence)

\* The line is flushed to the operating system, but only the directory is
\* synchronised: the disk has the file as it is now or as it was before. (It
\* stops mattering with the last stop of the instance.)
WriteBack(earlier) ==
  disk' \in {journal'} \cup {j \in earlier : /\ Size(journal') - Size(j) <= MaxUnwritten
                                            /\ stops < MaxStops}

\* an append to a file that ends inside a line makes one line of both
append_line(kind, line) ==
  /\ LET repaired == repair_torn_tail(tail)
     IN tail' = IF repaired = "torn" THEN "corrupt" ELSE repaired
  /\ journal' = [journal EXCEPT ![kind] = Append(@, line)]
  /\ WriteBack({disk, journal})

\* load_journal: every complete line parses, an unterminated last one is dropped
load_journal == tail # "corrupt"

FileExists == tail # "clean" \/ \E kind \in DOMAIN journal : journal[kind] # <<>>

Executed(a) == {l \in Lines("actions") : l.id = a /\ l.outcome = "executed"}

Said(j) ==
  [actions |-> {l.id : l \in {j.actions[i] : i \in {n \in DOMAIN j.actions :
                                                    j.actions[n].outcome = "executed"}}},
   valence |-> {<<l.source, l.provenance>> : l \in {j.valence[i] : i \in DOMAIN j.valence}}]

ValenceEvents == Said(journal).valence

\* only `kept` is left of the file: what its other lines said is lost
Cut(kept) ==
  lost' = [cut |-> TRUE,
           actions |-> lost.actions \cup Said(journal).actions,
           valence |-> lost.valence \cup (ValenceEvents \ Said(kept).valence)]
---------------------------------------------------------------------------
(* Intents. *)

derive_intent_state(intent, now) ==
  LET over == now > intent.expires
      full == Cardinality(intent.actions) - 1 >= MaxContinuations
  IN CASE intent.state # "open"                     -> intent.state
       [] intent.state = "open" /\ over             -> "expired"
       [] intent.state = "open" /\ ~over /\ full    -> "closed"
       [] OTHER                                     -> "open"

Threads == {l.id : l \in Lines("intents")}

latest_intent(id) ==
  LET at == {i \in DOMAIN journal.intents : journal.intents[i].id = id}
  IN journal.intents[CHOOSE i \in at : \A k \in at : k <= i]

active_intents(now) ==
  {id \in Threads : derive_intent_state(latest_intent(id), now) = "open"}

\* the conversations that record r continues
continuation_intent(r, now) ==
  {id \in active_intents(now) :
     \E e \in Lines("events") : e.uri = r /\ e.action \in latest_intent(id).actions}

\* intents whose effective state is terminal and not yet journaled
Sweepable(now) ==
  {id \in Threads : /\ latest_intent(id).state = "open"
                    /\ derive_intent_state(latest_intent(id), now) # "open"}
---------------------------------------------------------------------------
(* Expectations and rules. *)

\* an answer in time, then one out of it or a conversation that lapsed, then silence
derive_expectation_state(line, now) ==
  LET contact == {e \in Lines("events") : e.action = line.id}
      lapsed  == {i \in Lines("intents") : /\ line.id \in i.actions
                                           /\ derive_intent_state(i, now) = "expired"}
      awaited == line.expectation /\ line.outcome = "executed"
      met     == \E e \in contact : e.at > line.at /\ e.at - line.at <= Window
      unmet   == contact # {} \/ lapsed # {}
      over    == now > line.at + Window
  IN CASE ~awaited                             -> "none"
       [] awaited /\ met                       -> "met"
       [] awaited /\ ~met /\ unmet             -> "unmet"
       [] awaited /\ ~met /\ ~unmet /\ over    -> "expired"
       [] OTHER                                -> "pending"

\* Mutation: recorded states are not looked up before another is written.
Unresolved_again(now) ==
  {ResolutionLine(l.id, derive_expectation_state(l, now)) :
     l \in {x \in Lines("actions") : derive_expectation_state(x, now) \in TerminalStates}}

\* resolution lines the pass has still to append: terminal and never recorded
Unresolved(now) ==
  {ResolutionLine(l.id, derive_expectation_state(l, now)) :
     l \in {x \in Lines("actions") :
              /\ derive_expectation_state(x, now) \in TerminalStates
              /\ \A p \in Lines("resolutions") :
                   p.action = x.id => p.state # derive_expectation_state(x, now)}}

rule_matches(rule, line, now) ==
  /\ rule.outcome = line.outcome
  /\ LET counted == {e \in Lines("events") :
                       /\ e.action = line.id
                       /\ rule.within # None =>
                            e.at >= line.at /\ e.at - line.at <= rule.within}
     IN rule.min_events = None \/ Cardinality(counted) >= rule.min_events
  /\ rule.expectation # None => derive_expectation_state(line, now) = rule.expectation

\* the position of the first matching rule, 0 when none matches
first_matching_rule(line, now) ==
  LET hits == {i \in DOMAIN Rules : rule_matches(Rules[i], line, now)}
  IN IF hits = {} THEN 0 ELSE CHOOSE i \in hits : \A k \in hits : i <= k
---------------------------------------------------------------------------
(* The daemon: perception and linkage. *)

Down == [pc |-> "down", linker |-> FALSE, actions |-> {}, events |-> {},
         page |-> None, left |-> {}, act |-> None]

\* run_daemon_command: make_journal_linker reads the journal once; no journal
\* file, no linker for the life of the process
Start ==
  /\ daemon.pc = "down" /\ mapper = None
  /\ load_journal
  /\ daemon' = [Down EXCEPT !.pc = "perceive",
                            !.linker = FileExists,
                            !.actions = {l.id : l \in {x \in Lines("actions") : x.outcome = "executed"}},
                            !.events = {<<e.action, e.uri>> : e \in Lines("events")}]
  /\ UNCHANGED <<clock, journal, tail, disk, repair, root, queue, spool, posted, ledger,
                 behind, mapper, model, lost, stops>>

\* the action a field cites, as far as the linker's copy of the journal knows
journal_find_action_by_uri(uri) == IF uri \in daemon.actions THEN uri ELSE None

\* Mutation: the duplicate check left out.
journal_has_event_never(a, r) == FALSE

journal_has_event(a, r) == <<a, r>> \in daemon.events

\* link_observation: parent, then root, then quote; the first field that cites
\* a known action decides, whether it links or is a duplicate
link_observation(r) ==
  LET cited == [via \in {"parent", "root", "quote"} |->
                  journal_find_action_by_uri(posted[r][via])]
      via == CASE cited["parent"] # None                         -> "parent"
               [] cited["parent"] = None /\ cited["root"] # None -> "root"
               [] OTHER                                          -> "quote"
      a == cited[via]
  IN IF ~daemon.linker \/ a = None \/ journal_has_event(a, r)
     THEN /\ daemon' = [daemon EXCEPT !.pc = "checkpoint"]
          /\ UNCHANGED <<journal, tail, disk>>
     ELSE /\ append_line("events", EventLine(a, r, via, posted[r].at))
          /\ daemon' = [daemon EXCEPT !.pc = "checkpoint", !.events = @ \cup {<<a, r>>}]

\* one observation of the page: the ledger takes each text of a record once and
\* only a fresh one goes on to the linker
process_observation(r) ==
  /\ daemon.pc = "perceive" /\ daemon.page = None
  /\ posted[r] # None /\ <<r, posted[r].text>> \notin behind
  /\ daemon' = [daemon EXCEPT !.page = r,
                   !.pc = IF <<r, posted[r].text>> \in ledger THEN "checkpoint" ELSE "link"]
  /\ ledger' = ledger \cup {<<r, posted[r].text>>}
  /\ UNCHANGED <<clock, journal, tail, disk, repair, root, queue, spool, posted, behind,
                 mapper, model, lost, stops>>

Link ==
  /\ daemon.pc = "link"
  /\ link_observation(daemon.page)
  /\ UNCHANGED <<clock, repair, root, queue, spool, posted, ledger, behind, mapper, model,
                 lost, stops>>

\* the page checkpoint moves the cursor past the record
Checkpoint ==
  /\ daemon.pc = "checkpoint"
  /\ behind' = behind \cup {<<daemon.page, posted[daemon.page].text>>}
  /\ daemon' = [daemon EXCEPT !.page = None, !.pc = "perceive"]
  /\ UNCHANGED <<clock, journal, tail, disk, repair, root, queue, spool, posted, ledger,
                 mapper, model, lost, stops>>

\* the cycle drains what is spooled before it sweeps
WithLeft(entries) ==
  [daemon EXCEPT !.left = entries, !.pc = IF entries = {} THEN "sweep" ELSE "drain"]

\* offline mode leaves the spool alone
BeginCycle ==
  /\ daemon.pc = "perceive" /\ daemon.page = None
  /\ load_journal
  /\ daemon' \in {WithLeft(spool), WithLeft({})}
  /\ UNCHANGED <<clock, journal, tail, disk, repair, root, queue, spool, posted, ledger,
                 behind, mapper, model, lost, stops>>
---------------------------------------------------------------------------
(* The daemon: one scheduler cycle.                                        *)

Goto(from, to) ==
  /\ daemon.pc = from
  /\ daemon' = [daemon EXCEPT !.pc = to]
  /\ UNCHANGED <<clock, journal, tail, disk, repair, root, queue, spool, posted, ledger,
                 behind, mapper, model, lost, stops>>

Attempts == Len(journal.actions) < MaxAttempts

\* A cycle, and a mapping, reads the clock once, and neither reads the network: the
\* clock and other people move between them, and `publish` between cycles.
BetweenCycles == daemon.pc \in {"down", "perceive"}

\* an operator's document has no plan score, hence no expectation
Scored(a) == \A l \in Lines("actions") : l.id = a => l.expectation

\* spool_drain: each entry of the listing is attempted again, without the text
\* guard. What is published leaves the spool, and what is denied; what is
\* deferred or run dry stays, and a transport failure ends the drain.
Drain(a, outcome) ==
  /\ daemon.pc = "drain" /\ a \in daemon.left /\ Attempts
  /\ append_line("actions", ActionLine(a, outcome, Scored(a), clock))
  /\ spool' \in CASE outcome = "executed" -> {spool \ {a}}
                  [] outcome = "refused"  -> {spool, spool \ {a}}
                  [] outcome = "unsent"   -> {spool}
  /\ daemon' \in {WithLeft(daemon.left \ {a})}
                  \cup (IF outcome = "unsent" THEN {WithLeft({})} ELSE {})
  /\ UNCHANGED <<clock, repair, root, queue, posted, ledger, behind, mapper, model, lost,
                 stops>>

\* sweep_intents: one terminal line per intent that ended
Sweep(id) ==
  /\ daemon.pc = "sweep" /\ id \in Sweepable(clock)
  /\ LET l == latest_intent(id)
     IN append_line("intents", IntentLine(id, l.actions, l.expires,
                                 derive_intent_state(l, clock)))
  /\ UNCHANGED <<clock, repair, root, queue, spool, posted, ledger, behind, daemon, mapper,
                 model, lost, stops>>

\* resolve_expectations: one line per newly terminal expectation
Resolve(line) ==
  /\ daemon.pc = "resolve" /\ line \in Unresolved(clock)
  /\ append_line("resolutions", line)
  /\ UNCHANGED <<clock, repair, root, queue, spool, posted, ledger, behind, daemon, mapper,
                 model, lost, stops>>

\* a decision is frozen: a reply when the record continues an open intent
ProposePost(a) ==
  /\ daemon.pc = "decide" /\ root[a] = None
  /\ root' = [root EXCEPT ![a] = a]
  /\ queue' = queue \cup {a}
  /\ daemon' = [daemon EXCEPT !.pc = "execute"]
  /\ UNCHANGED <<clock, journal, tail, disk, repair, spool, posted, ledger, behind, mapper,
                 model, lost, stops>>

ProposeReply(a, r) ==
  /\ daemon.pc = "decide" /\ root[a] = None
  /\ \E text \in Texts : <<r, text>> \in behind
  /\ \E id \in continuation_intent(r, clock) :
       root' = [root EXCEPT ![a] = id]
  /\ queue' = queue \cup {a}
  /\ daemon' = [daemon EXCEPT !.pc = "execute"]
  /\ UNCHANGED <<clock, journal, tail, disk, repair, spool, posted, ledger, behind, mapper,
                 model, lost, stops>>

\* check_output_text: the words were not published inside the repeat window
repeats(a, now) == \E l \in Executed(a) : now - l.at <= RepeatWindow

\* attempt_outbound_action: the attempt ends in one journal line; a transport
\* failure and offline mode leave a spool entry. It runs under the outbound lock.
Execute(a, outcome) ==
  /\ daemon.pc = "execute" /\ a \in queue /\ Attempts /\ repair = None
  /\ ~repeats(a, clock)
  /\ append_line("actions", ActionLine(a, outcome, TRUE, clock))
  /\ spool' = IF outcome = "unsent" THEN spool \cup {a} ELSE spool
  /\ daemon' = [daemon EXCEPT !.pc = IF outcome = "executed" THEN "record" ELSE "perceive",
                              !.act = IF outcome = "executed" THEN a ELSE None]
  /\ UNCHANGED <<clock, repair, root, queue, posted, ledger, behind, mapper, model, lost,
                 stops>>

\* Mutation: no cap, and a fresh window with each continuation.
RecordIntent_no_cap ==
  LET a   == daemon.act
      id  == root[a]
      now == clock
  IN /\ daemon.pc = "record"
     /\ IF id \in active_intents(now)
        THEN append_line("intents", IntentLine(id, latest_intent(id).actions \cup {a},
                                       now + IntentWindow, "open"))
        ELSE append_line("intents", IntentLine(id, {a}, now + IntentWindow, "open"))
     /\ queue' = queue \ {a}
     /\ daemon' = [daemon EXCEPT !.pc = "perceive", !.act = None]
     /\ UNCHANGED <<clock, repair, root, spool, posted, ledger, behind, mapper, model, lost,
                    stops>>

\* record_pending_intent: continue the open intent of the thread, or open one
\* below the cap; then the proposal file is removed
RecordIntent ==
  LET a   == daemon.act
      id  == root[a]
      now == clock
      continues == id \in active_intents(now)
  IN /\ daemon.pc = "record"
     /\ IF continues
        THEN IF a \in latest_intent(id).actions
             THEN UNCHANGED <<journal, tail, disk>>
             ELSE append_line("intents", IntentLine(id, latest_intent(id).actions \cup {a},
                                            latest_intent(id).expires, "open"))
        ELSE IF Cardinality(active_intents(now)) >= MaxActive
             THEN UNCHANGED <<journal, tail, disk>>
             ELSE append_line("intents", IntentLine(id, {a}, now + IntentWindow, "open"))
     /\ queue' = queue \ {a}
     /\ daemon' = [daemon EXCEPT !.pc = "perceive", !.act = None]
     /\ UNCHANGED <<clock, repair, root, spool, posted, ledger, behind, mapper, model, lost,
                    stops>>

Cycle ==
  \/ BeginCycle
  \/ \E a \in Actions, outcome \in Outcomes : Drain(a, outcome) \/ Execute(a, outcome)
  \/ ~Attempts /\ Goto("drain", "sweep")
  \/ daemon.pc = "sweep" /\ \E id \in Threads : Sweep(id)
  \/ Goto("sweep", "resolve") /\ Sweepable(clock) = {}
  \/ daemon.pc = "resolve" /\ \E line \in Unresolved(clock) : Resolve(line)
  \/ Goto("resolve", "decide") /\ Unresolved(clock) = {}
  \/ \E a \in Actions : ProposePost(a) \/ \E r \in Records : ProposeReply(a, r)
  \/ Goto("decide", "execute")
  \/ RecordIntent
  \/ Goto("execute", "perceive")
---------------------------------------------------------------------------
(* The operator. *)

\* `publish` holds the outbound lock only, so the repair it starts its append
\* with may meet appends under the writer lock: it reads where the last complete
\* line ends, and truncates the file there later
ReadTail ==
  /\ BetweenCycles /\ repair = None /\ tail = "torn" /\ Attempts
  /\ repair' = journal
  /\ UNCHANGED <<clock, journal, tail, disk, root, queue, spool, posted, ledger, behind,
                 daemon, mapper, model, lost, stops>>

\* its line comes after what it saw, and what others appended meanwhile is gone
PublishRepaired(line) ==
  /\ repair # None
  /\ journal' = [repair EXCEPT !.actions = Append(@, line)]
  /\ tail' = "clean"
  /\ WriteBack({disk, repair})
  /\ repair' = None
  /\ IF journal = repair THEN lost' = lost ELSE Cut(journal')

\* the other way about: a writer that saw the torn end truncates it after the
\* line of `publish` was appended
PublishOverrun(line) ==
  /\ repair = None /\ tail = "torn" /\ (daemon.pc # "down" \/ mapper # None)
  /\ tail' = "clean"
  /\ lost' = [lost EXCEPT !.cut = TRUE,
                          !.actions = @ \cup (IF line.outcome = "executed" THEN {line.id} ELSE {})]
  /\ UNCHANGED <<journal, disk, repair>>

\* an operator's own document
Publish(a, outcome) ==
  /\ BetweenCycles /\ root[a] = None /\ Attempts
  /\ LET line == ActionLine(a, outcome, FALSE, clock)
     IN \/ repair = None /\ append_line("actions", line) /\ UNCHANGED <<repair, lost>>
        \/ PublishRepaired(line)
        \/ PublishOverrun(line)
  /\ spool' = IF outcome = "unsent" THEN spool \cup {a} ELSE spool
  /\ root' = [root EXCEPT ![a] = a]
  /\ UNCHANGED <<clock, queue, posted, ledger, behind, daemon, mapper, model, stops>>

\* `journal resolve`, under the writer lock
ResolveCommand(line) ==
  /\ daemon.pc = "down" /\ mapper = None /\ load_journal
  /\ line \in Unresolved(clock)
  /\ append_line("resolutions", line)
  /\ UNCHANGED <<clock, repair, root, queue, spool, posted, ledger, behind, daemon, mapper,
                 model, lost, stops>>

\* `journal map`: the graph moves in memory, a line is journaled per update,
\* the model is saved once at the end
MapBegin ==
  /\ daemon.pc = "down" /\ mapper = None /\ load_journal
  /\ mapper' = [learned |-> model, lines |-> Lines("actions"), applied |-> ValenceEvents]
  /\ UNCHANGED <<clock, journal, tail, disk, repair, root, queue, spool, posted, ledger,
                 behind, daemon, model, lost, stops>>

\* Mutation: `journal map` saving before it journals.
MapUpdate_saves_first(line) ==
  LET rule == first_matching_rule(line, clock)
  IN /\ mapper # None /\ line \in mapper.lines
     /\ rule # 0
     /\ <<line.id, rule>> \notin mapper.applied
     /\ mapper' = [mapper EXCEPT !.learned = @ \cup {<<line.id, rule>>},
                                !.applied = @ \cup {<<line.id, rule>>}]
     /\ model' = mapper'.learned
     /\ UNCHANGED <<clock, journal, tail, disk, repair, root, queue, spool, posted, ledger,
                    behind, daemon, lost, stops>>

MapUpdate(line) ==
  LET rule == first_matching_rule(line, clock)
  IN /\ mapper # None /\ line \in mapper.lines
     /\ rule # 0
     /\ <<line.id, rule>> \notin mapper.applied
     /\ mapper' = [mapper EXCEPT !.learned = @ \cup {<<line.id, rule>>},
                                !.applied = @ \cup {<<line.id, rule>>}]
     /\ append_line("valence", ValenceLine(line.id, rule))
     /\ UNCHANGED <<clock, repair, root, queue, spool, posted, ledger, behind, daemon,
                    model, lost, stops>>

MapSave ==
  /\ mapper # None
  /\ model' = mapper.learned
  /\ mapper' = None
  /\ UNCHANGED <<clock, journal, tail, disk, repair, root, queue, spool, posted, ledger,
                 behind, daemon, lost, stops>>

\* `rebuild`: the model is made again from the ledger and the valence lines
Rebuild ==
  /\ daemon.pc = "down" /\ mapper = None /\ load_journal
  /\ model' = ValenceEvents
  /\ UNCHANGED <<clock, journal, tail, disk, repair, root, queue, spool, posted, ledger,
                 behind, daemon, mapper, lost, stops>>

Command ==
  \/ ReadTail
  \/ \E a \in Actions, outcome \in Outcomes : Publish(a, outcome)
  \/ daemon.pc = "down" /\ \E line \in Unresolved(clock) : ResolveCommand(line)
  \/ MapBegin
  \/ mapper # None /\ \E line \in mapper.lines : MapUpdate(line)
  \/ MapSave
  \/ Rebuild
---------------------------------------------------------------------------
(* The world. *)

\* someone replies in a thread of ours, or quotes us, under a time of their own
Post(r, a, at) ==
  /\ BetweenCycles /\ mapper = None /\ posted[r] = None
  /\ Executed(a) # {} \/ a \in lost.actions
  /\ \E ctx \in {[parent |-> a, root |-> root[a], quote |-> None, at |-> at, text |-> 1],
                 [parent |-> None, root |-> root[a], quote |-> a, at |-> at, text |-> 1]} :
       posted' = [posted EXCEPT ![r] = ctx]
  /\ UNCHANGED <<clock, journal, tail, disk, repair, root, queue, spool, ledger, behind,
                 daemon, mapper, model, lost, stops>>

\* its author edits it: the same record with another text (before the first is
\* committed an edit makes no difference)
Edit(r) ==
  /\ BetweenCycles /\ mapper = None /\ posted[r] # None /\ posted[r].text = 1 /\ <<r, 1>> \in ledger
  /\ posted' = [posted EXCEPT ![r].text = 2]
  /\ UNCHANGED <<clock, journal, tail, disk, repair, root, queue, spool, ledger, behind,
                 daemon, mapper, model, lost, stops>>

Tick ==
  /\ BetweenCycles /\ mapper = None /\ clock < MaxTime
  /\ clock' = clock + 1
  /\ UNCHANGED <<journal, tail, disk, repair, root, queue, spool, posted, ledger, behind,
                 daemon, mapper, model, lost, stops>>

\* a process ends, at rest or killed; a line being appended may lack its end
Stop ==
  /\ stops < MaxStops
  /\ daemon.pc # "down" \/ mapper # None
  /\ tail' \in {tail, IF tail = "clean" THEN "torn" ELSE tail}
  /\ repair' \in {repair, None}
  /\ daemon' = Down
  /\ mapper' = None
  /\ stops' = stops + 1
  /\ disk' = IF stops' < MaxStops THEN disk ELSE journal
  /\ UNCHANGED <<clock, journal, root, queue, spool, posted, ledger, behind, model, lost>>

\* the host goes down, and whole lines that the disk has not got go with it
PowerCut ==
  /\ stops < MaxStops /\ disk # journal
  /\ journal' = disk /\ Cut(disk)
  /\ tail' \in {tail, "clean"}
  /\ repair' = None /\ daemon' = Down /\ mapper' = None
  /\ stops' = stops + 1
  /\ UNCHANGED <<clock, disk, root, queue, spool, posted, ledger, behind, model>>

World ==
  \/ \E r \in Records, a \in Actions, skew \in Skews : Post(r, a, clock + skew)
  \/ \E r \in Records : Edit(r)
  \/ Tick
  \/ Stop
  \/ PowerCut

Init ==
  /\ clock = 1
  /\ journal = [kind \in Kinds |-> <<>>]
  /\ tail = "clean" /\ disk = journal /\ repair = None
  /\ root = [a \in Actions |-> None] /\ queue = {} /\ spool = {}
  /\ posted = [r \in Records |-> None] /\ ledger = {} /\ behind = {}
  /\ daemon = Down /\ mapper = None /\ model = {} /\ stops = 0
  /\ lost = [cut |-> FALSE, actions |-> {}, valence |-> {}]

Next ==
  \/ Start
  \/ \E r \in Records : process_observation(r)
  \/ Link
  \/ Checkpoint
  \/ Cycle
  \/ Command
  \/ World

Spec == Init /\ [][Next]_vars
---------------------------------------------------------------------------
(* Properties. *)

TypeOK ==
  /\ clock \in 1..MaxTime
  /\ tail \in {"clean", "torn", "corrupt"}
  /\ \A l \in Lines("actions") : l.id \in Actions /\ l.outcome \in Outcomes
  /\ \A l \in Lines("resolutions") : l.action \in Actions /\ l.state \in TerminalStates
  /\ \A l \in Lines("intents") : l.id \in Actions /\ l.state \in IntentStates
  /\ queue \subseteq Actions /\ spool \subseteq Actions /\ behind \subseteq ledger

\* The journal can always be read back: a process stopped inside an append, a
\* power cut, a `publish` and a writer that repair the same torn end, never leave
\* a complete line that does not parse, so no load, and with it no daemon start,
\* fails for good (append_line, repair_torn_tail, load_journal).
JournalLoads == load_journal

\* A record is linked to the action it cites once, however often a restarted
\* sync delivers it again and its author edits it, and only after that action's
\* executed line, which only a cut can take away from under the linker's copy
\* (process_observation, link_observation, journal_has_event).
EventsLinkOnce ==
  \A i \in DOMAIN journal.events :
    /\ Executed(journal.events[i].action) # {} \/ lost.cut
    /\ \A k \in DOMAIN journal.events :
         /\ journal.events[k].uri = journal.events[i].uri
         /\ journal.events[k].action = journal.events[i].action
         => k = i

Rank == [expired |-> 1, unmet |-> 2, met |-> 3]

\* The recorded fate of an action's expectation only ever improves: expired may
\* become unmet when a late answer is linked, unmet may become met, and no pass
\* by the daemon or the command line takes an answer back or repeats itself.
\* Stated for actions that were executed once; a second executed line (a spool
\* copy drained and its proposal run again) is judged by its own instant.
ResolutionsOnlyImprove ==
  \A i, k \in DOMAIN journal.resolutions :
    LET early == journal.resolutions[i]
        late  == journal.resolutions[k]
    IN (i < k /\ early.action = late.action
         /\ Cardinality({n \in DOMAIN journal.actions :
                           /\ journal.actions[n].id = early.action
                           /\ journal.actions[n].outcome = "executed"}) = 1)
       => Rank[early.state] < Rank[late.state]

\* The saved model holds no valence update that the journal cannot give back to
\* a rebuild: a crash between the two writes of `journal map` loses the model's
\* update, never the line (run_map). The exception is a line that was cut off after
\* its append: by a power cut, for the file itself is never synchronised, or by
\* the repair of a `publish` that runs beside the command.
ValenceIsReplayable == model \subseteq ValenceEvents \cup lost.valence

\* The journal gives back what it was given: it parses after any interrupted
\* append, power cut or concurrent repair, and what `journal map` taught the model
\* is in it, but for lines that were cut off (JournalLoads, ValenceIsReplayable).
\* store.cpp:69-70 and docs/action-journal.md:9 promise that no line is: the code
\* does not synchronise the file (store.cpp:80-86).
JournalRestores == JournalLoads /\ ValenceIsReplayable

\* two lines of one thread with none of it in between
Successive(i, k) ==
  /\ i < k /\ journal.intents[i].id = journal.intents[k].id
  /\ \A n \in DOMAIN journal.intents :
       i < n /\ n < k => journal.intents[n].id # journal.intents[k].id

\* Conversations stay bounded: the intents still open never outnumber the cap, and
\* a conversation whose end is recorded is never taken up again nor its window ever
\* moved: what is executed in its thread afterwards is the first action of a new
\* conversation (record_pending_intent, derive_intent_state). That new one has a
\* budget of its own (mutate.cpp:56-72), so a thread as a whole has none, against
\* docs/action-journal.md:178-180, sweep.hpp:18-19 and config.hpp:31-32.
ConversationsAreBounded ==
  /\ Cardinality(active_intents(clock)) <= MaxActive
  /\ \A i, k \in DOMAIN journal.intents :
       Successive(i, k)
         /\ (\/ journal.intents[i].state # "open"
             \/ journal.intents[i].expires # journal.intents[k].expires)
       => Cardinality(journal.intents[k].actions) = 1
=============================================================================
