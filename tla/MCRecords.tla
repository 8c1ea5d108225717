----------------------------- MODULE MCRecords -----------------------------
(***************************************************************************)
(* Records and Platform for TLC: a behaviour is one component's of either. *)
(* One set of two values stands for the actions, sources, topics,          *)
(* processes and texts.                                                    *)
(***************************************************************************)
EXTENDS Records, Platform, TLC

\* an operator's rules: reward contact, discount silence
TheRules ==
  << [outcome |-> "executed", min_events |-> 1, within |-> 2, expectation |-> None],
     [outcome |-> "executed", min_events |-> None, within |-> None,
      expectation |-> "expired"] >>

\* lines a list may have
TheLines == [actions |-> 1, valence |-> 2, thoughts |-> 1, intents |-> 1]

\* a roomy host, one whose disk is nearly full, a small container with a full
\* disk, and a container at its limit
HostOf(memory, others, model, ledger, cpus) ==
  [memory |-> memory, others |-> others, files |-> [model |-> model, ledger |-> ledger],
   cpus |-> cpus]

TheHosts == {HostOf(40, 0, 0, 0, 2), HostOf(40, 14, 0, 30, 1), HostOf(16, 11, 24, 0, 1),
             HostOf(16, 16, 0, 0, 2)}

Automatic == [memory |-> Nil, reserve |-> Nil, nodes |-> Nil, page |-> Nil, class |-> Nil]

TheOverrides ==
  {Automatic, [Automatic EXCEPT !.memory = 6], [Automatic EXCEPT !.reserve = 8, !.class = 2],
   [Automatic EXCEPT !.nodes = 3], [Automatic EXCEPT !.page = 3, !.class = 2]}

TheClasses == << [parameters |-> 1, node |-> 1, budget |-> 0, cpus |-> 0],
                 [parameters |-> 3, node |-> 2, budget |-> 2, cpus |-> 2] >>

\* what one observation may add
TheGrowths == {[nodes |-> 0, edges |-> 0], [nodes |-> 1, edges |-> 1],
               [nodes |-> 0, edges |-> 3]}

\* The two values are interchangeable.
Symmetric == Permutations(Actions)
---------------------------------------------------------------------------
RunInit ==
  \/ Init /\ PlatformIdle
  \/ PlatformInit /\ RecordsIdle

RunNext ==
  \/ Next /\ UNCHANGED platform_vars
  \/ PlatformNext /\ UNCHANGED records_vars

RunSpec == RunInit /\ [][RunNext]_<<records_vars, platform_vars>>
=============================================================================
