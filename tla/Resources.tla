----------------------------- MODULE Resources -----------------------------
(***************************************************************************)
(* The resource budget: what a command measures of its host before it      *)
(* works, the reserve it leaves to others, the ceilings it gives the graph *)
(* and the page it asks for, and the checks before a model is loaded,      *)
(* created or expanded.  The host changes at any moment, between a         *)
(* measurement and its use too, and a measurement of zero means `unknown'. *)
(*                                                                         *)
(* Sizes are small numbers of one unit.  A node and an edge cost what the  *)
(* code reserves for them, which is above what they really take.  How many *)
(* pages a traversal has is Ingestion's.                                   *)
(***************************************************************************)
EXTENDS Integers, Sequences, FiniteSets, FiniteSetsExt

CONSTANTS
  Hosts,             \* the states of the host: memory limit, memory and disk used by others, cpus
  Overrides,         \* the settings of the environment: memory, reserve, nodes (edges are
                     \* alike), page, class
  Classes,           \* the neural capacity classes, the smallest first
  Disk,              \* capacity of each filesystem
  MemoryFloor, MemoryCap, DiskFloor, DiskCap,     \* of the automatic reserves
  EdgeBytes,         \* of one edge
  ObservationBytes,  \* the most one observation writes
  WriteMinimum,      \* a smaller write budget is disk pressure
  GrowthMinimum,     \* a smaller growth budget is memory pressure
  PageStep,          \* growth budget per item of a page, and of a batch
  PagePerCpu, MaxPage, PressurePage,
  Growths,           \* the [nodes, edges] one observation may add
  MaxWritten,        \* bound: bytes in the ledger
  MaxNodes, MaxEdges,   \* bounds: size of the graph
  None

VARIABLES
  host,      \* the host as it is now
  override,  \* the environment of every command
  written,   \* bytes of the ledger file
  saved,     \* the model file, or None
  proc,      \* the command that runs, or None
  calm       \* history: the host is as it was measured last

vars == <<host, override, written, saved, proc, calm>>

Filesystems == {"model", "ledger"}

\* Sizes are counted from zero, costs are not zero, and a write that may be made
\* outside disk pressure is at least one observation's.
ResourcesAssumption ==
  /\ Hosts \subseteq [memory : Nat, others : Nat, cpus : Nat, files : [Filesystems -> Nat]]
  /\ Overrides \subseteq [memory : Nat \cup {None}, reserve : Nat \cup {None},
                          nodes : Nat \cup {None}, page : Nat \cup {None},
                          class : DOMAIN Classes \cup {None}]
  /\ Classes \in Seq([parameters : Nat, node : Nat \ {0}, budget : Nat, cpus : Nat])
  /\ Classes # <<>> /\ None \notin DOMAIN Classes
  /\ {Disk, MemoryFloor, MemoryCap, DiskFloor, DiskCap, WriteMinimum} \subseteq Nat
  /\ {EdgeBytes, ObservationBytes, PageStep, PagePerCpu, MaxPage, PressurePage}
       \subseteq Nat \ {0}
  /\ ObservationBytes <= WriteMinimum
  /\ Growths \subseteq [nodes : Nat, edges : Nat]

SmallerOf(a, b) == Min({a, b})
LargerOf(a, b)  == Max({a, b})
Clamp(x, low, high) == SmallerOf(high, LargerOf(low, x))

subtract_floor(value, amount) == IF value > amount THEN value - amount ELSE 0
---------------------------------------------------------------------------
(* What is in use. *)

neural_memory_footprint(class, nodes, edges) ==
  Classes[class].parameters + nodes * Classes[class].node + edges * EdgeBytes

\* the network, its replacement while an expansion holds both, and the graph
Held ==
  IF proc = None \/ proc.class = None THEN 0
  ELSE neural_memory_footprint(proc.class, proc.nodes, proc.edges) + proc.extra

\* linux_memory and apply_linux_cgroups: a container at or above its limit
\* measures zero
Available == subtract_floor(host.memory, host.others + Held)

SnapshotBytes(m) == neural_memory_footprint(m.class, m.nodes, m.edges)

Free(f) ==
  subtract_floor(Disk, host.files[f] + IF f = "ledger" THEN written
                                       ELSE IF saved = None THEN 0 ELSE SnapshotBytes(saved))
---------------------------------------------------------------------------
(* derive_resource_budget. *)

automatic_memory_reserve(total) ==
  SmallerOf(MemoryCap, LargerOf(SmallerOf(MemoryFloor, total \div 4), total \div 8))

automatic_disk_reserve ==
  SmallerOf(DiskCap, LargerOf(SmallerOf(DiskFloor, Disk \div 4), Disk \div 20))

disk_reserve == IF override.reserve = None THEN automatic_disk_reserve ELSE override.reserve

memory_headroom == subtract_floor(Available, automatic_memory_reserve(host.memory))

\* the overrides that are refused
Accepted ==
  /\ override.memory # None /\ Available # 0 => override.memory <= memory_headroom
  /\ disk_reserve <= Disk

memory_growth_budget ==
  IF override.memory # None THEN override.memory
  ELSE SmallerOf(host.memory \div 4, memory_headroom \div 2)

memory_pressure == memory_headroom = 0 \/ memory_growth_budget < GrowthMinimum

\* the tightest filesystem counts
disk_write_budget == Min({subtract_floor(Free(f), disk_reserve) \div 2 : f \in Filesystems})

automatic_capacity_class ==
  Max({k \in DOMAIN Classes : k = 1 \/ /\ memory_growth_budget \div 4 >= Classes[k].budget
                                        /\ host.cpus >= Classes[k].cpus})

\* neural_recommendation with a forced class
recommended == IF override.class # None THEN override.class ELSE automatic_capacity_class

automatic_sync_page_size ==
  Min({Clamp(host.cpus * PagePerCpu, 1, MaxPage),
       Clamp(1 + memory_growth_budget \div PageStep, 1, MaxPage),
       Clamp(disk_write_budget \div ObservationBytes, 1, MaxPage)})

\* derive_neural_runtime_policy
observation_work_batch ==
  LET workspace == SmallerOf(memory_growth_budget,
                             IF Available = 0 THEN memory_growth_budget
                             ELSE memory_headroom) \div 4
      batch     == SmallerOf(Clamp(host.cpus * PagePerCpu, 1, MaxPage),
                             Clamp(workspace \div PageStep, 1, MaxPage))
  IN IF memory_pressure THEN SmallerOf(batch, PressurePage) ELSE batch

\* Mutation: no growth left is a ceiling of zero.
ceiling_zero(count, budget, cost) == count + budget \div cost

\* never zero, which is no ceiling to the graph
ceiling(count, budget, cost) == LargerOf(1, count + budget \div cost)

node_budget == (memory_growth_budget * 3) \div 10

\* what one measurement tells, for a graph of this size and class
inspect_runtime_resources(nodes, edges, class) ==
  [available |-> Available,
   headroom  |-> memory_headroom,
   class     |-> recommended,
   max_nodes |-> IF override.nodes # None THEN LargerOf(nodes, override.nodes)
                 ELSE ceiling(nodes, node_budget, Classes[class].node),
   max_edges |-> ceiling(edges, memory_growth_budget - node_budget, EdgeBytes),
   pressure  |-> disk_write_budget < WriteMinimum,
   page      |-> SmallerOf(IF override.page # None THEN override.page
                           ELSE automatic_sync_page_size, observation_work_batch)]
---------------------------------------------------------------------------
(* The checks before a load. *)

\* require_runtime_snapshot_headroom
SnapshotFits(s, m) == s.available = 0 \/ 2 * SnapshotBytes(m) <= s.headroom

\* require_runtime_neural_headroom
NeuralFits(s, class, nodes, edges) ==
  s.available = 0 \/ neural_memory_footprint(class, nodes, edges) <= s.headroom

Ends == proc' = None

Model == [class |-> proc.class, nodes |-> proc.nodes, edges |-> proc.edges]

\* main: the measurement every command begins with, without a graph
Begin(command) ==
  /\ proc = None /\ Accepted
  /\ proc' = [command |-> command, pc |-> "load", class |-> None, nodes |-> 0, edges |-> 0,
              extra |-> 0, items |-> 0,
              status |-> inspect_runtime_resources(0, 0, recommended)]
  /\ calm' = TRUE
  /\ UNCHANGED <<host, override, written, saved>>

\* load_or_create_graph with a model file.  What the file holds is in memory
\* before the last check.
Load ==
  /\ proc # None /\ proc.pc = "load" /\ saved # None
  /\ proc.command = "expand" => ~proc.status.pressure
  /\ SnapshotFits(proc.status, saved) /\ NeuralFits(proc.status, saved.class, 0, 0)
  /\ IF proc.command = "expand" \/ NeuralFits(proc.status, saved.class, saved.nodes, saved.edges)
     THEN proc' = [proc EXCEPT !.pc = "refresh", !.class = saved.class, !.nodes = saved.nodes,
                               !.edges = saved.edges]
     ELSE Ends
  /\ UNCHANGED <<host, override, written, saved, calm>>

\* load_or_create_graph without one: the class is the recommended one for good
Create ==
  /\ proc # None /\ proc.pc = "load" /\ saved = None /\ proc.command = "sync"
  /\ NeuralFits(proc.status, proc.status.class, 0, 0)
  /\ proc' = [proc EXCEPT !.pc = "refresh", !.class = proc.status.class]
  /\ UNCHANGED <<host, override, written, saved, calm>>

LoadRefused ==
  /\ proc # None /\ proc.pc = "load"
  /\ IF saved = None
     THEN proc.command = "sync" => ~NeuralFits(proc.status, proc.status.class, 0, 0)
     ELSE \/ proc.command = "expand" /\ proc.status.pressure
          \/ ~SnapshotFits(proc.status, saved)
          \/ ~NeuralFits(proc.status, saved.class, 0, 0)
  /\ Ends
  /\ UNCHANGED <<host, override, written, saved, calm>>

\* refresh_runtime_resources: measured again with the graph in memory, and its
\* ceilings set
Refresh(pc) ==
  /\ proc # None /\ proc.pc = pc
  /\ calm' = TRUE
  /\ UNCHANGED <<host, override, written, saved>>

Refreshed == inspect_runtime_resources(proc.nodes, proc.edges, proc.class)

RefreshLoaded ==
  /\ Refresh("refresh")
  /\ IF Accepted
     THEN proc' = [proc EXCEPT !.pc = IF proc.command = "sync" THEN "fetch" ELSE "plan",
                               !.status = Refreshed]
     ELSE Ends

\* fetch_page of the sync and the daemon: not inside the disk's reserve
FetchPage ==
  /\ Refresh("fetch")
  /\ IF Accepted /\ ~Refreshed.pressure
     THEN proc' = [proc EXCEPT !.pc = "page", !.status = Refreshed, !.items = Refreshed.page]
     ELSE Ends

\* the graph's own test
Within(count, max) == max = 0 \/ count <= max

\* one item: the ledger first, then the graph, whole or not at all
Observe(growth, bytes) ==
  /\ proc # None /\ proc.pc = "page" /\ proc.items > 0 /\ written + bytes <= MaxWritten
  /\ written' = written + bytes
  /\ LET n == proc.nodes + growth.nodes
         e == proc.edges + growth.edges
     IN /\ n <= MaxNodes /\ e <= MaxEdges
        /\ IF Within(n, proc.status.max_nodes) /\ Within(e, proc.status.max_edges)
           THEN proc' = [proc EXCEPT !.nodes = n, !.edges = e, !.items = @ - 1]
           ELSE Ends
  /\ UNCHANGED <<host, override, saved, calm>>

\* the page ends, with fewer items too
EndPage ==
  /\ proc # None /\ proc.pc = "page"
  /\ proc' = [proc EXCEPT !.pc = "fetch", !.items = 0]
  /\ UNCHANGED <<host, override, written, saved, calm>>

\* atp_graph_save; a full disk ends the process instead
Save ==
  /\ proc # None /\ proc.pc = "fetch"
  /\ IF SnapshotBytes(Model) <= Free("model") THEN saved' = Model /\ UNCHANGED proc
     ELSE Ends /\ UNCHANGED saved
  /\ UNCHANGED <<host, override, written, calm>>

\* run_neural_expand: only to a larger class that fits beside the old one
Expand ==
  /\ proc # None /\ proc.pc = "plan"
  /\ LET s == proc.status
     IN IF /\ ~s.pressure /\ s.class > proc.class
           /\ s.available # 0 /\ NeuralFits(s, s.class, proc.nodes, proc.edges)
        THEN proc' = [proc EXCEPT !.pc = "swap",
                        !.extra = neural_memory_footprint(s.class, proc.nodes, proc.edges)]
        ELSE Ends
  /\ UNCHANGED <<host, override, written, saved, calm>>

\* the commit point of atp_graph_expand_neural, and the save
ExpandSave ==
  /\ proc # None /\ proc.pc = "swap"
  /\ LET m == [Model EXCEPT !.class = proc.status.class]
     IN saved' = IF SnapshotBytes(m) <= Free("model") THEN m ELSE saved
  /\ Ends
  /\ UNCHANGED <<host, override, written, calm>>

\* the command ends, or dies: an unsaved model is lost
Stop ==
  /\ proc # None
  /\ Ends
  /\ UNCHANGED <<host, override, written, saved, calm>>

\* other processes, other files, a new limit of the container
HostChanges ==
  /\ host' \in Hosts \ {host}
  /\ calm' = FALSE
  /\ UNCHANGED <<override, written, saved, proc>>

Init ==
  /\ host \in Hosts /\ override \in Overrides
  /\ written = 0 /\ saved = None /\ proc = None /\ calm = TRUE

Next ==
  \/ \E command \in {"sync", "expand"} : Begin(command)
  \/ Load \/ Create \/ LoadRefused \/ RefreshLoaded \/ FetchPage
  \/ \E growth \in Growths, bytes \in {0, ObservationBytes} : Observe(growth, bytes)
  \/ EndPage \/ Save \/ Expand \/ ExpandSave \/ Stop \/ HostChanges

Spec == Init /\ [][Next]_vars
---------------------------------------------------------------------------
(* Properties. *)

TypeOK ==
  /\ host \in Hosts /\ override \in Overrides /\ written \in 0..MaxWritten
  /\ saved # None => saved.class \in DOMAIN Classes /\ saved.nodes >= 0 /\ saved.edges >= 0
  /\ proc # None => /\ proc.class \in DOMAIN Classes \cup {None}
                    /\ proc.items \in 0..MaxPage /\ proc.extra >= 0
  /\ calm \in BOOLEAN

\* the one node and the one edge that the smallest ceilings admit
Slack == IF proc.nodes <= 1 \/ proc.edges <= 1 THEN Classes[proc.class].node + EdgeBytes ELSE 0

\* While the host stays as the process last measured it, nothing the process
\* loads, grows, expands or writes takes the host into the reserve: memory stays
\* above the reserve, or where it was when it was below already, and a page
\* leaves every filesystem its reserve (derive_resource_budget,
\* load_or_create_graph, run_neural_expand; docs/resources.md "leave safety
\* headroom").  Two things are outside: a measured zero, which the checks take for
\* unknown, and an explicit node ceiling or page size, which nothing compares
\* with the headroom.
BudgetKeepsReserve ==
  calm /\ proc # None /\ proc.class # None =>
    /\ proc.status.available # 0 /\ override.nodes = None =>
         Available + Slack >=
           SmallerOf(automatic_memory_reserve(host.memory), proc.status.available)
    /\ proc.pc = "page" /\ override.page = None =>
         \A f \in Filesystems : Free(f) >= disk_reserve
=============================================================================
