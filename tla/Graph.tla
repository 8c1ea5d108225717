------------------------------- MODULE Graph -------------------------------
(***************************************************************************)
(* The language graph: a vocabulary of nodes, edges between neighbours,    *)
(* episodes that summarise observations, valence records, and what is      *)
(* derived from them: two open-addressing indexes and the groups that      *)
(* prefilter recall.  Everything refers to a node by its number, and       *)
(* pruning renumbers the nodes.  The graph lives in one process at a time  *)
(* (the state lock), is saved to a snapshot, and is rebuilt from the       *)
(* ledger and the journal.                                                 *)
(*                                                                         *)
(* Numbers start at 1 and 0 is none.  A node's familiarity grows with its  *)
(* own observations only, so it orders nodes as their count does and is    *)
(* left out; so are the counters of rejections and evictions, which        *)
(* nothing but reports read, and the network's weights with the plasticity *)
(* of each: that a version 5 file drops the plasticity is not seen here.   *)
(***************************************************************************)
EXTENDS Integers, Sequences, FiniteSets, SequencesExt

CONSTANTS
  Texts,
  LegacyTokens, UnicodeTokens, \* the tokens of each text, by either tokenizer
  HashToken(_), HashEdge(_, _),
  GroupKey(_),                 \* the hash of a summary's node numbers
  OldTexts,                    \* observations of a ledger older than schema 2
  NodeCapacity, EdgeCapacity,  \* the ceilings; 0 is none
  EpisodeMax, SummarySize, GroupTokenMax, EventCapacity,
  NodeFloor, EdgeFloor,        \* first size of each index
  Concepts, Signs,             \* what the valence rules name, and their signals
  BytesAfter(_, _, _),         \* of the sections that follow the context's rows
  Declared,                    \* architectures a first generation may have
  Ceilings,                    \* of nodes, that a rotation may prune to
  None,
  MaxEntries, MaxEvents, MaxRecalls, MaxExcluded, MaxArchitecture   \* bounds of the instance

VARIABLES
  g,        \* the graph in memory
  status,   \* "ok", or why the process ended
  file,     \* the snapshot
  ledger,   \* what each entry holds, and its outcome
  journal,  \* the valence events of the journal, in append order
  felt      \* of the graph's valence: the signals each token has received

vars == <<g, status, file, ledger, journal, felt>>

Schema == 2
Tokenize(text, schema) == IF schema = 1 THEN LegacyTokens[text] ELSE UnicodeTokens[text]

Tokens == UNION {ToSet(Tokenize(t, s)) : t \in Texts, s \in {1, 2}}

\* a node's number is at most the number of tokens
ASSUME GraphAssumption ==
  /\ \A t \in Texts, s \in {1, 2} : Tokenize(t, s) \in Seq(Tokens)
  /\ IsFiniteSet(Tokens)
  /\ \A t \in Tokens \cup Concepts : HashToken(t) \in Nat
  /\ \A s, t \in 1..Cardinality(Tokens) : HashEdge(s, t) \in Nat
  /\ {OldTexts[i] : i \in DOMAIN OldTexts} \subseteq Texts /\ OldTexts \in Seq(Texts)
  /\ {NodeCapacity, EdgeCapacity} \subseteq Nat
  /\ {EpisodeMax, SummarySize, GroupTokenMax, EventCapacity} \subseteq Nat \ {0}
  /\ {NodeFloor, EdgeFloor} \subseteq Nat \ {0}
  /\ \A e \in 0..EpisodeMax, v \in 0..Cardinality(Tokens), l \in 0..EventCapacity :
       BytesAfter(e, v, l) \in Nat
  /\ Declared \subseteq Nat /\ Ceilings \subseteq Nat

\* the elements of a set in an order, and of a sequence those at some positions
Ordered(S, Before(_, _)) ==
  [i \in 1..Cardinality(S) |->
     CHOOSE x \in S : Cardinality({y \in S : Before(y, x)}) = i - 1]

Kept(seq, I) ==
  LET at == Ordered(I, LAMBDA a, b : a < b) IN [k \in DOMAIN at |-> seq[at[k]]]
---------------------------------------------------------------------------
(* Open addressing: power-of-two tables, linear probing, half full at most *)

Capacity(slots) == Cardinality(DOMAIN slots)

\* the first slot at or after the hash that holds one of the entries to stop at
Probe(slots, hash, stops) ==
  LET At(k) == (hash + k) % Capacity(slots)
  IN At(Min({k \in DOMAIN slots : slots[At(k)] \in stops}))

\* Mutation: a collision overwrites the slot.
Insert_clobbers(slots, hash, entry) == [slots EXCEPT ![hash % Capacity(slots)] = entry]

Insert(slots, hash, entry) ==
  [slots EXCEPT ![Probe(slots, hash, {0})] = entry]

Find(slots, hash, matches) ==
  IF slots = <<>> THEN 0
  ELSE slots[Probe(slots, hash, {0} \cup matches)]

\* doubled until twice the entries fit
SizeFor(from, entries) ==
  LET size[k \in 0..entries] ==
        IF k = 0 THEN from
        ELSE IF size[k - 1] >= entries * 2 THEN size[k - 1] ELSE size[k - 1] * 2
  IN size[entries]

Fill(size, hashes) ==
  LET slots[i \in 0..Len(hashes)] ==
        IF i = 0 THEN [k \in 0..(size - 1) |-> 0] ELSE Insert(slots[i - 1], hashes[i], i)
  IN slots[Len(hashes)]

NodeHashes(nodes) == [i \in DOMAIN nodes |-> HashToken(nodes[i].token)]
EdgeHashes(edges) == [i \in DOMAIN edges |-> HashEdge(edges[i].source, edges[i].target)]

\* index_rebuild: a table twice the old one, or the first
Rebuilt(slots, floor, needed, hashes) ==
  Fill(SizeFor(IF slots = <<>> THEN floor ELSE Capacity(slots) * 2, needed), hashes)

MaybeGrow(slots, floor, hashes) ==
  IF Len(hashes) * 2 + 2 > Capacity(slots)
  THEN Rebuilt(slots, floor, Len(hashes) + 1, hashes)
  ELSE slots

find_node(graph, token) ==
  Find(graph.node_index, HashToken(token),
       {i \in DOMAIN graph.nodes : graph.nodes[i].token = token})

find_edge(graph, source, target) ==
  Find(graph.edge_index, HashEdge(source, target),
       {i \in DOMAIN graph.edges : graph.edges[i].source = source /\ graph.edges[i].target = target})

\* reserve_indexes and install_indexes: fresh tables for the arrays as they are
Reindexed(graph) ==
  [graph EXCEPT
     !.node_index = Fill(SizeFor(NodeFloor, Len(graph.nodes) + 1), NodeHashes(graph.nodes)),
     !.edge_index = Fill(SizeFor(EdgeFloor, Len(graph.edges) + 1), EdgeHashes(graph.edges))]
---------------------------------------------------------------------------
(* Episode groups: derived from the summaries, in episode order *)

SummaryNodes(episode) == [k \in DOMAIN episode.summary |-> episode.summary[k].node]

GroupOf(groups, key) == SelectInSeq(groups, LAMBDA group : group.key = key)

group_create(groups, key) == Append(groups, [key |-> key, tokens |-> {}])

\* a union that is full takes no more
Union(tokens, nodes) ==
  LET union[k \in 0..Len(nodes)] ==
        IF k = 0 THEN tokens
        ELSE IF Cardinality(union[k - 1]) < GroupTokenMax THEN union[k - 1] \cup {nodes[k]}
        ELSE union[k - 1]
  IN union[Len(nodes)]

\* one more episode: its group found or created, its id and its tokens noted
index_episode(graph, i) ==
  LET nodes  == SummaryNodes(graph.episodes[i])
      key    == GroupKey(nodes)
      known  == GroupOf(graph.groups, key)
      groups == IF known # 0 THEN graph.groups ELSE group_create(graph.groups, key)
      id     == IF known # 0 THEN known ELSE Len(groups)
  IN [graph EXCEPT !.groups = [groups EXCEPT ![id].tokens = Union(@, nodes)],
                   !.member = [k \in 1..i |-> IF k = i THEN id ELSE graph.member[k]]]

Regrouped(graph) ==
  LET indexed[i \in 0..Len(graph.episodes)] ==
        IF i = 0 THEN [graph EXCEPT !.groups = <<>>, !.member = <<>>]
        ELSE index_episode(indexed[i - 1], i)
  IN indexed[Len(graph.episodes)]
---------------------------------------------------------------------------
(* Observing *)

intern_node(graph, token) ==
  LET i == find_node(graph, token)
      grown == MaybeGrow(graph.node_index, NodeFloor, NodeHashes(graph.nodes))
  IN IF i # 0
     THEN [ok |-> TRUE, at |-> i, graph |-> [graph EXCEPT !.nodes[i].observations = @ + 1]]
     ELSE IF NodeCapacity # 0 /\ Len(graph.nodes) >= NodeCapacity
     THEN [ok |-> FALSE, at |-> 0, graph |-> graph]
     ELSE [ok |-> TRUE, at |-> Len(graph.nodes) + 1,
           graph |-> [graph EXCEPT
             !.nodes = Append(@, [token |-> token, observations |-> 1]),
             !.node_index = Insert(grown, HashToken(token), Len(graph.nodes) + 1)]]

observe_pair(graph, source, target) ==
  LET i == find_edge(graph, source, target)
      grown == MaybeGrow(graph.edge_index, EdgeFloor, EdgeHashes(graph.edges))
  IN IF i # 0
     THEN [ok |-> TRUE, graph |-> [graph EXCEPT !.edges[i].observations = @ + 1]]
     ELSE IF EdgeCapacity # 0 /\ Len(graph.edges) >= EdgeCapacity
     THEN [ok |-> FALSE, graph |-> graph]
     ELSE [ok |-> TRUE,
           graph |-> [graph EXCEPT
             !.edges = Append(@, [source |-> source, target |-> target, observations |-> 1]),
             !.edge_index = Insert(grown, HashEdge(source, target), Len(graph.edges) + 1)]]

\* the walk stops at the first failure; seen are the nodes it has met, in order
Advance(walk, node, pair) ==
  [ok |-> pair.ok, graph |-> pair.graph,
   seen |-> IF pair.ok THEN Append(walk.seen, node.at) ELSE walk.seen]

Pair(walk, node) ==
  IF ~node.ok THEN [ok |-> FALSE, graph |-> node.graph, seen |-> walk.seen]
  ELSE Advance(walk, node, IF walk.seen = <<>> THEN node
                           ELSE observe_pair(node.graph, Last(walk.seen), node.at))

observe_emit(walk, token) ==
  IF ~walk.ok THEN walk ELSE Pair(walk, intern_node(walk.graph, token))

\* Mutation: the dry run with the edges left out.
check_budget_nodes(graph, text) ==
  LET toks == Tokenize(text, Schema)
  IN NodeCapacity = 0 \/ Len(graph.nodes)
       + Cardinality({i \in DOMAIN toks : find_node(graph, toks[i]) = 0}) <= NodeCapacity

\* the dry run, under the current schema: every unknown token is a new node,
\* and a pair is a new edge unless both ends and their edge are known
check_budget(graph, text) ==
  LET toks  == Tokenize(text, Schema)
      At(i) == find_node(graph, toks[i])
      new_nodes == {i \in DOMAIN toks : At(i) = 0}
      new_edges == {i \in DOMAIN toks \ {1} :
                      At(i - 1) = 0 \/ At(i) = 0 \/ find_edge(graph, At(i - 1), At(i)) = 0}
  IN /\ NodeCapacity = 0 \/ Len(graph.nodes) + Cardinality(new_nodes) <= NodeCapacity
     /\ EdgeCapacity = 0 \/ Len(graph.edges) + Cardinality(new_edges) <= EdgeCapacity

\* the most frequent tokens first, then the lowest number
episode_build(seen, id, at) ==
  LET Count(n) == Cardinality({i \in DOMAIN seen : seen[i] = n})
      sorted   == Ordered(ToSet(seen), LAMBDA a, b :
                     Count(a) > Count(b) \/ (Count(a) = Count(b) /\ a < b))
      kept     == SubSeq(sorted, 1, Min({Len(sorted), SummarySize}))
  IN [id |-> id, at |-> at, recalls |-> 0,
      summary |-> [k \in DOMAIN kept |-> [node |-> kept[k], weight |-> Count(kept[k])]]]

\* the least recalled, the oldest, the smallest ledger id
Victim(episodes) ==
  CHOOSE v \in DOMAIN episodes : \A i \in DOMAIN episodes \ {v} :
    LET a == episodes[v]  b == episodes[i]
    IN \/ a.recalls < b.recalls
       \/ a.recalls = b.recalls /\ a.at < b.at
       \/ a.recalls = b.recalls /\ a.at = b.at /\ a.id < b.id

\* Mutation: the same without the rebuild: the ids still belong to the old positions.
evict_episode_stale(graph) ==
  LET v == Victim(graph.episodes)
  IN [graph EXCEPT !.episodes = Kept(@, DOMAIN @ \ {v}),
                   !.member = SubSeq(@, 1, Len(@) - 1)]

\* the array closes up over the victim, so membership is built again
evict_episode(graph) ==
  Regrouped([graph EXCEPT !.episodes = Kept(@, DOMAIN @ \ {Victim(@)})])

\* an episode joins its group
record_episode(graph, episode) ==
  index_episode([graph EXCEPT !.episodes = Append(@, episode)], Len(graph.episodes) + 1)

\* every token of the text, from the graph as it is
Walked(graph, toks) ==
  LET walk[i \in 0..Len(toks)] ==
        IF i = 0 THEN [ok |-> TRUE, graph |-> graph, seen |-> <<>>]
        ELSE observe_emit(walk[i - 1], toks[i])
  IN walk[Len(toks)]

\* a text with a new token or two different ones is remembered, in place of the
\* victim when there is no room
Remember(graph, walk, id, at) ==
  IF walk.ok /\ (Len(walk.graph.nodes) > Len(graph.nodes) \/ Cardinality(ToSet(walk.seen)) >= 2)
  THEN record_episode(IF Len(walk.graph.episodes) >= EpisodeMax THEN evict_episode(walk.graph)
                      ELSE walk.graph,
                      episode_build(walk.seen, id, at))
  ELSE walk.graph

Learn(graph, walk, id, at) == [ok |-> walk.ok, graph |-> Remember(graph, walk, id, at)]

observe_with_memory(graph, text, schema, id, at) ==
  IF ~check_budget(graph, text) THEN [ok |-> FALSE, graph |-> graph]
  ELSE Learn(graph, Walked(graph, Tokenize(text, schema)), id, at)
---------------------------------------------------------------------------
(* Recall *)

Overlaps(episode, query) == ToSet(SummaryNodes(episode)) \cap query # {}

\* the episodes of the groups that may hold a match
Scanned(graph, query) ==
  {i \in DOMAIN graph.episodes :
     LET group == graph.groups[graph.member[i]]
     IN Cardinality(group.tokens) = GroupTokenMax \/ group.tokens \cap query # {}}

Score(episode, query) ==
  FoldLeft(LAMBDA sum, s : IF s.node \in query THEN sum + s.weight ELSE sum, 0, episode.summary)

\* best score first, then the latest
Ranked(graph, query) ==
  Ordered({i \in Scanned(graph, query) : Overlaps(graph.episodes[i], query)},
    LAMBDA i, k :
      LET a == graph.episodes[i]  b == graph.episodes[k]
          sa == Score(a, query)   sb == Score(b, query)
      IN \/ sa > sb
         \/ sa = sb /\ a.at > b.at
         \/ sa = sb /\ a.at = b.at /\ a.id > b.id)

query_nodes(graph, text) ==
  {find_node(graph, t) : t \in ToSet(Tokenize(text, Schema))} \ {0}

Recalled(graph, positions) ==
  [graph EXCEPT !.episodes = [i \in DOMAIN @ |->
     IF i \in positions THEN [graph.episodes[i] EXCEPT !.recalls = @ + 1] ELSE @[i]]]

\* what ranked recall may return: episodes that overlap, or that hold a
\* neighbour of the query in either direction (as far as the network agrees)
Associated(graph, query) ==
  {i \in DOMAIN graph.episodes :
     \/ Overlaps(graph.episodes[i], query)
     \/ \E n \in ToSet(SummaryNodes(graph.episodes[i])), q \in query :
          find_edge(graph, n, q) # 0 \/ find_edge(graph, q, n) # 0}
---------------------------------------------------------------------------
(* Valence *)

\* Mutation: a new record goes to the end.
valence_event_unordered(graph, token, signal) ==
  LET n == find_node(graph, token)
      i == SelectInSeq(graph.valence, LAMBDA r : r.node = n)
      kept == IF Len(graph.log) = EventCapacity THEN Tail(graph.log) ELSE graph.log
  IN [graph EXCEPT
        !.valence = IF i # 0 THEN [@ EXCEPT ![i].signals = Append(@, signal)]
                    ELSE Append(@, [node |-> n, signals |-> <<signal>>]),
        !.log = Append(kept, n)]

\* records stay in node order; a token never seen has no valence
valence_event(graph, token, signal) ==
  LET n  == find_node(graph, token)
      i  == SelectInSeq(graph.valence, LAMBDA r : r.node = n)
      at == Cardinality({k \in DOMAIN graph.valence : graph.valence[k].node < n})
      records == IF i # 0 THEN [graph.valence EXCEPT ![i].signals = Append(@, signal)]
                 ELSE [k \in 1..(Len(graph.valence) + 1) |->
                         IF k <= at THEN graph.valence[k]
                         ELSE IF k = at + 1 THEN [node |-> n, signals |-> <<signal>>]
                         ELSE graph.valence[k - 1]]
      kept == IF Len(graph.log) = EventCapacity THEN Tail(graph.log) ELSE graph.log
  IN [graph EXCEPT !.valence = records, !.log = Append(kept, n)]
---------------------------------------------------------------------------
(* Pruning *)

\* Mutation: valence does not protect a node.
Dropped_unprotected(graph, max_nodes) ==
  LET sorted == Ordered(DOMAIN graph.nodes, LAMBDA a, b :
                   \/ graph.nodes[a].observations < graph.nodes[b].observations
                   \/ graph.nodes[a].observations = graph.nodes[b].observations /\ a < b)
  IN ToSet(SubSeq(sorted, 1, Len(graph.nodes) - max_nodes))

\* nodes with valence are protected; of the others the least observed go
Dropped(graph, max_nodes) ==
  LET protect == {graph.valence[i].node : i \in DOMAIN graph.valence} \cup ToSet(graph.log)
      sorted  == Ordered(DOMAIN graph.nodes \ protect, LAMBDA a, b :
                   \/ graph.nodes[a].observations < graph.nodes[b].observations
                   \/ graph.nodes[a].observations = graph.nodes[b].observations /\ a < b)
      drop    == Min({Len(graph.nodes) - max_nodes, Len(sorted)})
  IN ToSet(SubSeq(sorted, 1, drop))

\* everything that holds a node number is renumbered; an episode left with no
\* token is evicted
prune_vocabulary(graph, max_nodes) ==
  LET dropped == Dropped(graph, max_nodes)
      Remap(n) == Cardinality((1..n) \ dropped)
      Keep(n)  == n \notin dropped
      edges    == Kept(graph.edges, {i \in DOMAIN graph.edges :
                         Keep(graph.edges[i].source) /\ Keep(graph.edges[i].target)})
      trimmed  == [i \in DOMAIN graph.episodes |-> [graph.episodes[i] EXCEPT !.summary =
                     LET s == Kept(@, {k \in DOMAIN @ : Keep(@[k].node)})
                     IN [k \in DOMAIN s |-> [s[k] EXCEPT !.node = Remap(@)]]]]
      pruned   == [graph EXCEPT
        !.nodes    = Kept(@, DOMAIN @ \ dropped),
        !.edges    = [k \in DOMAIN edges |-> [edges[k] EXCEPT !.source = Remap(@),
                                                              !.target = Remap(@)]],
        !.valence  = [k \in DOMAIN @ |-> [graph.valence[k] EXCEPT !.node = Remap(@)]],
        !.log      = [k \in DOMAIN @ |-> Remap(@[k])],
        !.episodes = Kept(trimmed, {i \in DOMAIN trimmed : trimmed[i].summary # <<>>})]
  IN IF Len(graph.nodes) <= max_nodes THEN graph
     ELSE Regrouped(Reindexed(pruned))
---------------------------------------------------------------------------
(* The neural topology: its width only; a migration widens it *)

Legacy == 0   \* the architecture of a generation that never declared one

EmptyGraph(architecture) ==
  [nodes |-> <<>>, edges |-> <<>>, episodes |-> <<>>, groups |-> <<>>, member |-> <<>>,
   valence |-> <<>>, log |-> <<>>, mirror |-> <<>>, node_index |-> <<>>, edge_index |-> <<>>,
   architecture |-> architecture, migrations |-> <<>>]

migration_validate(m) == m.target > m.source

\* in boundary order, each from where the last one ended
MigrationsChain(migrations) ==
  \A i \in DOMAIN migrations :
    /\ migration_validate(migrations[i])
    /\ i > 1 => /\ migrations[i - 1].boundary <= migrations[i].boundary
                /\ migrations[i - 1].target = migrations[i].source

\* old parameters are copied, new ones come from the migration's seed
expand_neural(graph, m) ==
  [graph EXCEPT !.architecture = m.target, !.migrations = Append(@, m)]
---------------------------------------------------------------------------
(* Snapshots: a version and tagged sections, in the writer's order *)

Section(tag, body) == [tag |-> tag, body |-> body]

\* a context row of a post that neither replies nor quotes, three empty strings of
\* a length each; and the least row the loader believes in
RowBytes == 12
RowDemand == 15

\* the context's rows, and the bytes from the first of them to the end of the file
ContextBody(graph) ==
  [rows |-> graph.mirror,
   room |-> RowBytes * Len(graph.mirror)
              + BytesAfter(Len(graph.episodes), Len(graph.valence), Len(graph.log))]

\* the loader's bound on the number of rows it is told of
HasRoom(body) == RowDemand * Len(body.rows) <= body.room

LearnedSections(graph) ==
  << Section("nodes", graph.nodes), Section("edges", graph.edges),
     Section("ledger", graph.mirror), Section("context", ContextBody(graph)),
     Section("episodes", graph.episodes),
     Section("valence", [records |-> graph.valence, log |-> graph.log]),
     Section("schema", Schema) >>

\* the legacy format declares no architecture
snapshot_v5(graph) ==
  [version |-> 5,
   sections |-> <<Section("header", 5), Section("network", Legacy)>> \o LearnedSections(graph)]

snapshot_v6(graph) ==
  [version |-> 6,
   sections |-> <<Section("header", 6), Section("arch", graph.architecture),
                  Section("network", graph.architecture)>> \o LearnedSections(graph)]

snapshot_v7(graph) ==
  [version |-> 7,
   sections |-> <<Section("header", 6), Section("arch", graph.architecture),
                  Section("migrations", graph.migrations),
                  Section("network", graph.architecture)>> \o LearnedSections(graph)]

\* atp_graph_save: the version follows the generation
Encode(graph) ==
  CASE graph.migrations # <<>>                                  -> snapshot_v7(graph)
    [] graph.migrations = <<>> /\ graph.architecture = Legacy -> snapshot_v5(graph)
    [] OTHER                                                   -> snapshot_v6(graph)

decode_edges(graph, edges) ==
  \A i \in DOMAIN edges : {edges[i].source, edges[i].target} \subseteq DOMAIN graph.nodes

decode_episodes(graph, episodes) ==
  \A i \in DOMAIN episodes :
    /\ Len(episodes[i].summary) <= SummarySize
    /\ ToSet(SummaryNodes(episodes[i])) \subseteq DOMAIN graph.nodes

\* records in strict node order, each with an event; a bounded log
decode_valence(graph, body) ==
  /\ \A i \in DOMAIN body.records :
       /\ body.records[i].node \in DOMAIN graph.nodes
       /\ body.records[i].signals # <<>>
       /\ i > 1 => body.records[i - 1].node < body.records[i].node
  /\ Len(body.log) <= EventCapacity
  /\ ToSet(body.log) \subseteq DOMAIN graph.nodes

decode_migrations(graph, migrations) ==
  /\ migrations # <<>> /\ MigrationsChain(migrations)
  /\ Last(migrations).target = graph.architecture

NoGraph == <<>>   \* none read yet

Failure == [ok |-> FALSE, graph |-> NoGraph, seen |-> {}]

\* one section: refused when it comes twice, before what it depends on, or with
\* a number out of range
decode_section(version, read, s) ==
  LET graph == read.graph
      Has(tag) == tag \in read.seen
      Accept(valid, with) ==
        IF valid THEN [ok |-> TRUE, graph |-> with, seen |-> read.seen \cup {s.tag}]
        ELSE Failure
  IN IF ~read.ok \/ Has(s.tag) THEN Failure
     ELSE CASE s.tag = "header" ->
                 Accept(TRUE, IF version = 5 THEN EmptyGraph(Legacy) ELSE NoGraph)
            [] s.tag = "arch" ->
                 Accept(version > 5 /\ Has("header") /\ graph = NoGraph, EmptyGraph(s.body))
            [] s.tag # "header" /\ s.tag # "arch" /\ graph = NoGraph -> Failure
            [] s.tag = "migrations" ->
                 Accept(version = 7 /\ ~Has("network") /\ decode_migrations(graph, s.body),
                        [graph EXCEPT !.migrations = s.body])
            [] s.tag = "network" -> Accept(s.body = graph.architecture, graph)
            [] s.tag = "nodes" -> Accept(TRUE, [graph EXCEPT !.nodes = s.body])
            [] s.tag = "edges" ->
                 Accept(decode_edges(graph, s.body), [graph EXCEPT !.edges = s.body])
            [] s.tag = "ledger" -> Accept(TRUE, [graph EXCEPT !.mirror = s.body])
            [] s.tag = "context" ->
                 Accept(Has("ledger") /\ Len(s.body.rows) <= Len(graph.mirror) /\ HasRoom(s.body),
                        graph)
            [] s.tag = "episodes" ->
                 Accept(decode_episodes(graph, s.body), [graph EXCEPT !.episodes = s.body])
            [] s.tag = "valence" ->
                 Accept(Has("nodes") /\ decode_valence(graph, s.body),
                        [graph EXCEPT !.valence = s.body.records, !.log = s.body.log])
            [] s.tag = "schema" -> Accept(s.body \in {1, 2}, graph)

Required(version) ==
  {"header", "network", "nodes", "edges", "ledger", "episodes"}
    \cup (IF version > 5 THEN {"arch"} ELSE {})
    \cup (IF version = 7 THEN {"migrations"} ELSE {})

\* the indexes and the groups are built from what was read
load_finish(version, read) ==
  IF read.ok /\ read.graph # NoGraph /\ Required(version) \subseteq read.seen
  THEN [ok |-> TRUE, graph |-> Regrouped(Reindexed(read.graph))]
  ELSE [ok |-> FALSE, graph |-> NoGraph]

Decode(image) ==
  LET read[k \in 0..Len(image.sections)] ==
        IF k = 0 THEN [ok |-> TRUE, graph |-> NoGraph, seen |-> {}]
        ELSE decode_section(image.version, read[k - 1], image.sections[k])
  IN load_finish(image.version, read[Len(image.sections)])

\* the probe that reads nothing but the descriptor
snapshot_architecture(image) ==
  IF image.version = 5 THEN Legacy
  ELSE image.sections[SelectInSeq(image.sections, LAMBDA s : s.tag = "arch")].body
---------------------------------------------------------------------------
(* Rebuild *)

\* the migrations whose boundary is this entry
apply_migrations(r, migrations, id) ==
  LET applied[k \in 0..Len(migrations)] ==
        IF k = 0 THEN r
        ELSE IF ~applied[k - 1].ok \/ migrations[k].boundary # id THEN applied[k - 1]
        ELSE [applied[k - 1] EXCEPT !.graph = expand_neural(@, migrations[k])]
  IN applied[Len(migrations)]

validate_migrations(architecture, migrations) ==
  migrations # <<>> => /\ migrations[1].source = architecture
                       /\ MigrationsChain(migrations)
                       /\ Last(migrations).boundary <= Len(ledger)

Mirror(r, o, id) ==
  IF o.ok THEN [r EXCEPT !.graph = [o.graph EXCEPT !.mirror = Append(@, id)]]
  ELSE [r EXCEPT !.ok = FALSE]

\* learned entries that still have their text are observed under their own
\* schema; a migration lands on its boundary
ReplayStep(r, migrations, id) ==
  IF ~r.ok THEN r
  ELSE apply_migrations(
         IF ledger[id].outcome # "learned" THEN r
         ELSE Mirror(r, observe_with_memory(r.graph, ledger[id].text, ledger[id].schema, id, id),
                     id),
         migrations, id)

Replayed(architecture, migrations) ==
  LET empty == [ok |-> validate_migrations(architecture, migrations),
                graph |-> EmptyGraph(architecture)]
      replayed[id \in 0..Len(ledger)] ==
        IF id = 0 THEN apply_migrations(empty, migrations, 0)
        ELSE ReplayStep(replayed[id - 1], migrations, id)
  IN replayed[Len(ledger)]

\* then the journal's valence, where an unknown token is an error
FeltAgain(r, e) ==
  IF ~r.ok \/ find_node(r.graph, e.token) = 0 THEN [r EXCEPT !.ok = FALSE]
  ELSE [r EXCEPT !.graph = valence_event(@, e.token, e.signal)]

RebuiltGraph(architecture, migrations) ==
  LET rebuilt[k \in 0..Len(journal)] ==
        IF k = 0 THEN Replayed(architecture, migrations)
        ELSE FeltAgain(rebuilt[k - 1], journal[k])
  IN rebuilt[Len(journal)]

Signals(events, token) ==
  LET s == Kept(events, {i \in DOMAIN events : events[i].token = token})
  IN [i \in DOMAIN s |-> s[i].signal]
---------------------------------------------------------------------------
(* The processes, one at a time *)

Entry(text, schema, outcome) == [text |-> text, schema |-> schema, outcome |-> outcome]

Running == status = "ok"
\* no process holds the graph
Down == status \in {"ended", "refused"}

\* process_observation: PENDING, remember, LEARNED and mirrored; a rejection ends
\* the process and leaves the entry pending
Observe(text) ==
  LET known == SelectInSeq(ledger, LAMBDA e : e.text = text /\ e.outcome = "pending")
      id    == IF known # 0 THEN known ELSE Len(ledger) + 1
      Noted(outcome) == IF known # 0 THEN [ledger EXCEPT ![id] = Entry(text, Schema, outcome)]
                        ELSE Append(ledger, Entry(text, Schema, outcome))
  IN /\ Running /\ id <= MaxEntries
     /\ \E o \in {observe_with_memory(g, text, Schema, id, id)} :
          /\ g' = IF o.ok THEN [o.graph EXCEPT !.mirror = Append(@, id)] ELSE o.graph
          /\ ledger' = Noted(IF o.ok THEN "learned" ELSE "pending")
          /\ status' = IF o.ok THEN "ok" ELSE "capacity"
     /\ UNCHANGED <<file, journal, felt>>

\* the graph, then the journal's line; only the line outlives the process
Feel(token, signal) ==
  /\ Running /\ Len(journal) < MaxEvents /\ find_node(g, token) # 0
  /\ journal' = Append(journal, [token |-> token, signal |-> signal])
  /\ g' = valence_event(g, token, signal)
  /\ felt' = [felt EXCEPT ![token] = Append(@, signal)]
  /\ UNCHANGED <<status, file, ledger>>

\* the instance's bound on recalls
CanRecall == FoldLeft(LAMBDA sum, e : sum + e.recalls, 0, g.episodes) < MaxRecalls

Recall(text, limit) ==
  LET ranked    == Ranked(g, query_nodes(g, text))
      positions == ToSet(SubSeq(ranked, 1, Min({limit, Len(ranked)})))
  IN /\ Running /\ CanRecall
     /\ g' = Recalled(g, positions)
     /\ UNCHANGED <<status, file, ledger, journal, felt>>

RecallRanked(text, limit) ==
  \E positions \in SUBSET Associated(g, query_nodes(g, text)) :
    /\ Running /\ Cardinality(positions) <= limit /\ CanRecall
    /\ g' = Recalled(g, positions)
    /\ UNCHANGED <<status, file, ledger, journal, felt>>

Save ==
  /\ Running
  /\ file' = [image |-> Encode(g), felt |-> felt]
  /\ UNCHANGED <<g, status, ledger, journal, felt>>

\* one pass of rotate_by_size: prune, and save unless nothing could go
Rotate(max_nodes) ==
  LET pruned == prune_vocabulary(g, max_nodes)
  IN /\ Running /\ file # None /\ Len(pruned.nodes) < Len(g.nodes)
     /\ g' = pruned
     /\ file' = [image |-> Encode(pruned), felt |-> felt]
     /\ UNCHANGED <<status, ledger, journal, felt>>

\* the process ends, in order or not, and its memory is lost
Stop ==
  /\ ~Down /\ status' = "ended"
  /\ g' = EmptyGraph(Legacy) /\ felt' = [t \in Tokens |-> <<>>]
  /\ UNCHANGED <<file, ledger, journal>>

\* another starts from the snapshot
Restart ==
  /\ Down /\ status' = "ok"
  /\ IF file = None
     THEN (\E a \in Declared : g' = EmptyGraph(a)) /\ UNCHANGED felt
     ELSE LET read == Decode(file.image)
          IN read.ok /\ g' = read.graph /\ felt' = file.felt
  /\ UNCHANGED <<file, ledger, journal>>

\* neural expand, a process of its own: load, grow, save
ExpandNeural ==
  LET read == Decode(file.image)
      m == [boundary |-> Len(ledger), source |-> read.graph.architecture,
            target |-> read.graph.architecture + 1]
  IN /\ Down /\ file # None /\ snapshot_architecture(file.image) < MaxArchitecture
     /\ read.ok
     /\ file' = [file EXCEPT !.image = Encode(expand_neural(read.graph, m))]
     /\ UNCHANGED <<g, status, ledger, journal, felt>>

\* rotate's release of an entry's text, by the process that holds the graph, and
\* withdraw, once none does
Exclude(id) ==
  /\ ledger[id].outcome = "learned"
  /\ Cardinality({i \in DOMAIN ledger : ledger[i].outcome = "excluded"}) < MaxExcluded
  /\ ledger' = [ledger EXCEPT ![id].outcome = "excluded"]
  /\ UNCHANGED <<g, status, file, journal, felt>>

\* the topology and its history come from the old snapshot; nothing is saved
\* unless every step succeeds
RebuildFrom(initial, final, migrations) ==
  \E r \in {RebuiltGraph(initial, migrations)} :
    LET ok == r.ok /\ r.graph.architecture = final
    IN /\ file' = IF ok THEN [image |-> Encode(r.graph),
                              felt |-> [t \in Tokens |-> Signals(journal, t)]]
                  ELSE file
       /\ status' = IF ok THEN "ended" ELSE "refused"

Rebuild ==
  /\ Down
  /\ IF file = None THEN \E a \in Declared : RebuildFrom(a, a, <<>>)
     ELSE \E read \in {Decode(file.image)} :
            LET final   == snapshot_architecture(file.image)
                history == read.graph.migrations
            IN /\ read.ok
               /\ RebuildFrom(IF history = <<>> THEN final ELSE history[1].source,
                              final, history)
  /\ UNCHANGED <<g, ledger, journal, felt>>

Init ==
  /\ ledger = [i \in DOMAIN OldTexts |-> Entry(OldTexts[i], 1, "learned")]
  /\ journal = <<>>
  /\ g \in {Replayed(a, <<>>).graph : a \in Declared}
  /\ status = "ok" /\ file = None
  /\ felt = [t \in Tokens |-> <<>>]

Next ==
  \/ \E text \in Texts : Observe(text) \/ Recall(text, 1) \/ RecallRanked(text, 1)
  \/ \E token \in Concepts, signal \in Signs : Feel(token, signal)
  \/ Save
  \/ \E n \in Ceilings : Rotate(n)
  \/ Stop
  \/ Restart
  \/ ExpandNeural
  \/ \E id \in DOMAIN ledger : Exclude(id)
  \/ Rebuild

Spec == Init /\ [][Next]_vars
---------------------------------------------------------------------------
(* Properties. *)

\* The tables agree with the arrays: through growth, collisions, pruning, reload
\* and rebuild, a probe finds every token and every pair that is there, and
\* nothing else (find_node, find_edge).
IndexesFindEverything ==
  /\ \A t \in Tokens :
       find_node(g, t) = SelectInSeq(g.nodes, LAMBDA n : n.token = t)
  /\ \A s, t \in DOMAIN g.nodes :
       find_edge(g, s, t) = SelectInSeq(g.edges, LAMBDA e : e.source = s /\ e.target = t)

\* The groups never hide an episode from recall: whatever was evicted, pruned or
\* merged by a colliding key, prefiltering by group finds exactly the episodes a
\* scan of all of them would (atp_graph_recall: "results are identical to the
\* linear scan").
RecallIsExact ==
  \A query \in SUBSET DOMAIN g.nodes :
    \A i \in DOMAIN g.episodes :
      Overlaps(g.episodes[i], query) => i \in Scanned(g, query)

\* Valence stays with its token: the record of every node holds the signals that
\* its token received, in order, after any renumbering, reload and rebuild.
ValenceFollowsItsToken ==
  \A t \in Tokens :
    LET n == SelectInSeq(g.nodes, LAMBDA x : x.token = t)
        i == SelectInSeq(g.valence, LAMBDA r : r.node = n)
    IN felt[t] = (IF n = 0 \/ i = 0 THEN <<>> ELSE g.valence[i].signals)

\* The file is refused for its context rows alone: the loader asks 15 bytes of each
\* (atp_decode_context), where the writer left 12 (atp_encode_context).
Cramped(image) == \E s \in ToSet(image.sections) : s.tag = "context" /\ ~HasRoom(s.body)

\* A snapshot that was written can be read, with one exception: whatever was
\* observed, pruned, felt and expanded, the file passes every other check of its
\* own loader, and the graph it gives back is the one that was saved.  The exception
\* is the size check on the context's rows: a generation of many posts that neither
\* reply nor quote, and of few episodes and records after them, writes a file that
\* no later load accepts.  (Of what the model holds: a version 5 file also drops
\* plasticity, which it does not.  Stated where no process runs: any process may
\* end and leave the file as it is.)
SnapshotsLoad ==
  Down /\ file # None =>
    LET read == Decode(file.image)
    IN IF read.ok THEN Encode(read.graph) = file.image ELSE Cramped(file.image)

\* An observation above a ceiling is rejected whole: the graph it leaves
\* is the one it met, the count of rejections aside (atp_check_budget: "never
\* leaves half-learned state behind").
RejectedWhole ==
  [][Running /\ status' = "capacity" => g' = g]_vars
=============================================================================
