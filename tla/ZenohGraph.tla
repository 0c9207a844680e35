----------------------------- MODULE ZenohGraph -----------------------------
(***************************************************************************)
(* RuntimeZenohGraph (runtime/mod.rs) and its mirror in the discovery and  *)
(* node tables, fed by the worker of ZenohTokens, by `rp discover` and by  *)
(* the discovery sweep.                                                    *)
(*                                                                         *)
(* The graph keeps, for each liveliness token, the flows that reported it. *)
(* The first reference puts the entity into the tables, the last one to go *)
(* takes it out; a flow that is silent for too long loses its references.  *)
(* A node and its participant are one here: the participant id of a Zenoh  *)
(* entity is the session and the node id.  Publications and subscriptions  *)
(* are treated alike and are one kind of endpoint.                         *)
(***************************************************************************)
EXTENDS ZenohTokens

CONSTANTS
    Nodes,
    NodeTokens,   \* tokens of kind NN; the others announce endpoints
    NodeOf,       \* the node of each token
    Active,       \* RuntimeZenohFlowKey::active_discovery()
    NoTime,       \* no deadline: not in the table
    Timeout,      \* ZENOH_FLOW_INACTIVITY_TIMEOUT
    Ttl,          \* default_endpoint_ttl
    QueryTime     \* longest liveliness query

Flows == Directions \cup {Active}
Endpoints == Tokens \ NodeTokens

ASSUME GraphAssumptions ==
    /\ NodeTokens \subseteq Tokens /\ NodeOf \in [Tokens -> Nodes]
    \* rmw_zenoh declares one node token per node; node_alive is only a flag.
    /\ \A j, k \in NodeTokens : NodeOf[j] = NodeOf[k] => j = k
    /\ Active \notin Directions /\ NoTime \notin Int
    /\ Timeout \in Nat /\ Ttl \in Nat \ {0} /\ QueryTime \in Nat

VARIABLES
    g,      \* the graph, and what the tables hold of it
    astray  \* history: tokens whose declarations the runtime has lost sight of

Graph == [
    entities : [Tokens -> SUBSET Flows],
    flowEntities : [Flows -> SUBSET Tokens],
    lastSeen : [Flows -> Times \cup {NoTime}],
    nodes : SUBSET Nodes,                         \* keys of nodes
    alive : SUBSET Nodes,                         \* node_alive
    ends : [Nodes -> SUBSET Endpoints],           \* *_endpoint_ids
    participants : SUBSET Nodes,                  \* DiscoveryTable
    deadline : [Endpoints -> (0 .. MaxTime + Ttl) \cup {NoTime}],
    nodeTable : [Nodes -> SUBSET Endpoints],      \* NodeTable
    inTable : SUBSET Nodes]

EmptyGraph == [
    entities |-> [k \in Tokens |-> {}],
    flowEntities |-> [f \in Flows |-> {}],
    lastSeen |-> [f \in Flows |-> NoTime],
    nodes |-> {}, alive |-> {}, ends |-> [n \in Nodes |-> {}],
    participants |-> {},
    deadline |-> [k \in Endpoints |-> NoTime],
    nodeTable |-> [n \in Nodes |-> {}], inTable |-> {}]

vars == <<workerVars, channel, clock, g, astray>>

Init == TokensInit /\ g = EmptyGraph /\ astray = {}

----------------------------------------------------------------------------
(* Operations of RuntimeZenohGraph.                                        *)

NodesOf(ks) == {NodeOf[k] : k \in ks}

\* upsert_zenoh_node_sample
UpsertNodes(G, ns) ==
    [G EXCEPT !.nodeTable = [n \in Nodes |-> IF n \in ns THEN G.ends[n] ELSE @[n]],
              !.inTable = @ \cup ns]

\* touch_flow
TouchFlow(G, f, at) ==
    IF G.flowEntities[f] = {} THEN G ELSE [G EXCEPT !.lastSeen[f] = at]

\* insert_entity for the tokens ks of one flow.  A token that the flow has
\* reported before only refreshes the flow.  The first reference announces the
\* participant as well, which resets the deadlines of its other endpoints.
InsertEntities(G, f, ks, at) ==
    LET new == {k \in ks : f \notin G.entities[k]}
        first == {k \in new : G.entities[k] = {}}
        ends == [n \in Nodes |-> G.ends[n] \cup {k \in new \cap Endpoints : NodeOf[k] = n}]
        changed == {n \in Nodes : ends[n] # G.ends[n]}
                   \cup (NodesOf(new \cap NodeTokens) \ G.alive)
    IN  IF ks = {} THEN G
        ELSE UpsertNodes(
            [G EXCEPT
                !.entities = [k \in Tokens |-> IF k \in ks THEN @[k] \cup {f} ELSE @[k]],
                !.flowEntities[f] = @ \cup ks,
                !.lastSeen[f] = at,
                !.nodes = @ \cup NodesOf(new),
                !.alive = @ \cup NodesOf(new \cap NodeTokens),
                !.ends = ends,
                !.participants = @ \cup NodesOf(first),
                !.deadline = [k \in Endpoints |->
                    IF \/ k \in first \/ (k \in new /\ @[k] = NoTime)
                       \/ @[k] # NoTime /\ NodeOf[k] \in NodesOf(first)
                    THEN at + Ttl ELSE @[k]]],
            changed)

\* remove_flow_entity: a flow without tokens is forgotten.
RemoveFlowEntities(G, refsGone) ==
    LET left == [f \in Flows |-> {k \in G.flowEntities[f] : <<f, k>> \notin refsGone}]
    IN  [G EXCEPT
            !.flowEntities = left,
            !.lastSeen = [f \in Flows |->
                IF G.flowEntities[f] # {} /\ left[f] = {} THEN NoTime ELSE @[f]]]

\* sync_or_remove_node: nodes with neither node token nor endpoints.
EmptyNodes(ns, alive, ends) == {n \in ns : n \notin alive /\ ends[n] = {}}

\* remove_entity_from_flow and remove_entity_ref, for a set of references
\* <<flow, token>>.  Nothing happens for one that the graph does not hold.
RemoveRefs(G, pairs) ==
    LET hit == {p \in pairs : p[1] \in G.entities[p[2]]}
        left == [k \in Tokens |-> {f \in G.entities[k] : <<f, k>> \notin hit}]
        final == {k \in Tokens : G.entities[k] # {} /\ left[k] = {}}
        alive == G.alive \ NodesOf(final \cap NodeTokens)
        ends == [n \in Nodes |-> G.ends[n] \ final]
        touched == NodesOf(final) \cap G.nodes
        empty == EmptyNodes(touched, alive, ends)
        lost == {k \in Endpoints : k \in final \/ NodeOf[k] \in empty}
        H == [RemoveFlowEntities(G, hit) EXCEPT
                !.entities = left, !.alive = alive, !.ends = ends,
                !.nodes = @ \ empty, !.participants = @ \ empty,
                !.deadline = [k \in Endpoints |-> IF k \in lost THEN NoTime ELSE @[k]]]
    IN  [UpsertNodes(H, touched \ empty) EXCEPT !.inTable = @ \ empty]

\* expire_inactive_flows; references of active discovery do not expire.
ExpireInactiveFlows(G, now) ==
    LET silent == {f \in Directions : G.lastSeen[f] # NoTime /\ now - G.lastSeen[f] > Timeout}
        H == [G EXCEPT
                !.lastSeen = [f \in Flows |-> IF f \in silent THEN NoTime ELSE @[f]],
                !.flowEntities = [f \in Flows |-> IF f \in silent THEN {} ELSE @[f]]]
    IN  RemoveRefs(H, {p \in silent \X Tokens : p[2] \in G.flowEntities[p[1]]})

\* refresh_discovery: what the graph holds is announced again.
RefreshDiscovery(G, at) ==
    UpsertNodes(
        [G EXCEPT
            !.participants = @ \cup G.nodes,
            !.deadline = [k \in Endpoints |-> IF G.entities[k] # {} THEN at + Ttl ELSE @[k]]],
        G.nodes)

\* DiscoveryTable::expire_stale (see DiscoveryTable); a Zenoh participant has
\* no lease and does not expire.
ExpireStale(G, now) ==
    [G EXCEPT !.deadline = [k \in Endpoints |->
        IF @[k] # NoTime /\ @[k] <= now THEN NoTime ELSE @[k]]]

----------------------------------------------------------------------------
(* The runtime thread.                                                     *)

\* handle_zenoh_event, for the next batch of the channel.
HandleZenohEvent ==
    /\ channel # <<>>
    /\ LET b == Head(channel)
           G == RemoveRefs(TouchFlow(g, b.flow, b.at), {b.flow} \X b.gone)
       IN  g' = InsertEntities(G, b.flow, b.found, b.at)
    /\ channel' = Tail(channel)
    /\ UNCHANGED <<workerVars, clock, astray>>

\* `rp discover`: the tokens that a liveliness query answered replace what the
\* previous query found.  The time is taken before the query.
Discover(answer, at) ==
    LET stale == g.flowEntities[Active] \ answer
        G == RemoveRefs(TouchFlow(g, Active, at), {Active} \X stale)
    IN  /\ g' = RefreshDiscovery(InsertEntities(G, Active, answer, at), at)
        /\ UNCHANGED <<workerVars, channel, clock, astray>>

\* Mutant: the graph does not refresh the tables before they expire.
SweepWithoutRefresh ==
    /\ g' = ExpireStale(ExpireInactiveFlows(g, clock), clock)
    /\ UNCHANGED <<workerVars, channel, clock, astray>>

\* The discovery sweep, which a busy runtime may run late.
Sweep ==
    /\ LET G == ExpireInactiveFlows(g, clock)
       IN  /\ g' = ExpireStale(RefreshDiscovery(G, clock), clock)
           /\ astray' = astray \cup {k \in Tokens : G.entities[k] # g.entities[k]}
    /\ UNCHANGED <<workerVars, channel, clock>>

Tick ==
    /\ clock < MaxTime
    /\ clock' = clock + 1
    /\ UNCHANGED <<workerVars, channel, g, astray>>

\* The history of a worker step: the runtime cannot follow a token declared on
\* two flows, nor one whose declaration ends without a batch of its own flow.
DeclaredOn(k) == {s[1] : s \in {s \in Slots : tokenTable[s] = k}}
Told == IF channel' = channel THEN {} ELSE {channel'[Len(channel')].flow}

WorkerStep ==
    /\ Worker
    /\ astray' = astray
         \cup {k \in Tokens : Cardinality(DeclaredOn(k)') > 1}
         \cup {k \in Tokens : \E s \in Slots : /\ tokenTable[s] = k /\ tokenTable'[s] # k
                                              /\ s[1] \notin Told}
    /\ UNCHANGED g

Next ==
    \/ WorkerStep
    \/ HandleZenohEvent \/ Sweep \/ Tick
    \/ \E answer \in SUBSET Tokens, at \in clock - QueryTime .. clock :
          at >= 0 /\ Discover(answer, at)

Spec == Init /\ [][Next]_vars

----------------------------------------------------------------------------
(* Properties.                                                             *)

\* Type invariant of worker, channel, graph and tables.
TypeOK ==
    /\ limits \in Limits
    /\ tokenTable \in [Slots -> Tokens \cup {NoToken}]
    /\ flowOrder \in Seq(Directions) /\ refs \in [Tokens -> Nat]
    /\ channel \in Seq(Batch) /\ Len(channel) <= ChannelCapacity
    /\ clock \in Times /\ g \in Graph
    /\ astray \subseteq Tokens

\* entities and flow_entities are each other's inverse, and exactly the flows
\* that hold a token have a flow_last_seen: no reference that expiry misses.
MirrorExact ==
    /\ \A f \in Flows : g.flowEntities[f] = {k \in Tokens : f \in g.entities[k]}
    /\ \A f \in Flows : g.lastSeen[f] = NoTime <=> g.flowEntities[f] = {}

\* The nodes are those that some held token names, alive while their node
\* token is held, with exactly the endpoints that are held; in whatever order
\* the tokens of a node come and go.
NodesExact ==
    LET held == {k \in Tokens : g.entities[k] # {}} IN
    /\ g.nodes = NodesOf(held)
    /\ g.alive = NodesOf(held \cap NodeTokens)
    /\ \A n \in Nodes : g.ends[n] = {k \in held \cap Endpoints : NodeOf[k] = n}

\* What `rp node` and `rp topic` show of Zenoh is what the graph holds: no
\* endpoint expires while a flow or a query still vouches for it, however late
\* the sweep runs, and none outlives its last reference.
TablesExact ==
    /\ g.participants = g.nodes /\ g.inTable = g.nodes
    /\ \A n \in g.nodes : g.nodeTable[n] = g.ends[n]
    /\ \A k \in Endpoints : g.deadline[k] # NoTime <=> g.entities[k] # {}

\* Flows, entities, nodes and tables of the runtime tell the same story after
\* every batch, query, timeout and sweep.
GraphExact == TypeOK /\ MirrorExact /\ NodesExact /\ TablesExact

\* When the runtime has handled every batch it knows a token exactly by the
\* flow that declares it, and by active discovery: undeclare, replacement, Close
\* and reset all reach the graph.  Except for tokens gone astray, which stay
\* until they expire or are gone for good: see mod.rs:1002 and 1134.
TokensFollowed ==
    channel = <<>> => \A k \in Tokens \ astray : g.entities[k] \ {Active} = DeclaredOn(k)
=============================================================================
