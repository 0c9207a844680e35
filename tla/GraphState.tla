----------------------------- MODULE GraphState -----------------------------
(***************************************************************************)
(* The node table (discovery/discovery.rs) and the snapshot of the ROS     *)
(* graph that the list and info commands read (command/state.rs), for the  *)
(* DDS side of the runtime.                                                *)
(*                                                                         *)
(* Three tables feed the snapshot: the discovery table (who exists, by     *)
(* SPDP and SEDP), the node table (which node owns which endpoint, by      *)
(* /ros_discovery_info) and the participants heard from another host.      *)
(* They are filled by different messages, in any order, and the snapshot   *)
(* is rebuilt once per burst.  The discovery table is reduced here to the  *)
(* sets of entries DiscoveryTable keeps; its clocks are abstracted to the  *)
(* choice of what a sweep finds expired.                                   *)
(***************************************************************************)
EXTENDS Naturals, FiniteSets, Sequences

CONSTANTS
    Participants,   \* RTPS participants, each with its GID
    Endpoints,      \* RTPS endpoints, each with its GID
    Names,          \* namespace and name of a node
    None,
    Owner,          \* the participant of an endpoint
    Readers,        \* the endpoints that are subscriptions
    Wire,           \* the topic and type name an endpoint announces
    InfoWriter,     \* a participant's writer of ros_discovery_info, or None
    InfoReaders,    \* the subscriptions to ros_discovery_info
    Infos,          \* the node lists a participant may announce
    Sources,        \* where a participant's SPDP is seen from: local IP, remote IP
    MaxBurst        \* bound: events handled in one drain_capture_events

Keys == Participants \X Names

\* What a node list says of one node.
Samples == [name : Names, endpoints : SUBSET Endpoints]

\* A topic name is a prefix ("" when it starts with "/", "other" when it is
\* no ROS name), a base name, the part of an action and the suffix of a call;
\* a type name is its kind and its suffix.
ASSUME GraphAssumptions ==
    /\ Owner \in [Endpoints -> Participants]
    /\ Readers \subseteq Endpoints
    /\ \A e \in Endpoints :
           /\ Wire[e].prefix \in {"rt", "rq", "rr", "", "other"}
           /\ Wire[e].action \in {"none", "send_goal", "get_result", "cancel_goal",
                                  "feedback", "status"}
           /\ Wire[e].call \in {"none", "Request", "Reply", "Response"}
           /\ Wire[e].kind \in {"msg", "srv", "action", "none"}
           /\ Wire[e].part \in {"none", "Request", "Response"}
    /\ InfoWriter \in [Participants -> Endpoints \cup {None}]
    /\ InfoReaders \subseteq Readers
    /\ None \notin Keys
    /\ \A p \in Participants : \A info \in Infos[p] :
           /\ info \in Seq(Samples)
           /\ \A i \in DOMAIN info : \A e \in info[i].endpoints : Owner[e] = p
    /\ Sources \in [Participants -> SUBSET {"local", "remote"}]
    /\ MaxBurst \in Nat

\* How the ROS middlewares name endpoints (an assumption about the observed
\* systems): only services and actions come under rq and rr.  They come under
\* other prefixes too: feedback, status and service events, and all of Zenoh.
ASSUME NamingConvention ==
    \A e \in Endpoints :
        Wire[e].prefix \in {"rq", "rr"} => Wire[e].action # "none" \/ Wire[e].kind = "srv"

VARIABLES
    participants,   \* DiscoveryTable.participants
    endpoints,      \* DiscoveryTable.publications, subscriptions
    table,          \* NodeTable: nodes, index (writers, readers), byParticipant
    remote,         \* remote_participants
    burst,          \* events drain_capture_events has handled so far, 0 outside
    dirty,          \* `dirty` of drain_capture_events
    published,      \* the CommandState in SharedState
    contested,      \* history: endpoints that two nodes claimed
    orphans,        \* history: participants whose node list came while unknown
    heardRemote,    \* history: participants heard from a remote IP since they
                    \* were last inserted, also when they have left
    expired         \* history: participants a sweep dropped, until heard again

sources == <<participants, endpoints, table, remote>>
vars == <<sources, burst, dirty, published, contested, orphans, heardRemote, expired>>

----------------------------------------------------------------------------
(* NodeTable.                                                              *)

EmptyTable ==
    [nodes |-> << >>, index |-> [e \in Endpoints |-> None],
     byParticipant |-> [p \in Participants |-> {}]]

\* insert_indexes: the endpoint's index entry goes to the latest claim.
InsertIndexes(t, key) ==
    [t EXCEPT !.index = [e \in Endpoints |-> IF e \in t.nodes[key] THEN key ELSE @[e]],
              !.byParticipant[key[1]] = @ \cup {key}]

\* remove_indexes of some nodes: by endpoint, whichever node an entry names
\* by now.
RemoveIndexes(t, keys) ==
    [nodes |-> t.nodes,
     index |-> [e \in Endpoints |->
                   IF \E k \in keys : e \in t.nodes[k] THEN None ELSE t.index[e]],
     byParticipant |-> [p \in Participants |-> t.byParticipant[p] \ keys]]

\* remove_node, of nodes in the table and in any order.
RemoveNodes(t, keys) ==
    [RemoveIndexes(t, keys) EXCEPT
        !.nodes = [k \in DOMAIN t.nodes \ keys |-> t.nodes[k]]]

\* Mutant: the index entries of the previous sample stay.
UpsertSampleKeepsIndexes(t, p, sample) ==
    LET key == <<p, sample.name>>
        Stored == [k \in DOMAIN t.nodes \cup {key} |->
                      IF k = key THEN sample.endpoints ELSE t.nodes[k]]
    IN  InsertIndexes([t EXCEPT !.nodes = Stored], key)

\* upsert_sample: the previous entry of the same name in the participant is
\* replaced, its endpoints are forgotten.
UpsertSample(t, p, sample) ==
    LET key == <<p, sample.name>>
        cleared == IF key \in DOMAIN t.nodes THEN RemoveIndexes(t, {key}) ELSE t
        Stored == [k \in DOMAIN t.nodes \cup {key} |->
                      IF k = key THEN sample.endpoints ELSE t.nodes[k]]
    IN  InsertIndexes([cleared EXCEPT !.nodes = Stored], key)

\* replace_participant_nodes: nodes that are not listed any more go first,
\* then the samples are stored in order.
ReplaceParticipantNodes(t, p, samples) ==
    LET retained == {<<p, samples[i].name>> : i \in DOMAIN samples}
        stored[n \in 0 .. Len(samples)] ==
            IF n = 0 THEN RemoveNodes(t, t.byParticipant[p] \ retained)
                     ELSE UpsertSample(stored[n - 1], p, samples[n])
    IN  stored[Len(samples)]

\* replace_participant_nodes with no samples, for each expired participant.
DropNodes(t, gone) == RemoveNodes(t, UNION {t.byParticipant[p] : p \in gone})

----------------------------------------------------------------------------
(* What an endpoint's names say.                                           *)

\* normalize_topic_name: None for a name that is no ROS name.
IsRosName(e) == Wire[e].prefix # "other"

\* The name without its prefix.
TopicName(e) == [name |-> Wire[e].name, action |-> Wire[e].action, call |-> Wire[e].call]

\* classify_action_endpoint: feedback and status are written by the server,
\* requests are read by it; a request is known by the topic or by the type.
ActionRole(e) ==
    LET isRequest == Wire[e].call = "Request" \/ Wire[e].part = "Request"
        serves == IF Wire[e].action \in {"feedback", "status"}
                  THEN e \notin Readers
                  ELSE (e \in Readers) = isRequest
    IN  IF serves THEN "server" ELSE "client"

IsAction(e) == Wire[e].action # "none"

\* classify_service_endpoint; a type without a suffix is a Zenoh service,
\* whose server is the reader.
IsService(e) == Wire[e].kind = "srv"

ServiceRole(e) ==
    IF (e \in Readers) = (Wire[e].part # "Response") THEN "server" ELSE "client"

\* normalize_service_name: the suffix is cut when it fits the type's.
ServiceName(e) ==
    LET fits == \/ Wire[e].part = "Request" /\ Wire[e].call = "Request"
                \/ Wire[e].part = "Response" /\ Wire[e].call \in {"Reply", "Response"}
    IN  [TopicName(e) EXCEPT !.call = IF fits THEN "none" ELSE @]

\* is_topic_endpoint
IsTopicEndpoint(e) == ~IsAction(e) /\ ~IsService(e)

----------------------------------------------------------------------------
(* refresh_from_discovery.                                                 *)

\* Mutant: any node of the participant will do.
EndpointNodeAny(e) ==
    LET siblings == table.byParticipant[Owner[e]] \cap DOMAIN table.nodes
    IN  IF table.index[e] \in DOMAIN table.nodes THEN table.index[e]
        ELSE IF siblings # {} THEN CHOOSE k \in siblings : TRUE
        ELSE None

\* endpoint_node: the node that claims the endpoint, or else the only node
\* of its participant.
EndpointNode(e) ==
    LET siblings == table.byParticipant[Owner[e]] \cap DOMAIN table.nodes
    IN  IF table.index[e] \in DOMAIN table.nodes THEN table.index[e]
        ELSE IF Cardinality(siblings) = 1 THEN CHOOSE k \in siblings : TRUE
        ELSE None

NodeNames == {k[2] : k \in DOMAIN table.nodes}

\* The endpoints in the discovery table that some node of this name lists;
\* nodes of one name in several participants are merged.
NodeEndpoints(n) ==
    {e \in endpoints : \E k \in DOMAIN table.nodes : k[2] = n /\ e \in table.nodes[k]}

\* build_node_details
NodeDetails(n) ==
    LET shown == {e \in NodeEndpoints(n) : IsRosName(e) /\ ~IsAction(e)}
        topics == {e \in shown : ~IsService(e)}
        Services(role) ==
            {ServiceName(e) : e \in {s \in shown : IsService(s) /\ ServiceRole(s) = role}}
    IN  [name |-> n,
         subscribers |-> {TopicName(e) : e \in topics \cap Readers},
         publishers |-> {TopicName(e) : e \in topics \ Readers},
         servers |-> Services("server"), clients |-> Services("client")]

\* endpoint_info, with the local_only that only publishers are given.
EndpointInfo(e) ==
    [endpoint |-> e, node |-> EndpointNode(e),
     local |-> e \notin Readers /\ Owner[e] \notin remote]

\* DiscoveryTable::topics: endpoints are grouped by the name on the wire.
WireTopic(e) == <<Wire[e].prefix, TopicName(e)>>

\* local_only of topic_details_from_view
LocalOnly(members) == \A e \in members : Owner[e] \notin remote

\* topic_details_from_view: request and reply topics of services are left
\* out, and so is a topic without an endpoint that is one of a topic.
Topics ==
    LET shown == {e \in endpoints : Wire[e].prefix \in {"rt", ""} /\ IsTopicEndpoint(e)}
        Members(w) == {e \in shown : WireTopic(e) = w}
    IN  {[name |-> w[2],
          publishers |-> {EndpointInfo(e) : e \in Members(w) \ Readers},
          subscriptions |-> {EndpointInfo(e) : e \in Members(w) \cap Readers},
          localOnly |-> LocalOnly(Members(w))] : w \in {WireTopic(e) : e \in shown}}

\* build_actions, build_action_details: an endpoint without a node names the
\* action but neither a client nor a server of it.
Actions ==
    LET shown == {e \in endpoints : IsRosName(e) /\ IsAction(e)}
        Nodes(name, role) ==
            {EndpointNode(e)[2] : e \in {a \in shown : /\ Wire[a].name = name
                                                       /\ ActionRole(a) = role
                                                       /\ EndpointNode(a) # None}}
    IN  {[name |-> name, clients |-> Nodes(name, "client"),
          servers |-> Nodes(name, "server")] : name \in {Wire[e].name : e \in shown}}

\* refresh_from_discovery, with build_services and
\* middleware_status_from_discovery.
View ==
    LET details == {NodeDetails(n) : n \in NodeNames}
    IN  [nodeDetails |-> details,
         services |-> UNION {d.servers \cup d.clients : d \in details},
         topics |-> Topics, actions |-> Actions,
         dds |-> endpoints # {} \/ table.nodes # << >>]

----------------------------------------------------------------------------
(* The runtime loop: handle_rtps_event within drain_capture_events, and    *)
(* the sweep.                                                              *)

Init ==
    /\ participants = {} /\ endpoints = {} /\ remote = {}
    /\ table = EmptyTable
    /\ burst = 0 /\ dirty = FALSE
    /\ published = [nodeDetails |-> {}, services |-> {}, topics |-> {},
                    actions |-> {}, dds |-> FALSE]
    /\ contested = {} /\ orphans = {} /\ heardRemote = {} /\ expired = {}

\* drain_capture_events takes the next event.
Handle == burst < MaxBurst /\ burst' = burst + 1

\* heardRemote after p was heard.
Heard(p, source) ==
    IF source = "remote" THEN heardRemote \cup {p}
    ELSE IF p \in participants THEN heardRemote ELSE heardRemote \ {p}

\* Mutant: an SPDP heartbeat of a known participant reports Noop.
SpdpHeartbeatNoop(p, source) ==
    /\ Handle
    /\ remote' = remote \cup {q \in {p} : source = "remote"}
    /\ heardRemote' = Heard(p, source) /\ expired' = expired \ {p}
    /\ participants' = participants \cup {p}
    /\ dirty' = (dirty \/ p \notin participants)
    /\ UNCHANGED <<endpoints, table, published, contested, orphans>>

\* Mutant: where a participant is heard counts only when it is new.
SpdpRemoteOfNew(p, source) ==
    /\ Handle
    /\ remote' = remote \cup {q \in {p} \ participants : source = "remote"}
    /\ heardRemote' = Heard(p, source) /\ expired' = expired \ {p}
    /\ participants' = participants \cup {p}
    /\ dirty' = TRUE
    /\ UNCHANGED <<endpoints, table, published, contested, orphans>>

\* An SPDP announcement; upsert_participant reports Inserted or Updated, and
\* both ask for a rebuild.
Spdp(p, source) ==
    /\ Handle
    /\ remote' = remote \cup {q \in {p} : source = "remote"}
    /\ heardRemote' = Heard(p, source) /\ expired' = expired \ {p}
    /\ participants' = participants \cup {p}
    /\ dirty' = TRUE
    /\ UNCHANGED <<endpoints, table, published, contested, orphans>>

\* An SEDP announcement, before or after the participant's SPDP.
Sedp(e) ==
    /\ Handle
    /\ endpoints' = endpoints \cup {e}
    /\ dirty' = TRUE
    /\ UNCHANGED <<participants, table, remote, published, contested, orphans, heardRemote,
                   expired>>

\* A disposal through SEDP; Noop for an endpoint that is not known.
DisposeEndpoint(e) ==
    /\ Handle
    /\ endpoints' = endpoints \ {e}
    /\ dirty' = (dirty \/ e \in endpoints)
    /\ UNCHANGED <<participants, table, remote, published, contested, orphans, heardRemote,
                   expired>>

\* A disposal through SPDP: the participant leaves with its endpoints and
\* nodes.  remote_participants keeps it.
DisposeParticipant(p) ==
    /\ Handle
    /\ p \in participants
    /\ participants' = participants \ {p}
    /\ endpoints' = {e \in endpoints : Owner[e] # p}
    /\ table' = ReplaceParticipantNodes(table, p, << >>)
    /\ dirty' = TRUE
    /\ orphans' = orphans \ {p}
    /\ UNCHANGED <<remote, published, contested, heardRemote, expired>>

\* The endpoints two nodes claim, in a node list or by an older entry.
Claimed(p, info) ==
    {e \in Endpoints :
        \/ \E i, j \in DOMAIN info : i # j /\ e \in info[i].endpoints \cap info[j].endpoints
        \/ \E i \in DOMAIN info, k \in DOMAIN table.nodes :
               e \in info[i].endpoints \cap table.nodes[k] /\ k # <<p, info[i].name>>}

\* handle_data_message: a sample is a node list if its writer is known, by
\* SEDP, to write ros_discovery_info, or the reader it is addressed to (one of
\* another participant, as a rule) to read it.  The participant need not be
\* known.
DiscoveryInfo(p, info) ==
    /\ Handle
    /\ InfoWriter[p] \in endpoints \/ InfoReaders \cap endpoints # {}
    /\ table' = ReplaceParticipantNodes(table, p, info)
    /\ dirty' = TRUE
    /\ contested' = contested \cup Claimed(p, info)
    /\ orphans' = orphans \cup ({p} \ participants)
    /\ UNCHANGED <<participants, endpoints, remote, published, heardRemote, expired>>

\* The channel is empty: one rebuild for the whole burst.
EndDrain ==
    /\ burst > 0
    /\ published' = IF dirty THEN View ELSE published
    /\ burst' = 0 /\ dirty' = FALSE
    /\ UNCHANGED <<sources, contested, orphans, heardRemote, expired>>

\* The discovery_sweep branch.  An endpoint does not expire while its
\* participant stays (SweepKeepsEndpoints of DiscoveryTable: participants
\* announce a lease), but it can outlive it.
Sweep(gone, goneEnds) ==
    /\ burst = 0
    /\ gone \cup goneEnds # {}
    /\ \A e \in goneEnds : Owner[e] \notin participants \ gone
    /\ participants' = participants \ gone
    /\ endpoints' = endpoints \ goneEnds
    /\ remote' = remote \ gone
    /\ table' = DropNodes(table, gone)
    /\ published' = View'
    /\ orphans' = orphans \ gone /\ expired' = expired \cup gone
    /\ UNCHANGED <<burst, dirty, contested, heardRemote>>

Next ==
    \/ \E p \in Participants :
           \/ \E source \in Sources[p] : Spdp(p, source)
           \/ DisposeParticipant(p)
           \/ \E info \in Infos[p] : DiscoveryInfo(p, info)
    \/ \E e \in Endpoints : Sedp(e) \/ DisposeEndpoint(e)
    \/ EndDrain
    \/ \E gone \in SUBSET participants, goneEnds \in SUBSET endpoints : Sweep(gone, goneEnds)

Spec == Init /\ [][Next]_vars

----------------------------------------------------------------------------
(* Properties.                                                             *)

\* Type invariant; the indexes hold only nodes of the table.
TypeOK ==
    /\ participants \subseteq Participants /\ endpoints \subseteq Endpoints
    /\ remote \subseteq Participants
    /\ burst \in 0 .. MaxBurst /\ dirty \in BOOLEAN
    /\ DOMAIN table.nodes \subseteq Keys
    /\ \A k \in DOMAIN table.nodes : table.nodes[k] \subseteq Endpoints
    /\ table.index \in [Endpoints -> DOMAIN table.nodes \cup {None}]
    /\ table.byParticipant \in [Participants -> SUBSET DOMAIN table.nodes]

\* The index is consistent after any sequence of node lists, with nodes that
\* vanish, swap endpoints or share a name: it never attributes an endpoint to
\* a node whose latest list lacks it, and it finds the node of every endpoint
\* that no other node ever claimed.
NodeIndexExact ==
    /\ \A e \in Endpoints : table.index[e] # None => e \in table.nodes[table.index[e]]
    /\ \A k \in DOMAIN table.nodes :
           /\ k \in table.byParticipant[k[1]]
           /\ \A e \in table.nodes[k] \ contested : table.index[e] = k

\* Nodes leave with their participant, whether it is disposed or expires: a
\* node that is listed has a participant in the table, unless its node list
\* arrived when the participant was already (or still) unknown.
NodesFollowParticipants ==
    \A k \in DOMAIN table.nodes : k[1] \in participants \cup orphans

\* The node table and its two indexes are consistent, with each other and with
\* the participants, after every list, disposal and sweep.
NodeTableExact == TypeOK /\ NodeIndexExact /\ NodesFollowParticipants

\* Whenever no burst is being drained, the commands see the tables as they
\* are: no handler changes a source of the snapshot without asking for a
\* rebuild (the note in upsert_participant is about such orphan mutations).
SnapshotFresh == burst = 0 => published = View

\* The views of topics and nodes agree in what is published: a node named as
\* publisher or subscriber of a topic lists that topic, or is the only node
\* its participant could have; a topic a node lists is in the topic list.
ViewsAgree ==
    burst = 0 =>
        /\ \A t \in published.topics :
               \A i \in t.publishers \cup t.subscriptions :
                   i.node # None =>
                       \/ \E d \in published.nodeDetails :
                              /\ d.name = i.node[2]
                              /\ t.name \in d.publishers \cup d.subscribers
                       \/ \A k \in DOMAIN table.nodes :
                              k[1] = Owner[i.endpoint] => k = i.node
        /\ \A d \in published.nodeDetails :
               d.publishers \cup d.subscribers \subseteq {t.name : t \in published.topics}

\* A topic that has an endpoint of a participant heard from another host is
\* shown as local only after a sweep has dropped that participant and while it
\* has not been heard again: the sweep forgets where an expired participant was
\* heard although its endpoints may live on.  Nothing else does, no heartbeat,
\* disposal or late announcement, from any address and in any order.
LocalOnlySound ==
    burst = 0 =>
        \A t \in published.topics :
            t.localOnly =>
                \A i \in t.publishers \cup t.subscriptions :
                    Owner[i.endpoint] \in heardRemote => Owner[i.endpoint] \in expired

=============================================================================
