---------------------------- MODULE ZenohTokens ----------------------------
(***************************************************************************)
(* The semantic state of a capture worker's Zenoh processor                *)
(* (protocols/zenoh.rs): the liveliness tokens declared on each flow       *)
(* direction, the count of declarations behind each ROS entity, and the    *)
(* batches of discovery events that the worker hands to the runtime.       *)
(*                                                                         *)
(* One packet carries one message here; the code's longer batches are      *)
(* several packets.  A batch therefore reports the entities that went and  *)
(* then at most one that appeared.  A declaration whose key expression     *)
(* cannot be resolved is ignored, like any message but those below, and is *)
(* covered by KeepAlive.                                                   *)
(***************************************************************************)
EXTENDS Integers, Sequences, FiniteSets

CONSTANTS
    Directions,       \* ZenohFlowDirection: protocol and directed flow
    Ids,              \* token ids of a session
    Tokens,           \* liveliness key expressions of ROS entities
    NoToken,          \* no declaration, or one of another application
    Limits,           \* to choose one from: MAX_FRAGMENT_FLOWS, here the
                      \* directions tracked, and the ids in use (bound)
    ChannelCapacity,  \* CAPTURE_EVENT_CHANNEL_CAPACITY
    MaxTime           \* bound: clock

ASSUME TokenAssumptions ==
    /\ IsFiniteSet(Directions) /\ IsFiniteSet(Ids)
    /\ NoToken \notin Tokens
    /\ Limits \subseteq [capacity : Nat \ {0}, ids : SUBSET Ids]
    /\ ChannelCapacity \in Nat \ {0}
    /\ MaxTime \in Nat

VARIABLES
    limits,      \* which of Limits
    tokenTable,  \* token_tables: the ROS token behind each id of a direction
    flowOrder,   \* flow_order, which lists the keys of keyexpr_tables
    refs,        \* ZenohRosGraph.ref_counts
    channel,     \* CaptureWorkerEvents on their way to the runtime
    clock

workerVars == <<limits, tokenTable, flowOrder, refs>>

Capacity == limits.capacity
Times == 0 .. MaxTime
Slots == Directions \X Ids
Batch == [flow : Directions, at : Times, gone : SUBSET Tokens, found : SUBSET Tokens]

TokensInit ==
    /\ limits \in Limits
    /\ tokenTable = [s \in Slots |-> NoToken]
    /\ flowOrder = <<>>
    /\ refs = [k \in Tokens |-> 0]
    /\ channel = <<>> /\ clock = 0

Tracked(d) == \E i \in 1 .. Len(flowOrder) : flowOrder[i] = d
SlotsOf(d) == {d} \X Ids

\* ensure_flow_direction: a new direction evicts the oldest when all places
\* are taken.
MustEvict(d) == ~Tracked(d) /\ Len(flowOrder) >= Capacity
EvictedSlots(d) == IF MustEvict(d) THEN SlotsOf(Head(flowOrder)) ELSE {}

Track(d) ==
    IF Tracked(d) THEN flowOrder
    ELSE Append(IF MustEvict(d) THEN Tail(flowOrder) ELSE flowOrder, d)

\* remove_flow_direction takes the first place of d out of the order.
Untrack(d, order) ==
    IF \E i \in DOMAIN order : order[i] = d
    THEN LET i == CHOOSE i \in DOMAIN order :
                     order[i] = d /\ \A j \in 1 .. i - 1 : order[j] # d
         IN  SubSeq(order, 1, i - 1) \o SubSeq(order, i + 1, Len(order))
    ELSE order

\* ZenohRosGraph::remove for the tokens of `slots`, then insert of `added`.
Left(slots, k) == refs[k] - Cardinality({s \in slots : tokenTable[s] = k})

Recount(slots, added) ==
    refs' = [k \in Tokens |-> Left(slots, k) + (IF k = added THEN 1 ELSE 0)]

\* Mutant: every undeclare is reported, not only the last one.
ReportEach(d, slots, added) ==
    [flow |-> d, at |-> clock,
     gone |-> {k \in Tokens : \E s \in slots : tokenTable[s] = k},
     found |-> {k \in {added} \cap Tokens : Left(slots, k) = 0}]

\* An entity is reported when its last declaration goes or its first comes.
\* The batch names the flow of the packet, whatever flow the tokens were
\* declared on.
Report(d, slots, added) ==
    [flow |-> d, at |-> clock,
     gone |-> {k \in Tokens : Left(slots, k) = 0 /\ \E s \in slots : tokenTable[s] = k},
     found |-> {k \in {added} \cap Tokens : Left(slots, k) = 0}]

\* The worker retries try_send until the channel has room.
Deliver(b) == Len(channel) < ChannelCapacity /\ channel' = Append(channel, b)

RecountAndDeliver(d, slots, added) ==
    Recount(slots, added) /\ Deliver(Report(d, slots, added))

\* semantic_events_batch: a FIN or RST without events makes no batch.
DeliverIfAny(b) == IF b.gone = {} THEN UNCHANGED channel ELSE Deliver(b)

Cleared(slots) == [s \in Slots |-> IF s \in slots THEN NoToken ELSE tokenTable[s]]

\* Mutant: a repeated declaration is counted again.
DeclareTokenTwice(d, id, t) ==
    /\ tokenTable' = [Cleared(EvictedSlots(d)) EXCEPT ![<<d, id>>] = t]
    /\ flowOrder' = Track(d)
    /\ RecountAndDeliver(d, EvictedSlots(d), t)
    /\ UNCHANGED <<limits, clock>>

\* DeclareToken: an id may be declared again, for the same token or another.
DeclareToken(d, id, t) ==
    LET old == tokenTable[<<d, id>>] IN
    /\ tokenTable' = [Cleared(EvictedSlots(d)) EXCEPT ![<<d, id>>] = t]
    /\ flowOrder' = Track(d)
    /\ IF old = t
       THEN RecountAndDeliver(d, EvictedSlots(d), NoToken)
       ELSE RecountAndDeliver(d, EvictedSlots(d) \cup {<<d, id>>}, t)
    /\ UNCHANGED <<limits, clock>>

UndeclareToken(d, id) ==
    LET slots == EvictedSlots(d) \cup {<<d, id>>} IN
    /\ tokenTable' = Cleared(slots)
    /\ flowOrder' = Track(d)
    /\ RecountAndDeliver(d, slots, NoToken)
    /\ UNCHANGED <<limits, clock>>

\* Any other message: the direction is tracked, the batch has no events of
\* its own but still tells the runtime that the flow is active.
KeepAlive(d) ==
    /\ tokenTable' = Cleared(EvictedSlots(d))
    /\ flowOrder' = Track(d)
    /\ RecountAndDeliver(d, EvictedSlots(d), NoToken)
    /\ UNCHANGED <<limits, clock>>

\* Close: the direction is tracked first and dropped again, remove_flow_direction.
Close(d) ==
    LET slots == EvictedSlots(d) \cup SlotsOf(d) IN
    /\ tokenTable' = Cleared(slots)
    /\ flowOrder' = Untrack(d, Track(d))
    /\ RecountAndDeliver(d, slots, NoToken)
    /\ UNCHANGED <<limits, clock>>

\* TCP FIN or RST (process_tcp).
Reset(d) ==
    /\ tokenTable' = Cleared(SlotsOf(d))
    /\ flowOrder' = Untrack(d, flowOrder)
    /\ Recount(SlotsOf(d), NoToken)
    /\ DeliverIfAny(Report(d, SlotsOf(d), NoToken))
    /\ UNCHANGED <<limits, clock>>

\* tcp_flow_state (see ZenohTransport): a new TCP flow takes the place of the
\* oldest one, whose tokens go without a batch that tells the runtime.
Displace(d) ==
    /\ tokenTable' = Cleared(SlotsOf(d))
    /\ flowOrder' = Untrack(d, flowOrder)
    /\ Recount(SlotsOf(d), NoToken)
    /\ UNCHANGED <<limits, channel, clock>>

Worker ==
    \E d \in Directions :
        \/ KeepAlive(d) \/ Close(d) \/ Reset(d) \/ Displace(d)
        \/ \E id \in limits.ids :
              \/ UndeclareToken(d, id)
              \/ \E t \in Tokens \cup {NoToken} : DeclareToken(d, id, t)

----------------------------------------------------------------------------
(* Properties of the worker.                                               *)

\* Every entity's count is the number of declarations behind it, over all
\* flows, after any mix of repeated ids, replaced tokens, closes and evictions
\* (`*count -= 1` would underflow otherwise, or an entity would never go).
RefCountsExact ==
    \A k \in Tokens : refs[k] = Cardinality({s \in Slots : tokenTable[s] = k})

\* The per-flow state is bounded: at most Capacity directions are tracked, each
\* listed once in the eviction order, and tokens are kept for no other.
FlowStateBounded ==
    /\ Len(flowOrder) <= Capacity
    /\ \A i, j \in 1 .. Len(flowOrder) : flowOrder[i] = flowOrder[j] => i = j
    /\ \A s \in Slots : tokenTable[s] # NoToken => Tracked(s[1])

\* The worker's counts and its bounded table of flows agree, through every
\* declaration, replacement, close, reset and eviction.
WorkerExact == RefCountsExact /\ FlowStateBounded
=============================================================================
