--------------------------- MODULE CaptureWorkers ---------------------------
(* The capture workers and the runtime that reads them: each worker decodes *)
(* the RTPS packets of one interface (protocols/rtps.rs), reassembling      *)
(* DATA_FRAG samples within a byte budget all workers share, and sends its  *)
(* events through one bounded channel (runtime/mod.rs, spawn_capture_worker)*)
(* to the runtime, which drops the samples it has seen (RecentSampleCache)  *)
(* and applies the rest.  Every worker sees the same packets in the same    *)
(* order, except those it misses.  Sizes and offsets count fragments.       *)
EXTENDS Integers, FiniteSets, FiniteSetsExt, TLC, Reassembly

CONSTANTS Workers, Samples, Participants,
  Wires,            \* [names -> packet sequences], to choose one from; a
                    \* packet is a sequence of submessages
  FlowCapacity,     \* capacity of an RtpsProcessor
  SampleLimit,      \* RTPS_FRAGMENT_DEFRAG_FLOW_CAPACITY
  MaxRanges,        \* RTPS_FRAGMENT_MAX_RANGES
  Budget,           \* RTPS_FRAGMENT_DEFRAG_TOTAL_CAPACITY
  ChannelCapacity,  \* CAPTURE_EVENT_CHANNEL_CAPACITY
  CacheCapacity,    \* RECENT_SAMPLE_CACHE_CAPACITY
  MaxMissed         \* bound on the packets the capture rings drop

\* resolve_capture_interfaces always includes the loopback.
ASSUME WorkersAssumption == IsFiniteSet(Workers) /\ Workers # {}

\* A DATA_FRAG whose first fragment is number 0 is unreadable, that is "bad".
ASSUME WireAssumption ==
  \A x \in DOMAIN Wires :
    /\ Wires[x] \in Seq(ToSet(Wires[x]))
    /\ \A n \in DOMAIN Wires[x] :
         /\ Wires[x][n] \in Seq(ToSet(Wires[x][n]))
         /\ \A m \in DOMAIN Wires[x][n] :
              LET sub == Wires[x][n][m] IN
              sub.kind = "frag" =>
                sub.start \in Nat \ {0} /\ sub.count \in Nat /\ sub.size \in Nat

ASSUME BoundAssumption ==
  {FlowCapacity, SampleLimit, MaxRanges, Budget, ChannelCapacity, CacheCapacity}
    \subseteq Nat \ {0}

VARIABLES
  wire,      \* which packets are on the wire
  pos,       \* [Workers -> packets seen or missed so far]
  missed,    \* {<<worker, position>>}: packets the capture ring dropped
  at,        \* [Workers -> next submessage of the current packet]
  got,       \* [Workers -> events of the current packet]
  events,    \* [Workers -> events of the current batch]
  pc,        \* [Workers -> where the worker is]
  flows,     \* [Workers -> RtpsProcessor::flows]
  order,     \* [Workers -> RtpsProcessor::order]
  used,      \* RtpsFragmentMemoryBudget::used
  chan,      \* the channel, a sequence of batches
  batch,     \* what is left of the batch the runtime is applying
  cache,     \* RecentSampleCache::order
  log,       \* the samples applied, in order
  alive,     \* participants in the discovery table
  runtime    \* "running", "stopping" after ctrl-c, "gone"

procVars == <<flows, order>>
workVars == <<at, got, events, pc>>
rtVars == <<batch, cache, log, alive>>
vars == <<wire, pos, missed, workVars, procVars, used, chan, rtVars, runtime>>

Init ==
  /\ wire \in DOMAIN Wires
  /\ pos = [w \in Workers |-> 0]
  /\ missed = {}
  /\ at = [w \in Workers |-> 1]
  /\ got = [w \in Workers |-> <<>>]
  /\ events = [w \in Workers |-> <<>>]
  /\ pc = [w \in Workers |-> "pump"]
  /\ flows = [w \in Workers |-> <<>>]
  /\ order = [w \in Workers |-> <<>>]
  /\ used = 0
  /\ chan = <<>>
  /\ batch = <<>> /\ cache = <<>> /\ log = <<>> /\ alive = {}
  /\ runtime = "running"

Packets == Wires[wire]
Event(kind, id, whole) == [kind |-> kind, id |-> id, whole |-> whole]

\* The bytes reserved for some flows of a worker, and for all of them.
Bytes(w, keys) == UNION {{<<w, k>>} \X (1 .. flows[w][k].size) : k \in keys}
Held(w) == Bytes(w, DOMAIN flows[w])

----------------------------------------------------------------------------
(* A worker: the pump loop.                                                 *)

\* A packet of the current batch reaches rtps.process_packet; the worker may
\* have passed its test of the stop flag just before the flag was set.
Pump(w) ==
  /\ pc[w] = "pump"
  /\ pos[w] < Len(Packets)
  /\ pos' = [pos EXCEPT ![w] = @ + 1]
  /\ at' = [at EXCEPT ![w] = 1]
  /\ pc' = [pc EXCEPT ![w] = "packet"]
  /\ UNCHANGED <<wire, missed, got, events, procVars, used, chan, rtVars, runtime>>

\* The capture ring was full: the worker never sees the packet.
Miss(w) ==
  /\ pc[w] = "pump"
  /\ Cardinality(missed) < MaxMissed
  /\ pos[w] < Len(Packets)
  /\ pos' = [pos EXCEPT ![w] = @ + 1]
  /\ missed' = missed \cup {<<w, pos[w] + 1>>}
  /\ UNCHANGED <<wire, workVars, procVars, used, chan, rtVars, runtime>>

\* The end of a packet: its events join the batch.
EndPacket(w) ==
  /\ pc[w] = "packet" /\ at[w] > Len(Packets[pos[w]])
  /\ events' = [events EXCEPT ![w] = @ \o got[w]]
  /\ got' = [got EXCEPT ![w] = <<>>]
  /\ pc' = [pc EXCEPT ![w] = "pump"]
  /\ UNCHANGED <<wire, pos, missed, at, procVars, used, chan, rtVars, runtime>>

\* The end of a batch: an empty one is not sent.
EndBatch(w) ==
  /\ pc[w] = "pump" /\ events[w] # <<>>
  /\ pc' = [pc EXCEPT ![w] = "send"]
  /\ UNCHANGED <<wire, pos, missed, at, got, events, procVars, used, chan,
                 rtVars, runtime>>

\* Mutant: a batch that finds the channel full is dropped.
TrySendOnce(w) ==
  /\ pc[w] = "send" /\ runtime = "running"
  /\ chan' = IF Len(chan) < ChannelCapacity THEN Append(chan, events[w]) ELSE chan
  /\ events' = [events EXCEPT ![w] = <<>>]
  /\ pc' = [pc EXCEPT ![w] = "pump"]
  /\ UNCHANGED <<wire, pos, missed, at, got, procVars, used, rtVars, runtime>>

\* try_send until it succeeds; a batch is given up only when asked to stop.
TrySend(w) ==
  /\ pc[w] = "send" /\ runtime = "running"
  /\ Len(chan) < ChannelCapacity
  /\ chan' = Append(chan, events[w])
  /\ events' = [events EXCEPT ![w] = <<>>]
  /\ pc' = [pc EXCEPT ![w] = "pump"]
  /\ UNCHANGED <<wire, pos, missed, at, got, procVars, used, rtVars, runtime>>

\* Mutant: the send loop does not look at the stop flag.
ExitBetweenBatches(w) ==
  /\ runtime = "stopping" /\ pc[w] = "pump"
  /\ pc' = [pc EXCEPT ![w] = "exited"]
  /\ used' = used - Cardinality(Held(w))
  /\ flows' = [flows EXCEPT ![w] = <<>>]
  /\ order' = [order EXCEPT ![w] = <<>>]
  /\ events' = [events EXCEPT ![w] = <<>>]
  /\ UNCHANGED <<wire, pos, missed, at, got, chan, rtVars, runtime>>

\* The stop flag ends the loops; a closed channel ends the worker when it
\* sends.  Dropping the processor returns what its flows hold.
Exit(w) ==
  /\ \/ runtime = "stopping" /\ pc[w] \in {"pump", "send"}
     \/ runtime = "gone" /\ pc[w] = "send"
  /\ pc' = [pc EXCEPT ![w] = "exited"]
  /\ used' = used - Cardinality(Held(w))
  /\ flows' = [flows EXCEPT ![w] = <<>>]
  /\ order' = [order EXCEPT ![w] = <<>>]
  /\ events' = [events EXCEPT ![w] = <<>>]
  /\ UNCHANGED <<wire, pos, missed, at, got, chan, rtVars, runtime>>

----------------------------------------------------------------------------
(* RtpsProcessor::process_packet, one submessage at a time.                 *)

Sub(w) == Packets[pos[w]][at[w]]
AtSub(w, kind) ==
  pc[w] = "packet" /\ at[w] <= Len(Packets[pos[w]]) /\ Sub(w).kind = kind
NextSub(w) == at' = [at EXCEPT ![w] = @ + 1]

\* parse_data_submessage and message_to_event.
ParseData(w) ==
  /\ \E kind \in {"data", "announce", "dispose", "garbled"} :
       /\ AtSub(w, kind)
       /\ got' = [got EXCEPT ![w] = Append(@, Event(kind, Sub(w).id, TRUE))]
  /\ NextSub(w)
  /\ UNCHANGED <<wire, pos, missed, events, pc, procVars, used, chan, rtVars, runtime>>

\* Other submessages, and a DATA without payload and without disposal, give
\* no event.
SkipSub(w) ==
  /\ AtSub(w, "other")
  /\ NextSub(w)
  /\ UNCHANGED <<wire, pos, missed, got, events, pc, procVars, used, chan,
                 rtVars, runtime>>

\* A submessage whose fields cannot be read fails the whole packet: the worker
\* keeps none of its events, those of earlier submessages included.
ParseError(w) ==
  /\ AtSub(w, "bad")
  /\ at' = [at EXCEPT ![w] = Len(Packets[pos[w]]) + 1]
  /\ got' = [got EXCEPT ![w] = <<>>]
  /\ UNCHANGED <<wire, pos, missed, events, pc, procVars, used, chan, rtVars, runtime>>

\* Mutant: the bytes of the flow are not released.
RemoveFlowKeepsBytes(w, key) ==
  /\ flows' = [flows EXCEPT ![w] = [k \in DOMAIN @ \ {key} |-> @[k]]]
  /\ order' = [order EXCEPT ![w] = RemoveFirst(@, key)]
  /\ UNCHANGED used

\* remove_flow: the flow, its bytes and its place in the queue.
RemoveFlow(w, key) ==
  /\ flows' = [flows EXCEPT ![w] = [k \in DOMAIN @ \ {key} |-> @[k]]]
  /\ order' = [order EXCEPT ![w] = RemoveFirst(@, key)]
  /\ used' = used - flows[w][key].size

\* accept_data_frag on a known flow whose sample size has changed.
SizeChanged(w) ==
  /\ AtSub(w, "frag")
  /\ Sub(w).id \in DOMAIN flows[w] /\ flows[w][Sub(w).id].size # Sub(w).size
  /\ RemoveFlow(w, Sub(w).id)
  /\ NextSub(w)
  /\ UNCHANGED <<wire, pos, missed, got, events, pc, chan, rtVars, runtime>>

NewFlow(w) == AtSub(w, "frag") /\ Sub(w).id \notin DOMAIN flows[w]
Oversized(w) == Sub(w).size = 0 \/ Sub(w).size > SampleLimit

IgnoreFrag(w) ==
  /\ NewFlow(w) /\ Oversized(w)
  /\ NextSub(w)
  /\ UNCHANGED <<wire, pos, missed, got, events, pc, procVars, used, chan,
                 rtVars, runtime>>

\* The oldest flow makes room before the budget is asked.
EvictOldest(w) ==
  /\ NewFlow(w) /\ ~Oversized(w)
  /\ LET live == DOMAIN flows[w]
         gone == IF Cardinality(live) < FlowCapacity THEN {}
                 ELSE EvictVictim(order[w], live)
     IN  /\ flows' = [flows EXCEPT ![w] = [k \in live \ gone |-> @[k]]]
         /\ order' = [order EXCEPT ![w] =
                        IF Cardinality(live) < FlowCapacity THEN @
                        ELSE EvictQueue(@, live)]
         /\ used' = used - Cardinality(Bytes(w, gone))
  /\ pc' = [pc EXCEPT ![w] = "reserve"]
  /\ UNCHANGED <<wire, pos, missed, at, got, events, chan, rtVars, runtime>>

\* RtpsFragmentMemoryBudget::try_reserve: all or nothing.
Fits(bytes) == used + bytes <= Budget

TryReserve(w) ==
  /\ pc[w] = "reserve"
  /\ IF Fits(Sub(w).size)
     THEN /\ used' = used + Sub(w).size
          /\ flows' = [flows EXCEPT ![w] =
               [k \in DOMAIN @ \cup {Sub(w).id} |->
                  IF k = Sub(w).id
                  THEN [size |-> Sub(w).size, ranges |-> <<>>, written |-> {}]
                  ELSE @[k]]]
          /\ order' = [order EXCEPT ![w] = Append(@, Sub(w).id)]
          /\ UNCHANGED at
     ELSE NextSub(w) /\ UNCHANGED <<procVars, used>>
  /\ pc' = [pc EXCEPT ![w] = "packet"]
  /\ UNCHANGED <<wire, pos, missed, got, events, chan, rtVars, runtime>>

\* The bytes of the fragment: from the starting number, as many as it says,
\* cut at the end of the sample.
FragStart(w) == Sub(w).start - 1
FragEnd(w) == IF FragStart(w) + Sub(w).count <= Sub(w).size
              THEN FragStart(w) + Sub(w).count ELSE Sub(w).size

WriteFrag(w) ==
  /\ AtSub(w, "frag")
  /\ Sub(w).id \in DOMAIN flows[w] /\ flows[w][Sub(w).id].size = Sub(w).size
  /\ LET key  == Sub(w).id
         old  == flows[w][key]
         st   == [size |-> old.size,
                  ranges |-> InsertRange(old.ranges, FragStart(w), FragEnd(w)),
                  written |-> old.written \cup (FragStart(w) .. FragEnd(w) - 1)]
     IN  CASE FragEnd(w) <= FragStart(w) ->
                UNCHANGED <<procVars, used, got>>
           [] FragEnd(w) > FragStart(w)
              /\ ~RangeFits(old.ranges, FragStart(w), FragEnd(w), MaxRanges) ->
                RemoveFlow(w, key) /\ UNCHANGED got
           [] OTHER ->
                IF RangesComplete(st.ranges, st.size)
                THEN /\ RemoveFlow(w, key)
                     /\ got' = [got EXCEPT ![w] = Append(@,
                          Event("data", key, st.written = 0 .. st.size - 1))]
                ELSE /\ flows' = [flows EXCEPT ![w][key] = st]
                     /\ UNCHANGED <<order, used, got>>
  /\ NextSub(w)
  /\ UNCHANGED <<wire, pos, missed, events, pc, chan, rtVars, runtime>>

----------------------------------------------------------------------------
(* The runtime.                                                             *)

\* Mutant: the cache forgets what it is told.
RememberNothing(seen, id) == seen

\* RecentSampleCache::insert: the oldest sample makes room.
Remember(seen, id) ==
  Append(IF Len(seen) >= CacheCapacity THEN Tail(seen) ELSE seen, id)

\* Mutant: disposals are not applied.
AliveKeepsDisposed(e) ==
  IF e.kind = "announce" THEN alive \cup {e.id} ELSE alive

\* DiscoveryTable::apply_sample: discovery is applied as it comes.
AliveAfter(e) ==
  CASE e.kind = "announce" -> alive \cup {e.id}
    [] e.kind = "dispose"  -> alive \ {e.id}
    [] OTHER               -> alive

\* handle_rtps_event: a user sample passes once; a discovery payload that
\* cannot be parsed ends the runtime.
HandleRtpsEvent ==
  /\ runtime = "running" /\ batch # <<>>
  /\ LET e == Head(batch) IN
     /\ IF e.kind = "garbled" THEN runtime' = "gone" /\ batch' = <<>>
        ELSE UNCHANGED runtime /\ batch' = Tail(batch)
     /\ alive' = AliveAfter(e)
     /\ IF e.kind = "data" /\ e.id \notin ToSet(cache)
        THEN cache' = Remember(cache, e.id) /\ log' = Append(log, e.id)
        ELSE UNCHANGED <<cache, log>>
  /\ UNCHANGED <<wire, pos, missed, workVars, procVars, used, chan>>

\* drain_capture_events takes one batch at a time.
Drain ==
  /\ runtime = "running" /\ batch = <<>> /\ chan # <<>>
  /\ batch' = Head(chan) /\ chan' = Tail(chan)
  /\ UNCHANGED <<wire, pos, missed, workVars, procVars, used, cache, log, alive,
                 runtime>>

CtrlC ==
  /\ runtime = "running" /\ batch = <<>>
  /\ runtime' = "stopping"
  /\ UNCHANGED <<wire, pos, missed, workVars, procVars, used, chan, rtVars>>

\* The workers are joined and the runtime returns.
Join ==
  /\ runtime = "stopping" /\ \A w \in Workers : pc[w] = "exited"
  /\ runtime' = "gone"
  /\ UNCHANGED <<wire, pos, missed, workVars, procVars, used, chan, rtVars>>

Work(w) ==
  \/ Pump(w) \/ EndPacket(w) \/ EndBatch(w) \/ TrySend(w) \/ Exit(w)
  \/ ParseData(w) \/ SkipSub(w) \/ ParseError(w) \/ SizeChanged(w) \/ IgnoreFrag(w)
  \/ EvictOldest(w) \/ TryReserve(w) \/ WriteFrag(w)

Next == Drain \/ HandleRtpsEvent \/ CtrlC \/ Join \/ \E w \in Workers : Work(w) \/ Miss(w)

Spec == Init /\ [][Next]_vars

\* The threads are scheduled; the runtime polls its channel every 10 ms.
FairSpec ==
  Spec /\ WF_vars(Drain \/ HandleRtpsEvent) /\ WF_vars(Join) /\ \A w \in Workers : WF_vars(Work(w))

----------------------------------------------------------------------------
(* Properties.                                                              *)

\* Where every actor is, and the bounds of the channel and of the cache.
TypeOK ==
  /\ wire \in DOMAIN Wires
  /\ pos \in [Workers -> 0 .. Len(Packets)]
  /\ missed \subseteq Workers \X (1 .. Len(Packets))
  /\ pc \in [Workers -> {"pump", "packet", "reserve", "send", "exited"}]
  /\ \A w \in Workers : Cardinality(DOMAIN flows[w]) <= FlowCapacity
  /\ Len(chan) <= ChannelCapacity /\ Len(cache) <= CacheCapacity
  /\ runtime \in {"running", "stopping", "gone"}

\* The shared counter is exactly the memory of the open flows of all workers,
\* on every path: completion, changed size, too many ranges, eviction, refusal
\* and the end of a worker.  A path that forgets to release shrinks the budget
\* for ever, one that releases twice lets it be exceeded.
BudgetExact ==
  /\ used = Cardinality(UNION {Held(w) : w \in Workers})
  /\ used <= Budget

\* The eviction queue of a processor names each of its flows exactly once.
OrderExact == \A w \in Workers : QueueExact(order[w], DOMAIN flows[w])

\* A flow's range list is sorted, apart and within its bound, and says exactly
\* which bytes of the buffer were written.
RangesExact ==
  \A w \in Workers : \A k \in DOMAIN flows[w] :
    LET st == flows[w][k] IN
    /\ Separated(st.ranges) /\ Len(st.ranges) <= MaxRanges
    /\ Covered(st.ranges) = st.written

\* Budget, eviction queue and ranges of every worker are consistent between
\* the steps of the other workers.
FlowsExact == TypeOK /\ BudgetExact /\ OrderExact /\ RangesExact

\* A sample leaves a worker only with every byte of it received: no zeroes of
\* the preallocated buffer are recorded as data.
SamplesWhole ==
  \A b \in {got[w] : w \in Workers} \cup {events[w] : w \in Workers}
        \cup ToSet(chan) \cup {batch} :
    \A n \in DOMAIN b : b[n].whole

\* Workers that see the same traffic, and writers that repeat a sample, do not
\* make the runtime apply it twice, unless CacheCapacity other samples came
\* between.
AppliedOnce ==
  \A n, m \in DOMAIN log :
    n < m /\ log[n] = log[m] =>
      Cardinality({log[x] : x \in n + 1 .. m - 1}) >= CacheCapacity

\* What the runtime applies is whole samples, each of them once.
SamplesRight == SamplesWhole /\ AppliedOnce

\* The readable packets that say something of a participant, and the last
\* word they have on it.
Speaks(sub, p) == sub.kind \in {"announce", "dispose"} /\ sub.id = p
Readable(n) == \A m \in DOMAIN Packets[n] : Packets[n][m].kind # "bad"
Says(p) == {n \in DOMAIN Packets :
              Readable(n) /\ \E m \in DOMAIN Packets[n] : Speaks(Packets[n][m], p)}
WordIn(n, p) == Max({m \in DOMAIN Packets[n] : Speaks(Packets[n][m], p)})

Quiet ==
  /\ runtime = "running" /\ chan = <<>> /\ batch = <<>>
  /\ \A w \in Workers : pos[w] = Len(Packets) /\ pc[w] = "pump" /\ events[w] = <<>>

\* "All downstream state updates below ... are idempotent under duplicate
\* delivery": when everything has been read, the table holds the last word on
\* a participant, although the copies of two workers interleave in any way
\* and a late copy of an announcement revives a participant for a while;
\* unless a worker missed that last word.
Converges ==
  Quiet => \A p \in Participants :
    \/ Says(p) = {}
    \/ LET last == Max(Says(p)) IN
       \/ \E w \in Workers : <<w, last>> \in missed
       \/ p \in alive <=> Packets[last][WordIn(last, p)].kind = "announce"

\* Back-pressure delays but never drops: a sample a worker has decoded is
\* applied, as long as the runtime runs.
EventsApplied ==
  \A s \in Samples :
    (\E w \in Workers : Event("data", s, TRUE) \in ToSet(events[w]))
      ~> (s \in ToSet(log) \/ runtime # "running")

\* Ctrl-C ends: no worker waits for a channel nobody reads while the runtime
\* waits for the worker, and the whole budget is given back.
StopCompletes ==
  (runtime = "stopping") ~> (runtime = "gone" /\ used = 0)
=============================================================================
