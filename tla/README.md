# ros2probe: TLA+ models, checks and proofs

ros2probe (`src/ros2probe`, with the kernel part in `src/ebpf`) observes ROS 2
traffic without joining the graph: it captures RTPS and Zenoh packets through an
eBPF socket filter, reconstructs discovery, measures topics (`hz`, `bw`, `delay`,
`echo`) and records bags.  This directory holds TLA+ modules of its core state
machines, TLC configurations, and proofs for TLAPS.  Every definition is
translated from the Rust source; `PROJECT.json` maps each one to its lines.

Paths below are relative to `src/ros2probe/src`.

## 1. Inventory

| Component | State | Operations | What makes it correct |
|---|---|---|---|
| Runtime loop (`runtime/mod.rs` `run`) | all tables and sessions, owned by one thread | `select!` over packets, commands, the 1 s discovery sweep, Ctrl-C | handlers leave the tables consistent; every exit closes the bag |
| Capture workers (`spawn_capture_worker`) | RTPS and Zenoh decoder state per interface | read, decode, `send` a batch over a bounded channel | nothing reordered per flow; duplicates are harmless |
| Recording session (`runtime/bag.rs`) | topics, paused, channel ids, sequence numbers | record, pause, stop, per-message recording | the report of a stop counts exactly what the full channel lost, no gaps in sequence numbers |
| Recorder actor (`recorder/actor.rs`, `recorder.rs`) | the MCAP writer, a bounded FIFO | Start, EnsureChannel, Data, Stop, Shutdown | what was taken is written, in order, in its own bag |
| Topic filter (`recorder/gid_map.rs`) | mode, copy of the kernel map | configure, rebuild, sync, clear | after a rebuild the kernel holds exactly the writers that are needed, but for entries that a failed clear took |
| eBPF classifier (`src/ebpf`) | GID map, fragment map | accept or drop a packet | discovery always passes, data by GID |
| Discovery table (`discovery/discovery.rs`) | participants, endpoints, GID indexes, deadlines | samples, disposals, removal by id, expiry | indexes agree, nothing lingers, nothing live is swept |
| Node table (`discovery.rs` 626-833) | nodes per participant, endpoint index | replace, remove | index agrees with nodes |
| DDS shadow subscribers (`shadow/sub.rs`, `runtime/command.rs`) | helper process per topic | `sync_shadow_subs` | a process exactly for the observed SHM topics |
| Zenoh tokens (`protocols/zenoh.rs` 957-1305) | token tables per flow direction, reference counts | declare, undeclare, close, reset, evict | counts exact, state bounded |
| Zenoh graph (`runtime/mod.rs` 822-1264) | entities, flows, nodes, references | insert, remove, expire, refresh | a token is in the graph while some flow declares it |
| Zenoh transport (`protocols/zenoh.rs`), RTPS fragments (`protocols/rtps.rs`), IP fragments (`capture/ip_frag.rs`) | reassembly tables with budgets | accept fragment, expire, evict | bounded memory, only complete payloads leave |
| Observers (`runtime/observers.rs`) | one session each of hz, bw, delay, echo | start, status, stop, feed a sample | windows and rates |
| Command server (`command/server.rs`) | connections, `in_flight`, queue of commands | accept, parse, hand over, time out, reply | the count of handlers is exact; a request that timed out is still executed once |
| Command state (`command/state.rs`) | the published snapshot of the ROS graph | rebuild, publish | fresh, its views agree, a topic of another host is not shown as local |
| Zenoh query and shadow (`runtime/zenoh_discover.rs`, `zenoh_shadow.rs`) | query session, shadow keys | open, query, close | shadow keys follow the sessions |
| Command line (`cli/`) | a session per process | start, poll, stop, Ctrl-C | without a fault no session outlives its process, but for an echo of a topic without a type |
| GUI pages (`gui/topic_monitor.rs`, `gui/bag_recorder.rs`) | what the page shows, worker thread, channels | user input, commands, events | the page ends up showing what the runtime has |

Interaction.  Capture workers push decoded batches to the runtime thread over a
bounded channel.  The command server pushes commands over another and waits for
the reply.  The runtime thread changes the kernel map by system calls while
the kernel is filtering, and talks to the recorder actor through a bounded
channel that carries both data (`try_send`, dropped when full) and commands
(blocking `send`, then a blocking wait for the reply).

What is hard here: two threads that block on each other (runtime and actor);
a kernel map that changes one entry at a time and whose system calls fail; one
filter shared by a recording and four observers; discovery samples that come
late, twice or out of order from two workers; leases, TTLs and sweeps; token
reference counts kept twice, by different keys, on the two sides of a channel;
helper processes whose wanted set depends on state that changes elsewhere.
`PROJECT.json` lists these hazards line by line.

## 2. Modules

**`Bag`** is the abstract specification of a recording: a bag is opened,
receives messages one after the other, may lose a message to a failed write,
is closed, and never changes again.

**`BagRecorder`** has the runtime thread (`pc`, `cmd`, the session and the drop
counters of `RecorderHandle`), the channel (`queue`, `reply`), the actor
(`active`, `known`) and the files.  A runtime command is several actions, because
the actor runs between them: the request (`BagRecord`, `NeedChannel`, `BagStop`),
the blocking `Send`, and the reply (`StartReply`, `EnsureReply`, `StopReply`).
Opening a file, adding a channel, writing and finishing may each fail.  `CtrlC`
and `RuntimeError` are the two ways out of `run()`; both end in `DropHandle`.
A message is its topic, its sequence number and an identity.  `EveryMessageAccounted`
is about the messages that `try_record` took and about the reports that are given: an
offered message whose channel cannot be made or whose timestamp cannot be converted is
dropped with a log line and counted nowhere (`runtime/bag.rs:286`, `runtime/bag.rs:296`), and a stop that
fails or Ctrl-C gives no report.  `ImplementsBag`
maps the abstract log to what is written followed by what is queued.

**`TopicFilter`** has `RecorderTopicGidMap` (`mode`, `current`), the kernel map,
the sessions and the publications.  A rebuild is a sequence of steps, one per
system call, between which packets are filtered; the runtime handles nothing
else meanwhile.  `cont` remembers the caller, because an error is a warning for
a command, a rollback for `start_recording` and the end of the process for a
discovery event or the sweep.  `outdated` has the GIDs whose metadata in the map are no
longer those of discovery: `SedpUpdated` changes an endpoint without a rebuild, and the
next `sync` writes such an entry again.  The history `lost` has the GIDs that a `clear`
removed from the kernel before one of its system calls failed.  `current` keeps these,
so that later rebuilds pass them over as present; `FilterExact` says that after a
rebuild the kernel has exactly the rest of the selection.  The `Discover` command's rebuild with unchanged
sessions is the one that `ObserverStop` of an idle observer does.  Zenoh
endpoints never enter the filter (`gid_map.rs:152`).

**`DiscoveryTable`** has participants, endpoints, their GID indexes and deadlines.
Samples carry an observation time that may lie before the last sweep.
`change` is the `DiscoveryChange` that the handler returns, on which the
runtime decides whether to rebuild the filter.

**`ShadowSubs`** has the part of discovery and sessions on which
`sync_shadow_subs` depends, and the set of running subscribers.  Spawning may fail.

**`ZenohTokens`** is a capture worker's `ZenohSemanticState` (token tables by flow
direction and token id, reference counts by key expression, the order of flows
for eviction) and the bounded channel to the runtime.  **`ZenohGraph`** extends it
with the runtime: `RuntimeZenohGraph` and the entries it keeps in the discovery
and node tables (the record `g`).  A drained batch is one action, as in
`drain_capture_events`.

**`Reassembly`** holds what the three reassemblers share: the list of byte ranges
(IP and RTPS keep the same code twice) and the eviction queue.  The `while` loop of
`insert_range` is a closed form (`AbsorbedTo`: the first range whose right neighbour
does not touch), so that it can be reasoned about without recursion.

**`IpCapture`** goes from a frame on an interface to the parsers: the eBPF filter
with its bounded header walk and submessage scan, the LRU map of approved
fragments that all sockets share (the filter sees one frame: for a fragmented datagram the
first; a read past its end is an error, upon which the frame is dropped, so a submessage
has the place `at` where the reads of the scan end), and per interface the IP reassembler, the routing
to RTPS or Zenoh and the bounded buffers.  Interfaces see the same datagrams;
frames are missed, repeated or late, and an identification is used again.

**`CaptureWorkers`** has the worker loop, the RTPS submessage loop with its error
path, `DATA_FRAG` reassembly with the atomic budget that the workers share (a
reservation is a step of its own), the bounded channel and, in the runtime, the
cache of recent samples, discovery, Ctrl-C and the join.  The runtime takes one
batch at a time (`batch`) and handles one event of it per step.

**`ZenohTransport`** has TCP alignment and reordering modulo the sequence space, batch
framing, and fragment chains with their resolution, gaps, timeouts, evictions
and shared budget.

**`Sessions`** has the four observers and the recording as the runtime's global
sessions, the command server's handlers (admission, reading, waiting with a
timeout, answering), the command-line processes, and the two GUI pages with their
worker threads and channels.  Faults (a timeout, a client that gives up or is
killed, a busy server) belong to a scenario.  An echo process that finds out after its
start that it does not know the topic's type ends without a stop (phase `untyped`).

**`Observers`** has what a sample does to the windows of hz, bw, delay and echo, and
the echo stream: runtime thread, accept thread, lock, readers that lag, leave
or time out.  A frame is a header and a payload, written in parts.

**`GraphState`** has the node table with its indexes and the snapshot that the list
and info commands read.  SPDP, SEDP, node lists (`ros_discovery_info`) and
disposals arrive in bursts (`burst`, `dirty` are those of `drain_capture_events`);
`View` is `refresh_from_discovery`.  A name on the wire is a record of prefix, base
name, action part and suffix, so that normalisation and the classification
into topics, services and actions are what the code does and not the
identity.  A node list is accepted when its writer or the reader it is sent to
(`InfoReaders`) is known.  Two histories are for locality: `heardRemote`, who was heard
from another host, and `expired`, whom a sweep dropped and nobody has announced
since.  The discovery table is reduced to its sets; what a sweep finds expired is
chosen within what `SweepKeepsEndpoints` of `DiscoveryTable` allows.

`MC*` modules name the constants of the small instances.  `CommonLemmas` and the
`*Proofs` modules hold the theorems; some of these are about two components, whose
specifications are then `Spec` and one with a name of its own (`FilterSpec` of
`TopicFilter`, `TableSpec` of `DiscoveryTable`, `SubsSpec` of `ShadowSubs`).  Definitions marked *Mutant* are deliberately wrong variants of
the definition that follows them; `PROJECT.json` says which property each breaks.

## 3. Runs

| Run | Bounds | Shows |
|---|---|---|
| `bag_recorder` | 2 keys on 2 topics, channel of 2, sequence numbers saturate at 3, 2 recordings, 4 messages | order, completeness, sequence numbers, exact reports, channel knowledge, start never refused, refinement of `Bag`, no mutual waiting, every exit closes the file |
| `topic_filter` | 2 writers, 1 discovery reader, map of 2 places, recording and 1 observer, 1 failing system call | exactness after a rebuild but for what a failed clear took, kernel and copy in step, reasons to die, catching up |
| `recorded_topics` | the same with a larger map and no failures | **violated**, see section 6 |
| `discovery_table` | an RTPS and a Zenoh participant with one endpoint each, samples up to 1 late and repeated, TTL 2, clock to 4 | index, expiry and sweep properties |
| `shadow_subs` | 2 participants, one on another host, 4 endpoints (one a service), 2 topics, recording and 2 observers, 1 failing spawn | subscribers exact after each synchronisation, never without a session |
| `zenoh_graph` | 2 flow directions; capacity 1 with 2 token ids, or capacity 2 with 1 id; 2 tokens on one node, channel of 1, clock to 2 | reference counts, bounded state, and that flows, entities, nodes and tables agree with each other and with the worker |
| `ip_capture` | 2 interfaces, 3 datagrams of 2 or 3 fragments (two with one identification, one Zenoh), one of them with a first frame short of its submessages, places for 1 approval, 1 flow, 1 packet, 1 missed or repeated frame | only whole datagrams, queues exact, ranges separated and within what arrived, at least one copy of what is wanted and can be judged by the first frame |
| `capture_workers` | 2 workers, 3 wires (fragments in pieces and beyond the limits; a participant that comes and goes; packets that fail), channel, cache and table of 1 place | the budget, ranges and queues are exact, samples whole and applied once, discovery converges, decoded samples are applied, Ctrl-C ends |
| `zenoh_transport` | 2 workers, 4 wires, sequence space 32 starting at 29, serial numbers modulo 4 or 16, queue of 3 bytes and 2 segments, budget of 3 | streams intact, chains whole, runs handed over, budget exact and returned |
| `sessions` | 6 scenarios of 1 or 2 participants (hz, delay, echo, bag processes, both pages), 2 handlers, at most 3 user inputs, each fault at most once | handler count, filter, no orphaned session but that of an echo without a type, stops happen, pages converge |
| `observers` | 4 inputs (sizes, stamps, numbers, frames), windows of 2, 2 readers, 3 parts of a frame in a socket | statistics, losses, whole frames, the runtime returns to its loop |
| `graph_state` | a participant with 4 endpoints and 3 node lists, one on another host with 1 that reads node lists, 2 node names, bursts of 2 events | node index, nodes follow participants, snapshot fresh, views agree, the sweep is the only way for a topic of another host to be shown as local |

A property that a run names is often the conjunction of a few named parts, each
with its own comment in the module: `EveryMessageAccounted` is `BagIsInOrder`,
`NothingForgotten` and `LostReportExact`; `GraphExact` is the type invariant,
`MirrorExact`, `NodesExact` and `TablesExact`; and so on.  TLC checks every part.

Why the bounds suffice.  In `BagRecorder` two recordings are needed for leaks from
one to the next, and with a channel of two places four messages show a drop
between taken messages, saturation of the sequence number included.  In
`TopicFilter` there are more matching GIDs than places, so the map overflows, and
one failure can hit any system call of any rebuild, rollbacks included.  In
`DiscoveryTable` the clock passes both the lease and the TTL.  In `ZenohGraph` a
token has to be on two flows, a second flow has to displace the first (capacity
1), a direction needs two ids to declare one token twice, and the clock has to pass
the inactivity timeout of one flow.  Every table, queue, cache, channel and
budget of the capture modules has one place fewer than the traffic asks for, so
eviction, refusal and back-pressure all happen; sequence numbers start shortly
before they wrap.  Traffic, inputs and scenarios are chosen from a set in the
initial state, which keeps each of them small and lets one run cover all.  In
`GraphState` a burst of two is what it takes for a change that asks for a rebuild
and one that does not to meet in one burst; the node lists split, hand over an
endpoint in the harmful order, and use one name twice.  The invariants of
all modules are proved for all values of the constants as well.

Fairness.  `BagRecorder`: the OS schedules both threads, so the actor's loop and the
runtime's steps inside a command are weakly fair; commands and packets are not.
`TopicFilter`: weak fairness of the steps of a rebuild, which the runtime executes
without waiting for anybody, and nothing for commands or discovery.
`CaptureWorkers`: the worker threads, the runtime's drain (`Drain \/ HandleRtpsEvent`) and its join are scheduled;
frames and Ctrl-C are not owed.  `ZenohTransport`: time passes and each worker
looks for inactive flows again and again.  `Sessions`: threads of the server, the
runtime's command branch, the workers of the pages and a command-line process
that is past its last user input go on; users and faults are free.  `Observers`: the
runtime's steps within a handler and the accept thread.  The other modules
state no liveness.

Deadlock is checked where the system goes on for ever or the module has an explicit
stuttering step for its end (`Done`, `Dead`).  It is switched off for the modules
whose input is a finite wire or scenario (`IpCapture`, `CaptureWorkers`,
`ZenohTransport`, `Sessions`, `Observers`): there the traffic ends, and stopping
early is what their liveness properties exclude.

## 4. Proofs

**`CommonLemmas`** has what several proofs need.  Induction over numbers, and that a
recursive function exists and obeys its equations, are derived from the library's
theorem on well-founded relations, without an operator parameter (`LeastNumber`,
`Induction`, `Recursion`, and `RunningSum` for sums).  The lemmas on `Reassembly` follow:
`InsertRangeMerges` and `InsertRangeKeeps` (a list of separated ranges stays one, covers
the new bytes and nothing else, and grows only when nothing touches), `QueueEvict` and
`QueueRemove` (the eviction queue stays exact), and lemmas on
sequences of consecutive numbers, on numbers modulo the sequence space and on the size of
tagged unions (`ConsecutiveParts`, `Halves`, `TaggedCardinality`).

**`BagRecorderProofs`**: `TypeCorrect`, `NoMessageForgotten`, `BagsAreOrdered`,
`LostReportsAreExact`, `WriterAlwaysKnowsChannel`, `StartIsNeverRefused`, and their
combinations `MessagesAreAccounted` and `ActorStaysInStep`, the properties of the run.
None of the properties is inductive alone.  The invariant `RecorderInv` adds
`ChannelInv` (at most one command is in the channel, and it is the last event: the
runtime waits for its reply), `SessionInv` (which of session, actor and files
correspond in each phase of a command), `KnownInv` (a cached channel key is known to
the recorder), `LostInv` (the handle's counters are the running session's losses)
and `OrderInv` (identities grow from file to queue to session).  Because a Stop is
last in the queue, the actor has written all data before it takes the recorder
down; that is the argument for `NoMessageForgotten`.

Two more: `SequencesAreContiguous` (a session's next number of a
topic is the count of its messages taken so far, up to saturation; the lemmas count
the indices of a growing sequence) and `RecorderImplementsBag`, the refinement: each
step of `BagRecorder` maps to a step of `Bag` or to a stutter.  Queueing a message is
the abstract append; the actor's write moves it from `Pending(queue)` to the contents
and changes nothing, unless the write fails, which is the abstract loss.

**`TopicFilter`** (in `RuntimeProofs`): `FilterTypeCorrect`, `FilterIsExact`, `KernelNeverAhead`,
`CopiesStayEqual`, `DeathIsExplained` (combined: `FilterIsSound`, `CopiesAlwaysAgree`), from `FilterInv` = `MapInv` (where kernel and copy may
differ), `ModeInv` (the mode is the one the sessions ask for, or the rollback
restores it), `SelectionInv` (what is being installed is the selection) and
`FaultInv`.  `MapInv` says that what clears lost is still in the copy, and that the kernel is the copy without
it; while a clear is under way, the kernel is what is left to remove without it.

**`DiscoveryTable`** (in `CaptureProofs`): `TableTypeCorrect`, `IndexIsExact`, `LeaseIsOutlived`,
`GhostsExpire`, and the action properties `SweepIsSafe` and
`SilentChangesAreSilent` (combined: `DeadlinesAreRight`, `EndpointsStay`).  A deadline never lies before the participant's lease, and
it is always a lease or the TTL away from an observation; from these two facts
follow what a sweep may remove and what it must.

**`ShadowSubs`** (in `ObserversProofs`): `SubsTypeCorrect`, `NoHelperWithoutSession`, `HelpersAreExact`.
Both properties are inductive together with the type invariant; the lemma
`SyncEstablishes` says that one synchronisation restores them from any state,
and every command ends in one.

**`ZenohTokens` and `ZenohGraph`** (in `RuntimeProofs`): `WorkerCountsExact`, `GraphTellsOneStory`,
`RuntimeFollowsWorker`.  The worker's counts follow from how each kind of step changes
the set of slots that hold a token (`WorkerForm`, `RedeclareExact`).  On the runtime's
side `Exact` (flows, entities, nodes and tables tell one story) is kept by each
operation, one lemma each: inserting entities, removing references, expiring flows,
refreshing discovery; a batch and a query are compositions of these.
`TokensFollowed` is about an empty channel only; its invariant `FollowInv` says that
the batches still in the channel lead (`Leads`) from the flows that the runtime knows
for a token to those that declare it.

**`SessionsProofs`**: `ServerKeepsBooks` and `NothingIsOrphaned`.  `SessionInv` adds to
the property that each process waits for one call, the one that its phase says
(`CallsInv`), and that only those who take part in the scenario act (`Present`).
Without faults, `HoldInv` gives each active session a holder (`AllHeld`): a command-line
process between its start and its stop, the Recorder page, or the Monitor page's
worker, whose queue of work either shows the topic in the end or has the stop still
ahead (`Plan`).  The one exception is kept by name: an echo session whose process ended
as `untyped`.  The scenario is a variable that never changes, so the theorems are
about any set of processes and pages and any number of user inputs.

**`GraphStateProofs`**: `NodeTableIsExact`, `SnapshotIsFresh`, `ViewsAlwaysAgree` and
`LocalOnlyIsSound`, from the invariant `GraphInv`.  Its core is `TableInv`: the index by
participant holds every node under its own participant and nothing else, an index entry
names a node that lists the endpoint, and an endpoint that nobody contests has an entry.
`Fresh` says that the snapshot is up to date or `dirty` is set and the burst goes on.
`RemoteKnown` says that a participant heard from another host is in the runtime's set or
was dropped by a sweep, from which `LocalOnlyIsSound` follows.
`replace_participant_nodes` is a loop over a list of any length, modelled as a
recursive function; the invariant of its turns is carried by `Recursion` and `Induction`.

**`CaptureWorkersProofs`**: `BudgetAndFlowsExact`, `OnlyWholeSamplesOnce` and
`TableConverges`, for every wire.  For the budget the inductive invariant
`FlowInv` adds to the property where each worker is (`PlaceInv`) and, in `ProcInv`, what
holds between eviction and reservation, when other workers may take the memory just
released: the flow is not there yet and its table has room.  The counter is the
cardinality of the union of what the flows hold, and releasing or reserving one flow
changes it by exactly its size (`BytesReleased`, `BytesReserved`).  `AppliedOnce` follows
from `CacheInv`: the cache is the end of the log, without repetition.  `Converges` speaks
only of the moment when all has been read; `GotInv` and `ConvInv` extend it to every
state.  A worker that has read past the last word on a participant either still carries
it as the last of its own events, or missed it, or has handed it on, and then the rest
of the channel and of the batch, applied to the table, ends with that word (`Settled`);
a late copy of an earlier word is always followed by the last one from the same worker.

**`IpCapture`** (in `CaptureProofs`): `ReassemblersStayExact`, `OnlyWholeDatagrams` and
`WantedGetThrough`, for any interfaces, datagrams, cuts into fragments and capacities.
`TypeInv` says what the tables hold: chunks are fragments, ranges are the bytes of the
chunks, the queue names the flows, and each of the two queues of a buffer is within its
depth.  A flow is *pure* for a datagram when all its chunks are the datagram's; a pure
flow that is complete assembles to the datagram (`PureAssembles`), whatever the order in
which fragments came.  So `OnlyWhole` needs to know where foreign chunks can come from.
`SeenInv` and `SoleInv` settle the case of one datagram per identification.  With
several, `CleanInv` says that a flow is exactly the fragments so far of the one datagram
on its way, as long as none of the excuses that the property names has occurred, and for
that the filter must refuse the rest of a datagram of which it refused the start:
`ApprovalInv` says that an approval is that of a datagram still on its way on some
interface.  `CopyInv`, for `AtLeastOneCopy`, says that until one interface has seen the
last fragment, every interface that saw the first has an approval and all fragments so
far; the interface on which the last fragment comes first then completes it.  That
the approval is gone for all others is what the property allows.

The attempt to prove `AtLeastOneCopy` in its first form failed for a reason that TLC
confirmed on an instance with two wanted datagrams of one identification: an interface
whose approval was taken back keeps the first fragments of the earlier datagram, and the
later one is then joined to them.  No frame needs to be lost for
this.  The property now excludes an earlier datagram of the same identification that
the filter let through.

**`Observers`** (in `ObserversProofs`): `FramesStayWhole` and `ReportsStayTrue`.  For the
frames, `EchoInv` says for each stream which part comes next: what a reader has printed,
holds and has in its socket is a run of parts without a gap that ends right before what
the runtime is about to write to it, or the stream is closed.  For the reports,
`ReportInv` adds that the windows are the ends of the history (`LastN` of what was seen
since the start, and for delay since the last mismatch), that times do not go back, and
for each writer that the greatest number and the losses agree with the numbers that
came (`LossInv`).

**`ZenohTransport`** (in `CaptureProofs`): `TransportStaysExact`, `StreamsStayIntact` and
`MessagesStayIntact`, for any workers, flows, limits and any wire that keeps the
assumptions.  The invariant `TransportInv` has two halves that do not meet, one for the
TCP flows and one for the chains.  `TcpOK` puts together bounds and contents: a worker's
queue names its known flows exactly and within the capacity, and every segment in a flow's
queue is the stretch of the stream that its sequence number says (`SegmentWhole`); without
that neither "no gap" nor "no repetition" is inductive, because a byte goes through the
queue before it is read.  The order of the segments is not needed: a segment is taken only
if it starts at or before the next byte, and whatever is not taken stays queued.  The comparison of
sequence numbers agrees with that of positions as long as they are less than half
the sequence space apart, which the assumption on the wire gives; the turns of
`flush_contiguous` are a recursive function, and the invariant of its turns
(a gapless front, the bytes still queued all in the rest) is carried by `Induction`.
`FragOK` says that the tables and their orders are exact, the counter is the cardinality
of what the workers hold (`Held`), and a chain holds successive
pieces of one message up to the one that `next` continues (`ChainWhole`): numbers tell
pieces apart within a channel, so a fragment with the expected number is the next piece.
For the converse half, `RunsHanded`, a run of pieces without interruption is the payload of
the chain, or, at its last piece, has been handed over.

Segments, chains and messages are folded by recursive functions, and a table keeps its
entries in the order in which they were last seen (`Put`, `TakeOut`, `Oldest`), so that all
of it can be reasoned about.

Assumptions are the named `ASSUME`s of the component modules: shape of the
constant functions, disjointness of names, finite sets where something is
counted (slots, directions, ids, topics), bounds that are natural numbers (the
recorder's channel has at least one place).  Two say something about the outside:
`ZenohGraph` has one node token per node, as rmw_zenoh declares them, and
`NamingConvention` of `GraphState` says that only services and actions come under the
prefixes `rq` and `rr` (service events and Zenoh's actions come under others);
`ViewsAlwaysAgree` rests on it.  `CaptureWorkers`
assumes that there is at least one worker (`resolve_capture_interfaces` always has
the loopback) and that fragments are numbered from 1 (number 0 is unreadable).
`IpCapture` likewise has at least one interface, a datagram with an RTPS header is longer
than its transport header, and its submessages are a finite list.  `Observers` has
samples with natural sequence numbers and lengths, and `None` is no number.
`ZenohTransport` says of the wire (`WireAssumption`) that a stream is shorter than half the
sequence space and that all messages of it tell the same resolution, and of the
sender (`FragmentAssumption`) that it marks the first and the last piece of a message
and numbers the pieces of a channel one after the other; beyond these bounds the code
cannot tell an old segment from a new one, or one piece from another.  TLC evaluates
all of them in every run.

Only model-checked: all liveness (`BudgetReturned` and the other temporal properties),
which is outside the prover's reach.  `RecordsOnlySelected` is refuted by its run.

## 5. Plan

Done: recording, filter, discovery, shadow subscribers and the Zenoh graph first;
then capture and reassembly, workers and channel, Zenoh transport, sessions with
server, command line and pages, observers, node table and snapshot.  Left, in this
order:

1. The Zenoh handlers composed with `GraphState`, for the locality of Zenoh
   participants.
2. The Zenoh shadow subscriber, beyond the set it follows.

## 6. Where code and documentation disagree

- `recorded_topics` (a run): a recording of selected topics also contains the topics
  of observers that run next to it; the RTPS path never looks at
  `session.topics`, the Zenoh path does.

Seen while modelling, without a run of their own:

- With `--all`, `/rosout` is recorded, although the repository's `README.md:106` says
  that internal topics are "never captured by `rp bag` — even with `--all`".
- `sync_shadow_subs` is documented (`runtime/command.rs:459`) as following discovery,
  but a shared-memory publisher discovered during a session has no subscriber
  until the next command or sweep that removes something.
- A token declared on two flows survives its last undeclare when that comes under a
  flow the runtime did not file it under (`runtime/mod.rs:1002`), and a token is
  dropped with the silent flow that reported it first while another flow still
  declares it (`runtime/mod.rs:1134`).  `TokensFollowed` says that these, and the
  displacement of a TCP flow (`protocols/zenoh.rs:602`), are the only ways in which
  runtime and worker come to differ.
- A node list that arrives after its participant's lease ran out, while its writer is
  still known, leaves nodes behind (`NodesFollowParticipants` names them as the
  exception), and a topic of another host is shown as local while its endpoints
  outlive the lease of their participant: the sweep forgets where an expired participant
  was heard (`runtime/mod.rs:425`).  Without the exemption of `expired` in `LocalOnlySound`
  TLC reaches that state in five steps.
- Zenoh action services carry no request suffix: their servers are shown as clients
  and vice versa (`command/state.rs:811`).  A service event topic is shown as a service,
  because its type is that of one (`command/state.rs:763`).
- A `clear` that one system call cuts short (`recorder/gid_map.rs:133`) leaves GIDs in the
  copy that the kernel has lost.  Later rebuilds that select them succeed without writing
  them (`gid_map.rs:191`), so they are not in the kernel until their metadata change
  (`lost` in `FilterExact`); a rebuild or a clear that deselects one fails, because the
  kernel has no such entry to remove, and on the discovery path that ends the program.
- `rp topic echo` starts its session before it looks at the type of the topic, and when it
  knows none it returns without the stop (`cli/topic/echo.rs:80`): the session goes on until
  somebody else stops it (`LeftByEcho` in `NoOrphans`).
- A fragmented RTPS datagram whose first fragment ends before the submessages that the
  filter scans is dropped whole: a load past the frame is an error
  (`src/ebpf/src/rtps.rs:63`) and an error drops the frame (`src/ebpf/src/main.rs:12`).
  `AtLeastOneCopy` is about the datagrams that the first frame has the reads of.
- `dropped_count` is documented as monotonic since startup (`recorder/actor.rs:146`)
  and is reset by every recording; nothing reads it.

## 7. Not modelled

Byte layouts (RTPS, CDR, Zenoh codec, MCAP, serde) are abstracted to the messages they
carry, and so are QoS, locators and type hashes in the snapshot.  Opening the
capture ring, the ROS schema lookup, the MCAP library and the file system are I/O,
present only as success or failure.  Drawing, printing, the dashboard and graph pages
and the one-shot queries of the command line read the snapshot and change
nothing.  The Zenoh query session, the Zenoh shadow sessions and the helper
subscriber processes belong to external libraries and programs; the sets that
the runtime keeps about them are modelled.  `Observers` and `Sessions` leave out an
accept that fails and a socket that cannot be bound; `CaptureWorkers` leaves out that a
worker stops for good when a read fails or is interrupted (`runtime/mod.rs:2094`);
`IpCapture` leaves out a TCP header cut by the end of the first frame.

Known hazards that no property covers, because the code has no reaction to state one
about: a message whose channel or timestamp fails is only logged (`runtime/bag.rs:286`);
the roles of services and actions are a function of one name, direction and type
(`command/state.rs:811`); a failed MCAP write is only logged (`recorder/actor.rs:196`); Ctrl-C discards
the report of lost messages (`runtime/mod.rs:472`); a helper process that dies is not
started again (`runtime/command.rs:521`); the commands of one batch see the remote
participants as they were before it (`runtime/mod.rs:358`); a Zenoh participant
first heard from another host after its token was stored does not cause a rebuild
of the snapshot (`runtime/mod.rs:1732`); two daemons that start at the same moment
compete for one socket path (`command/server.rs:89`).
