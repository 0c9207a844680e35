----------------------------- MODULE IpCapture -----------------------------
(* From the wire to the protocol parsers: the eBPF socket filter            *)
(* (ebpf/src/filter.rs, rtps.rs, maps.rs), which all capture sockets share  *)
(* with one map of approved fragment keys, and behind it, per interface,    *)
(* the IP reassembler (capture/ip_frag.rs) and the bounded buffer of the    *)
(* capture engine (capture/capture.rs).                                     *)
(*                                                                          *)
(* A datagram is counted in 8-byte blocks; block 0 holds the transport      *)
(* header (of TCP, the part with the ports) and block 1 starts the payload. *)
(* Every interface sees every datagram once (loopback and NIC copies of the *)
(* same multicast packet), its fragments in order unless one is missed or   *)
(* repeated.                                                                *)
EXTENDS Integers, FiniteSets, Reassembly

CONSTANTS Interfaces, Datagrams,
  Of,               \* [Datagrams -> what the headers of a datagram say]
  Available,        \* the GIDs user space has put in TOPIC_FILTER_GIDS
  ApprovalCapacity, \* MAX_FRAGMENT_FLOWS of the kernel's LRU map
  FlowCapacity,     \* MAX_FRAGMENT_FLOWS of a reassembler
  BufferDepth,      \* max_depth of a CaptureBuffer
  Unlucky,          \* the datagrams of which a frame may be missed or repeated
  MaxFaults,        \* bound on missed and repeated frames
  Hole              \* a block no fragment wrote: vec![0u8; total_len]

\* RTPS_SCAN_SUBMESSAGES, the header walk of parse_ipv6 and the VLAN walk of
\* parse_l3_offset.
ScanLimit == 4
HeaderLimit == 4
TagLimit == 2

\* RTPS_HEADER_LEN: the 20 bytes of the RTPS header end in this block.
HeaderEnd == 3

ASSUME OfAssumption ==
  \A d \in Datagrams : /\ Of[d].lens \in Seq(Nat \ {0}) /\ Of[d].lens # <<>>
                       /\ Of[d].tcp \in BOOLEAN /\ Of[d].zenohPort \in BOOLEAN
                       /\ Of[d].rtps \in BOOLEAN
                       /\ Of[d].rtps => Of[d].lens # <<1>>  \* its signature is payload
                       /\ Len(Of[d].subs) \in Nat
                       /\ DOMAIN Of[d].subs = 1 .. Len(Of[d].subs)
                       /\ \A n \in DOMAIN Of[d].subs : Of[d].subs[n].at \in Nat
ASSUME HoleAssumption == Hole \notin Datagrams
ASSUME BoundAssumption ==
  /\ {ApprovalCapacity, FlowCapacity, BufferDepth} \subseteq Nat \ {0}
  /\ MaxFaults \in Nat /\ Unlucky \subseteq Datagrams /\ Interfaces # {}

VARIABLES
  next,      \* [Interfaces -> [Datagrams -> next fragment in order]]
  approved,  \* FRAG_FLOW_PASS
  flows,     \* [Interfaces -> IpFragmentReassembler::flows]
  order,     \* [Interfaces -> IpFragmentReassembler::order]
  buffer,    \* [Interfaces -> CaptureBuffer, RTPS and Zenoh packets]
  out,       \* the datagrams some worker handed whole to its parsers
  faults,    \* frames missed or repeated so far
  faulty,    \* keys of which some interface missed a frame or saw one twice
  evicted,   \* {<<interface, key>>}: a flow or a buffered packet evicted
  lruLost,   \* keys the kernel's map gave up
  starved,   \* {<<interface, key>>}: a fragment refused for want of approval
  overlap    \* keys in use by two datagrams at once

kernelVars == <<approved, lruLost>>
userVars == <<flows, order, buffer, evicted>>
vars == <<next, kernelVars, userVars, out, faults, faulty, starved, overlap>>

Keys == {Of[d].key : d \in Datagrams}
Frags(d) == Len(Of[d].lens)
Offset == [d \in Datagrams |->
  LET upTo[k \in 0 .. Frags(d)] == IF k = 0 THEN 0 ELSE upTo[k - 1] + Of[d].lens[k]
  IN  [k \in 1 .. Frags(d) + 1 |-> upTo[k - 1]]]
Size(d) == Offset[d][Frags(d) + 1]
InFlight(i, d) == next[i][d] \in 2 .. Frags(d)
Others(d) == {e \in Datagrams \ {d} : Of[e].key = Of[d].key}

Init ==
  /\ next = [i \in Interfaces |-> [d \in Datagrams |-> 1]]
  /\ approved = {}
  /\ flows = [i \in Interfaces |-> <<>>]
  /\ order = [i \in Interfaces |-> <<>>]
  /\ buffer = [i \in Interfaces |-> <<>>]
  /\ out = {}
  /\ faults = 0
  /\ faulty = {} /\ evicted = {} /\ lruLost = {} /\ starved = {} /\ overlap = {}

----------------------------------------------------------------------------
(* The kernel.                                                              *)

\* parse_ip_packet: at most two VLAN tags, and the transport or the fragment
\* header within four steps of the IPv6 header walk.
KernelParses(d) ==
  /\ Of[d].tags <= TagLimit
  /\ Len(Of[d].ext) < HeaderLimit
  /\ "esp" \notin ToSet(Of[d].ext)

\* Mutant: a bounded scan that found no DATA counts as one without DATA.
BoundedScanIsEnd(subs) == "no_data"

\* classify_bounded_scan_end: a scan that stops before another submessage, be
\* it in a later frame, is inconclusive.
BoundedScanEnd(subs) ==
  IF Len(subs) > ScanLimit THEN "inconclusive" ELSE "no_data"

\* rtps::classify on a first frame of `frame` blocks: the first DATA or
\* DATA_FRAG of the scanned submessages decides; a submessage of length 0 ends
\* the scan.  What the scan reads of submessage n (its header, and the entity
\* ids of a DATA) ends in block subs[n].at.  A read past the frame fails, and
\* ros2probe (main.rs) drops the frame.
Classify(subs, frame) ==
  LET stops == {n \in DOMAIN subs : n <= ScanLimit /\ subs[n].kind # "other"}
      first == CHOOSE n \in stops : \A m \in stops : n <= m
      read == {n \in DOMAIN subs : n <= ScanLimit /\ \A m \in stops : n <= m}
  IN  IF frame <= HeaderEnd \/ \E n \in read : subs[n].at >= frame THEN "error"
      ELSE IF stops = {} THEN BoundedScanEnd(subs)
      ELSE IF subs[first].kind = "tail" THEN "no_data"
      ELSE IF subs[first].discovery \/ subs[first].gids \cap Available # {}
           THEN "pass" ELSE "drop"

\* classify_udp and classify_tcp, on the first frame of a datagram.
KernelClassify ==
  [d \in Datagrams |->
     /\ KernelParses(d)
     /\ \/ Of[d].zenohPort
        \/ /\ ~Of[d].tcp /\ Of[d].rtps
           /\ Classify(Of[d].subs, Of[d].lens[1]) \in {"pass", "inconclusive"}]

\* frag_flow_mark: a full LRU map gives up some other entry.
Mark(key) ==
  \E lost \in SUBSET (approved \ {key}) :
    /\ Cardinality(lost) =
         IF key \notin approved /\ Cardinality(approved) >= ApprovalCapacity
         THEN 1 ELSE 0
    /\ approved' = (approved \ lost) \cup {key}
    /\ lruLost' = lruLost \cup lost

\* frag_flow_forget, on the last fragment.
Forget(d, k) == IF k = Frags(d) THEN approved \ {Of[d].key} ELSE approved

\* run: what the filter does to the map for frame k of d, and its verdict.
Filter(d, k) ==
  IF k = 1
  THEN IF KernelClassify[d] /\ Frags(d) > 1 THEN Mark(Of[d].key)
       ELSE UNCHANGED kernelVars
  ELSE approved' = Forget(d, k) /\ UNCHANGED lruLost

Passes(d, k) ==
  IF k = 1 THEN KernelClassify[d]
  ELSE KernelParses(d) /\ Of[d].key \in approved

----------------------------------------------------------------------------
(* User space: one reassembler and one buffer per interface.                *)

\* parse_ipv4_packet and parse_ipv6_packet: the walk is unbounded, and a
\* fragment header must be followed by the transport header.
UserParses(d) ==
  /\ Of[d].tags <= TagLimit
  /\ "esp" \notin ToSet(Of[d].ext)
  /\ \A n \in DOMAIN Of[d].ext : Of[d].ext[n] = "frag" => n = Len(Of[d].ext)

\* A frame that carries an IpFragmentInfo: a fragment, or an IPv6 packet with
\* a fragment header that is not one.
HasFragment(d) == Frags(d) > 1 \/ "frag" \in ToSet(Of[d].ext)

NewFlow == [total |-> -1, ranges |-> <<>>, chunks |-> <<>>]

\* total_len from the last fragment, the range, and the chunk, which replaces
\* one that starts at the same offset.
WriteFragment(st, d, k) ==
  LET from == Offset[d][k]
      end  == from + Of[d].lens[k]
  IN  [total  |-> IF k = Frags(d) THEN end ELSE st.total,
       ranges |-> InsertRange(st.ranges, from, end),
       chunks |-> [o \in DOMAIN st.chunks \cup {from} |->
                     IF o = from THEN [len |-> Of[d].lens[k], of |-> d]
                     ELSE st.chunks[o]]]

FlowIsComplete(st) == st.total >= 0 /\ RangesComplete(st.ranges, st.total)

\* The chunks are copied in the order of their offsets into zeroed memory.
Assemble(st) ==
  [b \in 0 .. st.total - 1 |->
     LET over == {o \in DOMAIN st.chunks : o <= b /\ b < o + st.chunks[o].len}
     IN  IF over = {} THEN Hole
         ELSE st.chunks[CHOOSE o \in over : \A p \in over : p <= o].of]

\* into_transport_payload: the header must be readable, and a UDP datagram is
\* cut to the length its header names.
TransportPayload(content) ==
  LET head == content[0]
      len  == Cardinality(DOMAIN content)
      end  == IF Of[head].tcp \/ Size(head) >= len THEN len ELSE Size(head)
  IN  IF head = Hole THEN {}
      ELSE {[head |-> head, payload |-> [b \in 1 .. end - 1 |-> content[b]]]}

\* classify_transport_packet: by signature, then by port.
Route(p) ==
  LET rtps == /\ ~Of[p.head].tcp
              /\ 1 \in DOMAIN p.payload /\ p.payload[1] # Hole
              /\ Of[p.payload[1]].rtps
  IN  IF rtps THEN {"rtps"} ELSE IF Of[p.head].zenohPort THEN {"zenoh"} ELSE {}

\* push_bounded drops the oldest packet of the same queue when it is full: its
\* place, in a set of at most one.
Overflow(queue, to) ==
  LET same == {n \in DOMAIN queue : queue[n].to = to}
  IN  IF Cardinality(same) >= BufferDepth THEN {n \in same : \A m \in same : n <= m} ELSE {}

PushBounded(queue, to, p) ==
  LET over == Overflow(queue, to)
      kept == IF over = {} THEN queue ELSE RemoveAt(queue, CHOOSE n \in over : TRUE)
  IN  Append(kept, [to |-> to, packet |-> p])

\* pump_from_batch on the datagrams a reassembler returned (none or one), the
\* flows `gone` having been evicted on the way.
Deliver(i, datagrams, gone) ==
  LET packets == UNION {TransportPayload(c) : c \in datagrams}
  IN  \/ /\ \A p \in packets : Route(p) = {}
         /\ evicted' = evicted \cup ({i} \X gone) /\ UNCHANGED buffer
      \/ \E p \in packets : \E to \in Route(p) :
           /\ buffer' = [buffer EXCEPT ![i] = PushBounded(@, to, p)]
           /\ evicted' = evicted \cup ({i} \X gone) \cup
                {<<i, Of[buffer[i][n].packet.head].key>> : n \in Overflow(buffer[i], to)}

\* IpFragmentReassembler::accept for a fragment.
AcceptPiece(i, d, k) ==
  LET key  == Of[d].key
      live == DOMAIN flows[i]
      new  == key \notin live
      full == new /\ Cardinality(live) >= FlowCapacity
      gone == IF full THEN EvictVictim(order[i], live) ELSE {}
      kept == IF full THEN EvictQueue(order[i], live) ELSE order[i]
      ord  == IF new THEN Append(kept, key) ELSE kept
      st   == WriteFragment(IF new THEN NewFlow ELSE flows[i][key], d, k)
      left == (live \ gone) \ {key}
  IN  IF FlowIsComplete(st)
      THEN /\ flows' = [flows EXCEPT ![i] = [q \in left |-> flows[i][q]]]
           /\ order' = [order EXCEPT ![i] = RemoveFirst(ord, key)]
           /\ Deliver(i, {Assemble(st)}, gone)
      ELSE /\ flows' = [flows EXCEPT ![i] =
                [q \in left \cup {key} |-> IF q = key THEN st ELSE flows[i][q]]]
           /\ order' = [order EXCEPT ![i] = ord]
           /\ Deliver(i, {}, gone)

Accept(i, d, k) ==
  IF HasFragment(d) THEN AcceptPiece(i, d, k)
  ELSE /\ Deliver(i, {[b \in 0 .. Size(d) - 1 |-> d]}, {})
       /\ UNCHANGED <<flows, order>>

----------------------------------------------------------------------------
(* Frames.                                                                  *)

\* A frame reaches the filter of an interface and, if it passes, the worker.
Frame(i, d, k) ==
  /\ IF Passes(d, k)
     THEN /\ Filter(d, k)
          /\ starved' = starved
          /\ IF UserParses(d) THEN Accept(i, d, k) ELSE UNCHANGED userVars
     ELSE /\ starved' = starved \cup
               IF k > 1 THEN {<<i, Of[d].key>>} ELSE {}
          /\ UNCHANGED <<kernelVars, userVars>>
  /\ overlap' = overlap \cup
       {Of[e].key : e \in {e \in Others(d) : \E j \in Interfaces : InFlight(j, e)}}
  /\ UNCHANGED out

\* The next frame of a datagram.  A sender reuses an identification only
\* after the fragments of its previous use.
Arrive(i, d) ==
  /\ next[i][d] <= Frags(d)
  /\ next[i][d] = 1 => \A e \in Others(d) : ~InFlight(i, e)
  /\ next' = [next EXCEPT ![i][d] = @ + 1]
  /\ Frame(i, d, next[i][d])
  /\ UNCHANGED <<faults, faulty>>

\* The network, or a full capture ring, loses the next frame.
Miss(i, d) ==
  /\ d \in Unlucky
  /\ faults < MaxFaults
  /\ next[i][d] <= Frags(d)
  /\ next' = [next EXCEPT ![i][d] = @ + 1]
  /\ faults' = faults + 1
  /\ faulty' = faulty \cup {Of[d].key}
  /\ UNCHANGED <<kernelVars, userVars, out, starved, overlap>>

\* A frame arrives once more, or one that was missed arrives late.
Repeat(i, d, k) ==
  /\ d \in Unlucky
  /\ faults < MaxFaults
  /\ k < next[i][d]
  /\ faults' = faults + 1
  /\ faulty' = faulty \cup {Of[d].key}
  /\ Frame(i, d, k)
  /\ UNCHANGED next

\* A packet with the bytes of one datagram, all of them; and the datagrams of
\* which a buffer holds such a packet.
Whole(p) == p.payload = [b \in 1 .. Size(p.head) - 1 |-> p.head]
WholeIn(i) == {q.packet.head : q \in {q \in ToSet(buffer[i]) : Whole(q.packet)}}

\* CaptureBuffer::pop and pop_zenoh: after each batch of frames the worker
\* empties its buffer.
Pop(i) ==
  /\ buffer[i] # <<>>
  /\ buffer' = [buffer EXCEPT ![i] = <<>>]
  /\ out' = out \cup WholeIn(i)
  /\ UNCHANGED <<next, kernelVars, flows, order, evicted,
                 faults, faulty, starved, overlap>>

Next ==
  \E i \in Interfaces :
    \/ Pop(i)
    \/ \E d \in Datagrams :
         \/ Arrive(i, d)
         \/ Miss(i, d)
         \/ \E k \in 1 .. Frags(d) : Repeat(i, d, k)

Spec == Init /\ [][Next]_vars

----------------------------------------------------------------------------
(* Properties.                                                              *)

\* Types, and the bounds of the kernel's map and of every reassembler.
TypeOK ==
  /\ \A i \in Interfaces, d \in Datagrams : next[i][d] \in 1 .. Frags(d) + 1
  /\ approved \subseteq Keys /\ Cardinality(approved) <= ApprovalCapacity
  /\ \A i \in Interfaces : /\ DOMAIN flows[i] \subseteq Keys
                            /\ Cardinality(DOMAIN flows[i]) <= FlowCapacity
                            /\ Len(buffer[i]) <= 2 * BufferDepth
  /\ out \subseteq Datagrams
  /\ faults \in 0 .. MaxFaults

\* The eviction queue of a reassembler names each of its flows exactly once:
\* otherwise an eviction removes nothing and the table outgrows its bound, or
\* a completed key is queued for ever (IpFragmentReassembler::accept).
OrderExact == \A i \in Interfaces : QueueExact(order[i], DOMAIN flows[i])

\* insert_range keeps a flow's ranges sorted and apart, and no chunk lies
\* outside them.  (They may cover more: a chunk that replaces a longer one.)
RangesExact ==
  \A i \in Interfaces : \A key \in DOMAIN flows[i] :
    LET st == flows[i][key] IN
    /\ Separated(st.ranges)
    /\ \A o \in DOMAIN st.chunks :
         o .. o + st.chunks[o].len - 1 \subseteq Covered(st.ranges)

\* The kernel's map and every reassembler are consistent and within their
\* bounds after any loss, repetition, eviction and completion.
FlowsExact == TypeOK /\ OrderExact /\ RangesExact

\* What reaches a parser is one datagram whole, whatever was lost, repeated or
\* late, as long as no other datagram of the same identification has come by
\* on that interface; and even then, unless the other one left fragments or
\* an approval behind: a frame was missed or repeated on some interface, a
\* fragment was evicted or refused by the filter on this one, or the
\* identification was in use twice at once.
OnlyWhole ==
  \A i \in Interfaces : \A q \in ToSet(buffer[i]) :
    LET key == Of[q.packet.head].key IN
    \/ Whole(q.packet)
    \/ /\ \E e \in Others(q.packet.head) : next[i][e] > 1
       /\ \/ <<i, key>> \in starved \cup evicted
          \/ key \in faulty \cup lruLost \cup overlap

\* A datagram worth capturing that the filter can tell as such: its port is
\* Zenoh's, or its first DATA is wanted, and the RTPS header and what the scan
\* reads up to that DATA, or up to its bound, lie in the first frame; and both
\* parsers can read it.  A DATA whose ids lie beyond a short first fragment is
\* out: the filter drops it, and the rest of its datagram, wanted or not.
Wanted ==
  {d \in Datagrams :
     /\ KernelParses(d) /\ UserParses(d)
     /\ \/ Of[d].zenohPort
        \/ /\ ~Of[d].tcp /\ Of[d].rtps /\ HeaderEnd < Of[d].lens[1]
           /\ \E n \in DOMAIN Of[d].subs :
                LET sub == Of[d].subs[n] IN
                /\ sub.kind = "data"
                /\ sub.discovery \/ sub.gids \cap Available # {}
                /\ \A m \in 1 .. n - 1 : Of[d].subs[m].kind = "other"
                /\ \A m \in 1 .. n : m <= ScanLimit => Of[d].subs[m].at < Of[d].lens[1]}

\* Although the interfaces share one approval per key, and the first last
\* fragment to come removes it under the feet of the others, a wanted
\* datagram whose frames all arrived in order reaches the parsers of at least
\* one interface, unless its key was evicted or in use twice, or the fragments
\* of an earlier datagram that the filter let through may still be there.
AtLeastOneCopy ==
  \A d \in Wanted :
    (/\ \A i \in Interfaces : next[i][d] > Frags(d)
     /\ Of[d].key \notin overlap \cup lruLost \cup faulty
     /\ \A i \in Interfaces :
          /\ <<i, Of[d].key>> \notin evicted
          /\ \A e \in Others(d) : next[i][e] > 1 => ~KernelClassify[e])
    => d \in out \cup UNION {WholeIn(i) : i \in Interfaces}
=============================================================================
