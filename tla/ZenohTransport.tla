--------------------------- MODULE ZenohTransport ---------------------------
(* The ZenohProcessor of each capture worker (protocols/zenoh.rs) below the *)
(* token tables of ZenohTokens: TCP segments are put in order and cut into  *)
(* batches, UDP packets are a batch each, and the Fragment messages of the  *)
(* batches are joined in chains whose bytes count against a budget that all *)
(* workers share.                                                           *)
(* A batch holds one message and is BatchLen bytes of its flow's stream;    *)
(* captured bytes are the positions they have in the stream.  Bytes that do *)
(* not start at a batch do not decode.  A fragment's payload is one piece   *)
(* <<message, index>> and counts as one byte of the budget.                 *)
EXTENDS Integers, FiniteSets, FiniteSetsExt, Reassembly

CONSTANTS
  Workers, Flows,
  ReverseFlow,          \* [Flows -> Flows], the other direction of a connection
  Wires,            \* [names -> what is on the wire], to choose one from
  BatchLen,         \* bytes of a batch, its length header included
  SeqModulus,       \* 2^32, of TCP sequence numbers
  InitialSeq,       \* sequence number of the first byte
  QueueBytes,       \* ZENOH_TCP_REASSEMBLY_CAPACITY
  QueueSegments,    \* ZENOH_TCP_REASSEMBLY_MAX_SEGMENTS
  ChainBytes,       \* ZENOH_FRAGMENT_DEFRAG_FLOW_CAPACITY
  Budget,           \* ZENOH_FRAGMENT_DEFRAG_TOTAL_CAPACITY
  Timeout,          \* ZENOH_FRAGMENT_FLOW_TIMEOUT, in ticks
  SnModulus         \* TransportSn::MAX + 1

ASSUME TransportAssumption ==
  /\ {BatchLen, SeqModulus, QueueBytes, QueueSegments, ChainBytes, Budget,
      Timeout, SnModulus} \subseteq Nat \ {0}
  /\ ReverseFlow \in [Flows -> Flows] /\ InitialSeq \in 0 .. SeqModulus - 1
  /\ IsFiniteSet(Workers)

\* The Fragment messages of a flow.
Fragments(v, f) == {m \in ToSet(Wires[v].stream[f]) : m.kind = "fragment"}

\* A TCP stream does not come round to the sequence numbers it started with,
\* and all messages tell the same resolution.
ASSUME WireAssumption ==
  \A v \in DOMAIN Wires :
    LET V == Wires[v] IN
    /\ V.tcp \in [Flows -> BOOLEAN] /\ V.worker \in [Flows -> Workers]
    /\ V.capacity \in Nat \ {0} /\ V.packets \in Nat /\ V.cuts \subseteq Nat
    /\ V.modulus \in 1 .. SnModulus /\ V.pieces \in [DOMAIN V.pieces -> Nat \ {0}]
    /\ \A f \in Flows :
         /\ V.stream[f] \in Seq(ToSet(V.stream[f]))
         /\ BatchLen * Len(V.stream[f]) < SeqModulus \div 2
         /\ \A m \in ToSet(V.stream[f]) : m.kind \in {"initack", "join"} => m.modulus = V.modulus

\* What a sender does: it marks the first and the last piece of a message, and
\* numbers the pieces of a channel one after the other; so the next number is
\* the next piece, as long as the numbers of a channel do not come round.
ASSUME FragmentAssumption ==
  \A v \in DOMAIN Wires : \A f \in Flows : \A m \in Fragments(v, f) :
    LET V == Wires[v]
        next == (m.sn + 1) % V.modulus
    IN
    /\ {m.first, m.more, m.drop} \subseteq BOOLEAN /\ m.sn \in 0 .. V.modulus - 1
    /\ m.id \in DOMAIN V.pieces /\ m.piece \in 1 .. V.pieces[m.id]
    /\ m.first => m.piece = 1
    /\ ~m.drop => (m.more <=> m.piece < V.pieces[m.id])
    /\ \A n \in Fragments(v, f) : n.channel = m.channel =>
         /\ n.id = m.id /\ n.piece = m.piece + 1 => n.sn = next
         /\ m.more /\ ~m.drop /\ n.sn = next => n.id = m.id /\ n.piece = m.piece + 1

VARIABLES
  wire,     \* which of Wires
  tcp,      \* [Flows -> ZenohTcpFlowState], NoFlow when not in tcp_flows
  tcpOrder,    \* [Workers -> order], the flows in tcp_flows, oldest first
  frag,     \* fragment_flows, transport_resolutions, the budget
  running,  \* workers that have not exited
  packets,  \* number of packets so far
  seen      \* history: bytes of each TCP flow captured since it was aligned

transportVars == <<wire, tcp, tcpOrder, frag, running, packets, seen>>

W == Wires[wire]
Capacity == W.capacity
IsTcp(f) == W.tcp[f]
Stream(f) == W.stream[f]
StreamLen(f) == BatchLen * Len(Stream(f))
Host(f) == W.worker[f]
FlowsOf(w) == {f \in Flows : Host(f) = w}

NoSn == -1
NoFlow == [aligned |-> FALSE, next |-> 0, segments |-> <<>>, queued |-> 0,
           buffer |-> <<>>, read |-> <<>>, from |-> 0, known |-> FALSE]

\* A queue without some of its members.
Without(q, K) ==
  LET upTo[n \in 0 .. Len(q)] ==
        IF n = 0 THEN <<>>
        ELSE IF q[n] \in K THEN upTo[n - 1] ELSE Append(upTo[n - 1], q[n])
  IN  upTo[Len(q)]

\* A table whose entries are in the order of their last_seen.
NoTable == [of |-> <<>>, order |-> <<>>]
Put(T, k, x) ==
  [of    |-> [j \in DOMAIN T.of \cup {k} |-> IF j = k THEN x ELSE T.of[j]],
   order |-> Append(Without(T.order, {k}), k)]
TakeOut(T, K) ==
  [of    |-> [j \in DOMAIN T.of \ K |-> T.of[j]],
   order |-> Without(T.order, K)]
\* With all places taken, a new entry costs the one seen longest ago.
Oldest(T, k) ==
  IF k \notin DOMAIN T.of /\ Cardinality(DOMAIN T.of) >= Capacity THEN {Head(T.order)} ELSE {}

\* History: the payloads of all complete chains (handed), and the pieces of a
\* message that a channel has brought without interruption since its first
\* (run).
NoRun == [pieces |-> <<>>, exact |-> FALSE]
FragmentKeys ==
  Flows \X UNION {{m.channel : m \in Fragments(v, f)} : v \in DOMAIN Wires, f \in Flows}

TransportInit ==
  /\ wire \in DOMAIN Wires
  /\ tcp = [f \in Flows |-> NoFlow]
  /\ tcpOrder = [w \in Workers |-> <<>>]
  /\ frag = [chains |-> [w \in Workers |-> NoTable],
             resolutions |-> [w \in Workers |-> NoTable], used |-> 0,
             handed |-> {}, run |-> [k \in FragmentKeys |-> NoRun]]
  /\ running = Workers
  /\ packets = 0
  /\ seen = [f \in Flows |-> {}]

----------------------------------------------------------------------------
(* TCP sequence numbers wrap around.                                        *)

SeqAdd(seq, n) == (seq + n) % SeqModulus
\* Mutant: sequence numbers are compared as numbers.
SeqBeforePlain(l, r) == l < r

SeqBefore(l, r) == (l - r) % SeqModulus >= SeqModulus \div 2
SeqLte(l, r) == l = r \/ SeqBefore(l, r)
Seqno(p) == SeqAdd(InitialSeq, p)

(* ZenohTcpFlowState.  `read` (history) holds the bytes of the batches read *)
(* since the flow was aligned, and `from` the first of them.                *)

\* reset_alignment
ResetAlignment(t) == [NoFlow EXCEPT !.known = TRUE]

\* frame_batches: the batches at the front of a buffer, up to the first that
\* does not decode.  An empty batch gives no message.
FrameBatches(f, buffer) ==
  LET n == Len(buffer) \div BatchLen
      head(i) == buffer[BatchLen * (i - 1) + 1]
      msg(i) == Stream(f)[head(i) \div BatchLen + 1]
      bad  == {i \in 1 .. n : head(i) % BatchLen # 0 \/ msg(i).kind = "bad"}
      k    == IF bad = {} THEN n ELSE Min(bad) - 1
  IN  [read |-> SubSeq(buffer, 1, BatchLen * k),
       rest |-> SubSeq(buffer, BatchLen * k + 1, Len(buffer)),
       msgs |-> [i \in 1 .. k |-> msg(i)],
       failed |-> bad # {}]

\* try_align_from_segment: a segment that holds whole batches only, and a
\* message, shows where batches start.
TryAlign(f, t, seq, bytes) ==
  LET framed == FrameBatches(f, bytes) IN
  IF framed.failed \/ \A i \in DOMAIN framed.msgs : framed.msgs[i].kind = "empty"
  THEN [state |-> t, msgs |-> <<>>, kept |-> FALSE]
  ELSE [state |-> [t EXCEPT !.aligned = TRUE, !.next = SeqAdd(seq, Len(bytes)),
                            !.segments = <<>>, !.queued = 0, !.buffer = framed.rest,
                            !.read = framed.read, !.from = Head(bytes)],
        msgs |-> framed.msgs, kept |-> FALSE]

\* insert_segment: old and repeated bytes need no place.
Redundant(t, seq, bytes) ==
  \/ SeqLte(SeqAdd(seq, Len(bytes)), t.next)
  \/ \E i \in DOMAIN t.segments :
        t.segments[i].seq = seq /\ Len(t.segments[i].bytes) >= Len(bytes)

HasRoom(t, bytes) ==
  t.queued + Len(bytes) <= QueueBytes /\ Len(t.segments) < QueueSegments

InsertSegment(t, seq, bytes) ==
  LET place == Cardinality({i \in DOMAIN t.segments : SeqLte(t.segments[i].seq, seq)}) + 1
  IN  IF Redundant(t, seq, bytes) THEN t
      ELSE [t EXCEPT !.segments = InsertAt(@, place, [seq |-> seq, bytes |-> bytes]),
                     !.queued = @ + Len(bytes)]

\* flush_contiguous: a segment at the front gives the bytes that are still
\* missing, until one starts after them.
TakeSegment(t, g) ==
  LET offset == (t.next - g.seq) % SeqModulus
      fresh  == IF SeqLte(SeqAdd(g.seq, Len(g.bytes)), t.next) THEN <<>>
                ELSE SubSeq(g.bytes, offset + 1, Len(g.bytes))
  IN  [t EXCEPT !.queued = @ - Len(g.bytes),
                !.buffer = @ \o fresh,
                !.next = SeqAdd(@, Len(fresh))]

FlushContiguous(t) ==
  LET s == t.segments
      taken[n \in 0 .. Len(s)] == IF n = 0 THEN t ELSE TakeSegment(taken[n - 1], s[n])
      ends == {n \in 0 .. Len(s) : n < Len(s) => SeqBefore(taken[n].next, s[n + 1].seq)}
  IN  [taken[Min(ends)] EXCEPT !.segments = SubSeq(s, Min(ends) + 1, Len(s))]

\* process_tcp, a segment of an aligned flow: the flow after it and the
\* messages it completes.
ReadSegment(f, t, seq, bytes) ==
  LET u == FlushContiguous(InsertSegment(t, seq, bytes))
      framed == FrameBatches(f, u.buffer)
  IN  IF ~Redundant(t, seq, bytes) /\ ~HasRoom(t, bytes)
      THEN TryAlign(f, ResetAlignment(t), seq, bytes)
      ELSE [state |-> IF framed.failed THEN ResetAlignment(u)
                      ELSE [u EXCEPT !.buffer = framed.rest, !.read = @ \o framed.read],
            msgs |-> framed.msgs, kept |-> TRUE]

\* tcp_flow_state: with all places taken the oldest flow is forgotten.
Victim(f) ==
  LET o == tcpOrder[Host(f)] IN
  IF tcp[f].known \/ Len(o) < Capacity THEN {} ELSE EvictVictim(o, ToSet(o))

NewOrder(f) ==
  LET o == tcpOrder[Host(f)] IN
  IF tcp[f].known THEN o
  ELSE Append(IF Victim(f) = {} THEN o ELSE EvictQueue(o, ToSet(o)), f)

----------------------------------------------------------------------------
(* Chains of fragments; the operators take and return `frag`.               *)

NewChain(modulus) == [next |-> NoSn, modulus |-> modulus, payload |-> <<>>, age |-> 0]

\* The pieces that some chains of a table hold; each counts as one byte.
Pieces(T, K) == UNION {{k} \X (1 .. Len(T.of[k].payload)) : k \in K}

\* remove_fragment_state, for some keys.
RemoveChains(F, w, K) ==
  LET gone == K \cap DOMAIN F.chains[w].of IN
  [F EXCEPT !.chains[w] = TakeOut(@, gone),
            !.used = @ - Cardinality(Pieces(F.chains[w], gone)),
            !.run = [k \in FragmentKeys |-> IF k \in gone THEN NoRun ELSE @[k]]]

\* Mutant: an evicted or finished chain keeps its share of the budget.
RemoveChainKeepsBytes(F, w, key) == [F EXCEPT !.chains[w] = TakeOut(@, {key})]

RemoveChain(F, w, key) == RemoveChains(F, w, {key})

\* remove_fragment_flow_direction
RemoveFlowChains(F, w, fs) == RemoveChains(F, w, {k \in FragmentKeys : k[1] \in fs})

\* Mutant: chains never time out.
ExpireNothing(F, w) == F

\* expire_inactive_fragments
ExpireInactive(F, w) ==
  RemoveChains(F, w, {k \in DOMAIN F.chains[w].of : F.chains[w].of[k].age >= Timeout})

\* remember_direction_resolution: the entry is now the latest one.
RememberDirection(F, w, f, modulus) ==
  [F EXCEPT !.resolutions[w] = Put(TakeOut(@, Oldest(@, f)), f, modulus)]

\* fragment_sn_mask, as a modulus: the resolution of the flow, if known.
SnMask(F, w, f) ==
  IF f \in DOMAIN F.resolutions[w].of THEN F.resolutions[w].of[f] ELSE SnModulus

TouchResolution(F, w, f) ==
  IF f \in DOMAIN F.resolutions[w].of
  THEN [F EXCEPT !.resolutions[w] = Put(@, f, @.of[f])] ELSE F

\* The chain of a key, as a fragment finds it.
Chain(F, w, key, modulus) ==
  IF key \in DOMAIN F.chains[w].of THEN [F.chains[w].of[key] EXCEPT !.age = 0]
  ELSE NewChain(modulus)

\* Mutant: a fragment continues a chain whatever its sequence number.
OpenChainAnywhere(F, w, key, m, modulus) ==
  LET c == Chain(F, w, key, modulus)
  IN  IF m.first THEN [c EXCEPT !.payload = <<>>, !.next = m.sn, !.modulus = modulus]
      ELSE [c EXCEPT !.next = m.sn]

\* The chain that a fragment continues: started again, new, or as it was.
OpenChain(F, w, key, m, modulus) ==
  LET c == Chain(F, w, key, modulus)
  IN  IF m.first THEN [c EXCEPT !.payload = <<>>, !.next = m.sn, !.modulus = modulus]
      ELSE IF c.next = NoSn THEN [c EXCEPT !.next = m.sn]
      ELSE c

ExtendChain(c, m) ==
  [c EXCEPT !.payload = Append(@, <<m.id, m.piece>>), !.next = (m.sn + 1) % c.modulus]

\* History: a run starts at a fragment marked first and ends when a piece is
\* missing; or at a wrap of the sequence numbers, if the resolution was not
\* known at its start.
ExtendRun(F, w, f, m) ==
  LET r == F.run[<<f, m.channel>>]
      p == <<m.id, m.piece>>
  IN  CASE m.first -> [pieces |-> <<p>>, exact |-> SnMask(F, w, f) = W.modulus]
        [] ~m.first /\ r.pieces # <<>> /\ p = <<Last(r.pieces)[1], Last(r.pieces)[2] + 1>>
              /\ (r.exact \/ m.sn # 0) -> [r EXCEPT !.pieces = Append(@, p)]
        [] OTHER -> NoRun

\* accept_fragment, with room for the chain: the fragment continues its chain,
\* or ends it: when it is not the one expected, when a limit is reached, or when
\* it is the last one.
ContinueChain(F, w, f, m) ==
  LET key  == <<f, m.channel>>
      c    == OpenChain(F, w, key, m, SnMask(F, w, f))
      d    == ExtendChain(c, m)
      E    == RemoveChain(F, w, key)
      used == E.used + Len(c.payload)  \* a restart has released the old payload
      over == Len(d.payload) > ChainBytes \/ used + 1 > Budget
      I    == [E EXCEPT !.run[key] = IF over THEN NoRun ELSE ExtendRun(F, w, f, m)]
  IN  IF c.next # m.sn \/ over THEN I
      ELSE IF m.more THEN [I EXCEPT !.chains[w] = Put(@, key, d), !.used = used + 1]
      ELSE [I EXCEPT !.handed = @ \cup {d.payload}]

AcceptFragment(F, w, f, m) ==
  LET key == <<f, m.channel>>
      G   == TouchResolution(F, w, f)
  IN  IF m.drop THEN RemoveChain(G, w, key)
      ELSE ContinueChain(RemoveChains(G, w, Oldest(G.chains[w], key)), w, f, m)

\* expand_fragments, one message: an InitAck tells the resolution of both
\* directions, a Join that of its own.
ExpandMessage(F, w, f, m) ==
  CASE m.kind = "initack" ->
         RememberDirection(RememberDirection(F, w, f, m.modulus), w, ReverseFlow[f], m.modulus)
    [] m.kind = "join" -> RememberDirection(F, w, f, m.modulus)
    [] m.kind = "fragment" -> AcceptFragment(F, w, f, m)
    [] OTHER -> F

ExpandFragments(F, w, f, msgs) ==
  LET after[n \in 0 .. Len(msgs)] ==
        IF n = 0 THEN F ELSE ExpandMessage(after[n - 1], w, f, msgs[n])
  IN  after[Len(msgs)]

\* remove_tcp_flow, of the chains and resolutions.
RemoveFlowState(F, w, f) ==
  [RemoveFlowChains(F, w, {f}) EXCEPT !.resolutions[w] = TakeOut(@, {f})]

----------------------------------------------------------------------------
(* The workers.                                                             *)

\* process_tcp, with payload: bytes a .. b - 1 of the stream, which any packet
\* may carry again, cut differently.  The last one may have FIN set.
TcpData(f, a, b, fin) ==
  LET w    == Host(f)
      F    == RemoveFlowChains(ExpireInactive(frag, w), w, Victim(f))
      byte == [i \in 1 .. b - a |-> a + i - 1]
      out  == IF tcp[f].aligned THEN ReadSegment(f, tcp[f], Seqno(a), byte)
              ELSE TryAlign(f, [tcp[f] EXCEPT !.known = TRUE], Seqno(a), byte)
      G    == ExpandFragments(F, w, f, out.msgs)
  IN  /\ IsTcp(f)
      /\ tcp' = [g \in Flows |->
                   CASE g = f -> IF fin THEN NoFlow ELSE out.state
                     [] g # f /\ g \in Victim(f) -> NoFlow
                     [] OTHER -> tcp[g]]
      /\ tcpOrder' = [tcpOrder EXCEPT ![w] = Without(NewOrder(f), IF fin THEN {f} ELSE {})]
      /\ frag' = IF fin THEN RemoveFlowState(G, w, f) ELSE G
      /\ seen' = [seen EXCEPT ![f] =
                     CASE fin \/ ~out.state.aligned -> {}
                       [] out.kept -> @ \cup (a .. b - 1)
                       [] OTHER -> a .. b - 1]

\* process_tcp, FIN without payload or RST: the flow is forgotten.
TcpEnd(f) ==
  /\ IsTcp(f)
  /\ tcp' = [tcp EXCEPT ![f] = NoFlow]
  /\ tcpOrder' = [tcpOrder EXCEPT ![Host(f)] = Without(@, {f})]
  /\ frag' = RemoveFlowState(ExpireInactive(frag, Host(f)), Host(f), f)
  /\ seen' = [seen EXCEPT ![f] = {}]

\* process_udp: the i-th batch of the flow, if it decodes.
UdpData(f, i) ==
  LET F == ExpireInactive(frag, Host(f))
      m == Stream(f)[i]
  IN  /\ ~IsTcp(f)
      /\ frag' = IF m.kind = "bad" THEN F ELSE ExpandMessage(F, Host(f), f, m)
      /\ UNCHANGED <<tcp, tcpOrder, seen>>

\* process_packet.  Packets are lost, repeated and reordered: any one of the
\* wire may be the next that the worker sees.
Packet(f) ==
  /\ Host(f) \in running /\ packets < W.packets
  /\ packets' = packets + 1
  /\ \/ TcpEnd(f)
     \/ \E a, b \in W.cuts, fin \in BOOLEAN :
           /\ a < b /\ b <= StreamLen(f)
           /\ fin => b = StreamLen(f)
           /\ TcpData(f, a, b, fin)
     \/ \E i \in DOMAIN Stream(f) : UdpData(f, i)
  /\ UNCHANGED <<wire, running>>

\* The worker's turn without a packet.
Expire(w) ==
  /\ w \in running
  /\ frag' = ExpireInactive(frag, w)
  /\ UNCHANGED <<wire, tcp, tcpOrder, running, packets, seen>>

\* The worker ends and drops its processor.
Drop(w) ==
  /\ w \in running
  /\ running' = running \ {w}
  /\ tcp' = [f \in Flows |-> IF Host(f) = w THEN NoFlow ELSE tcp[f]]
  /\ tcpOrder' = [tcpOrder EXCEPT ![w] = <<>>]
  /\ frag' = [RemoveChains(frag, w, FragmentKeys) EXCEPT !.resolutions[w] = NoTable]
  /\ seen' = [f \in Flows |-> IF Host(f) = w THEN {} ELSE seen[f]]
  /\ UNCHANGED <<wire, packets>>

OlderChain(c) == [c EXCEPT !.age = IF @ < Timeout THEN @ + 1 ELSE @]
Older(T) == [T EXCEPT !.of = [k \in DOMAIN T.of |-> OlderChain(T.of[k])]]

TransportTick ==
  /\ frag' = [frag EXCEPT !.chains = [w \in Workers |-> Older(@[w])]]
  /\ UNCHANGED <<wire, tcp, tcpOrder, running, packets, seen>>

TransportNext ==
  \/ \E f \in Flows : Packet(f)
  \/ \E w \in Workers : Expire(w) \/ Drop(w)
  \/ TransportTick

TransportSpec == TransportInit /\ [][TransportNext]_transportVars

\* The worker takes its turn at least every pump timeout, and time goes on.
FairTransportSpec == TransportSpec /\ WF_transportVars(TransportTick) /\ \A w \in Workers : WF_transportVars(Expire(w))

----------------------------------------------------------------------------
(* Properties.                                                              *)

\* The state of each worker is bounded: one place in the queue per TCP flow,
\* no more flows, chains and resolutions than the capacity, no more queued
\* bytes and segments than the limits, and the count of queued bytes is right.
Bytes(segments) ==
  LET lens == [n \in DOMAIN segments |-> Len(segments[n].bytes)]
      upTo[n \in 0 .. Len(segments)] == IF n = 0 THEN 0 ELSE upTo[n - 1] + lens[n]
  IN  upTo[Len(segments)]

TableBounded(T) ==
  QueueExact(T.order, DOMAIN T.of) /\ Cardinality(DOMAIN T.of) <= Capacity

StateBounded ==
  /\ \A w \in Workers :
       /\ QueueExact(tcpOrder[w], {f \in Flows : Host(f) = w /\ tcp[f].known})
       /\ Len(tcpOrder[w]) <= Capacity
       /\ TableBounded(frag.chains[w]) /\ TableBounded(frag.resolutions[w])
  /\ \A f \in Flows :
       LET t == tcp[f] IN
       /\ t.queued = Bytes(t.segments)
       /\ t.queued <= QueueBytes /\ Len(t.segments) <= QueueSegments

\* The budget that the workers share is the bytes of the chains they hold, and
\* stays within its capacity: whatever ends a chain gives its bytes back, once
\* ("released more fragment bytes than reserved" is never reached).
Held(F) ==
  UNION {{w} \X Pieces(F.chains[w], DOMAIN F.chains[w].of) : w \in Workers}
BudgetExact == frag.used = Cardinality(Held(frag)) /\ frag.used <= Budget

\* Every worker stays within its bounds and the shared budget counts what they
\* hold, after any loss, overflow, reset, eviction and timeout.
TransportExact == StateBounded /\ BudgetExact

\* What an aligned flow has read and buffered is its stream, without a gap or
\* a repetition, from the byte it was aligned at to the one expected next; and
\* no byte captured since then is lost: it has been read or is queued.
StreamIntact ==
  \A f \in Flows : tcp[f].aligned =>
    LET t    == tcp[f]
        done == t.read \o t.buffer
        last == t.from + Len(done)
    IN  /\ done = [i \in 1 .. Len(done) |-> t.from + i - 1]
        /\ t.from % BatchLen = 0 /\ Len(t.buffer) < BatchLen
        /\ t.next = Seqno(last)
        /\ \A p \in seen[f] : p >= last =>
              \E i \in DOMAIN t.segments : p \in ToSet(t.segments[i].bytes)

\* The pieces that the wire's messages are made of.
WholeMessages ==
  {[i \in 1 .. W.pieces[id] |-> <<id, i>>] : id \in DOMAIN W.pieces}

\* A chain handed to the decoder that starts at the first piece of a message
\* is that message, whole and alone, whatever was lost, repeated or reordered
\* and wherever the sequence numbers wrap.
ChainsWhole == \A p \in frag.handed : p[1][2] = 1 => p \in WholeMessages

\* A message whose fragments came one after the other, the first one marked
\* so, has been handed to the decoder, if the limits left room for it.
RunsHanded ==
  \A k \in FragmentKeys : frag.run[k].pieces \in WholeMessages => frag.run[k].pieces \in frag.handed

\* The decoder gets a fragmented message exactly when its fragments were there:
\* nothing joined over a gap, nothing complete withheld.
MessagesIntact == ChainsWhole /\ RunsHanded

\* The bytes of abandoned chains return to the budget: once packets stop, it
\* is all free again.
BudgetReturned == <>[](frag.used = 0)
=============================================================================
