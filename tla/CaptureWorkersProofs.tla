------------------------ MODULE CaptureWorkersProofs ------------------------
(***************************************************************************)
(* Proofs about CaptureWorkers, for every wire, any number of workers and  *)
(* all capacities: the shared budget, the eviction queues and the ranges   *)
(* of every worker are exact (FlowsExact); only whole samples reach the    *)
(* runtime, which applies each once (SamplesRight); and the table holds    *)
(* the last word on a participant once all has been read (Converges).      *)
(*                                                                         *)
(* The order: the types; the table of one worker, as a value; the bytes    *)
(* that all tables reserve; and the three invariants.  The list of ranges  *)
(* and the eviction queue are in CommonLemmas.                             *)
(***************************************************************************)
EXTENDS CaptureWorkers, CommonLemmas

----------------------------------------------------------------------------
(* The types of the variables.                                             *)

\* The submessages on any wire, what they name, and what is made of them.
Subs == UNION {UNION {ToSet(Wires[x][n]) : n \in DOMAIN Wires[x]} : x \in DOMAIN Wires}
Ids == {s.id : s \in Subs}
Events == [kind : {"data", "announce", "dispose", "garbled"}, id : Ids, whole : BOOLEAN]
FlowStates == [size : Nat, ranges : Ranges, written : SUBSET Nat]
FlowTables == UNION {[D -> FlowStates] : D \in SUBSET Ids}
Batches == Seq(Events)

\* The types of the variables.
TypeInv ==
    /\ wire \in DOMAIN Wires
    /\ pos \in [Workers -> Nat]
    /\ at \in [Workers -> Nat]
    /\ got \in [Workers -> Batches]
    /\ events \in [Workers -> Batches]
    /\ pc \in [Workers -> {"pump", "packet", "reserve", "send", "exited"}]
    /\ chan \in Seq(Batches)
    /\ batch \in Batches
    /\ cache \in Seq(Ids) /\ log \in Seq(Ids)
    /\ runtime \in {"running", "stopping", "gone"}

\* Where a worker is: at a packet of the wire, and at a submessage of it or
\* behind the last; outside packets it holds no event of one.
PlaceInv ==
    /\ missed \subseteq Workers \X (1 .. Len(Packets))
    /\ \A w \in Workers :
         /\ pos[w] \in 0 .. Len(Packets)
         /\ at[w] >= 1
         /\ pc[w] \in {"packet", "reserve"} => pos[w] >= 1 /\ at[w] <= Len(Packets[pos[w]]) + 1
         /\ pc[w] = "reserve" => at[w] <= Len(Packets[pos[w]])
         /\ pc[w] \notin {"packet", "reserve"} => got[w] = <<>>

\* The packets of the chosen wire and their submessages.
LEMMA WireForm ==
    ASSUME wire \in DOMAIN Wires
    PROVE  /\ Len(Packets) \in Nat /\ DOMAIN Packets = 1 .. Len(Packets)
           /\ \A n \in 1 .. Len(Packets) :
                 /\ Len(Packets[n]) \in Nat /\ DOMAIN Packets[n] = 1 .. Len(Packets[n])
                 /\ \A m \in 1 .. Len(Packets[n]) :
                       /\ Packets[n][m] \in Subs /\ Packets[n][m].id \in Ids
                       /\ Packets[n][m].kind = "frag" =>
                             /\ Packets[n][m].start \in Nat \ {0}
                             /\ Packets[n][m].count \in Nat /\ Packets[n][m].size \in Nat
<1>1. Packets \in Seq(ToSet(Packets))
  BY WireAssumption DEF Packets
<1>2. Len(Packets) \in Nat /\ DOMAIN Packets = 1 .. Len(Packets)
  BY <1>1
<1>3. ASSUME NEW n \in 1 .. Len(Packets)
      PROVE  /\ Len(Packets[n]) \in Nat /\ DOMAIN Packets[n] = 1 .. Len(Packets[n])
             /\ \A m \in 1 .. Len(Packets[n]) :
                   /\ Packets[n][m] \in Subs /\ Packets[n][m].id \in Ids
                   /\ Packets[n][m].kind = "frag" =>
                         /\ Packets[n][m].start \in Nat \ {0}
                         /\ Packets[n][m].count \in Nat /\ Packets[n][m].size \in Nat
  <2>1. n \in DOMAIN Wires[wire]
    BY <1>2 DEF Packets
  <2>2. /\ Packets[n] \in Seq(ToSet(Packets[n]))
        /\ \A m \in DOMAIN Packets[n] : Packets[n][m].kind = "frag" =>
              /\ Packets[n][m].start \in Nat \ {0}
              /\ Packets[n][m].count \in Nat /\ Packets[n][m].size \in Nat
    BY <2>1, WireAssumption DEF Packets
  <2>3. Len(Packets[n]) \in Nat /\ DOMAIN Packets[n] = 1 .. Len(Packets[n])
    BY <2>2
  <2>4. ASSUME NEW m \in 1 .. Len(Packets[n]) PROVE Packets[n][m] \in Subs
    <3>1. Packets[n][m] \in ToSet(Packets[n])
      BY <2>3 DEF ToSet
    <3>2. ToSet(Packets[n]) \subseteq Subs
      BY <2>1 DEF Subs, Packets
    <3> QED
      BY <3>1, <3>2
  <2> QED
    BY <2>2, <2>3, <2>4 DEF Ids
<1> QED
  BY <1>2, <1>3

\* The submessage a worker is at.
LEMMA SubForm ==
    ASSUME TypeInv, PlaceInv, NEW w \in Workers, pc[w] \in {"packet", "reserve"},
           at[w] <= Len(Packets[pos[w]])
    PROVE  /\ pos[w] \in 1 .. Len(Packets) /\ at[w] \in 1 .. Len(Packets[pos[w]])
           /\ Len(Packets[pos[w]]) \in Nat
           /\ Sub(w).id \in Ids
           /\ Sub(w).kind = "frag" =>
                 Sub(w).start \in Nat \ {0} /\ Sub(w).count \in Nat /\ Sub(w).size \in Nat
<1>1. wire \in DOMAIN Wires /\ at[w] \in Nat /\ pos[w] \in Nat
  BY DEF TypeInv
<1>2. pos[w] \in 0 .. Len(Packets) /\ pos[w] >= 1 /\ at[w] >= 1
  BY DEF PlaceInv
<1>3. pos[w] \in 1 .. Len(Packets)
  BY <1>1, <1>2
<1>4. Len(Packets[pos[w]]) \in Nat
  BY <1>1, <1>3, WireForm
<1>5. at[w] \in 1 .. Len(Packets[pos[w]])
  BY <1>1, <1>2, <1>4
<1> QED
  BY <1>1, <1>3, <1>4, <1>5, WireForm DEF Sub

\* The parts of a worker's flow table.
LEMMA TableForm ==
    ASSUME NEW F \in FlowTables
    PROVE  /\ DOMAIN F \subseteq Ids
           /\ \A k \in DOMAIN F : F[k] \in FlowStates
           /\ F = [k \in DOMAIN F |-> F[k]]
<1>1. PICK D \in SUBSET Ids : F \in [D -> FlowStates]
  BY DEF FlowTables
<1> QED
  BY <1>1

\* A function from identifiers to flow states is a flow table.
LEMMA IsTable ==
    ASSUME NEW D \in SUBSET Ids, NEW F \in [D -> FlowStates]
    PROVE  F \in FlowTables
BY DEF FlowTables

\* The empty flow table.
LEMMA NoTable == <<>> \in FlowTables /\ DOMAIN <<>> = {}
<1>1. DOMAIN <<>> = {} /\ <<>> \in [{} -> FlowStates]
  OBVIOUS
<1>2. {} \in SUBSET Ids
  OBVIOUS
<1> QED
  BY <1>1, <1>2, IsTable

\* The table without some flows.
LEMMA TableWithout ==
    ASSUME NEW F \in FlowTables, NEW gone
    PROVE  [k \in DOMAIN F \ gone |-> F[k]] \in FlowTables
<1>1. DOMAIN F \ gone \in SUBSET Ids
  BY TableForm
<1>2. [k \in DOMAIN F \ gone |-> F[k]] \in [DOMAIN F \ gone -> FlowStates]
  BY TableForm
<1> DEFINE D == DOMAIN F \ gone
           G == [k \in DOMAIN F \ gone |-> F[k]]
<1>3. D \in SUBSET Ids /\ G \in [D -> FlowStates]
  BY <1>1, <1>2
<1> HIDE DEF D, G
<1>4. G \in FlowTables
  BY <1>3, IsTable
<1> QED
  BY <1>4 DEF G

\* The state of a flow just opened, and a table with it.
Opened(n) == [size |-> n, ranges |-> <<>>, written |-> {}]

\* The state of a flow just opened is a flow state.
LEMMA OpenedForm ==
    ASSUME NEW n \in Nat
    PROVE  Opened(n) \in FlowStates
BY DEF Opened, FlowStates, Ranges

\* A flow table with one flow set.
LEMMA TableWith ==
    ASSUME NEW F \in FlowTables, NEW k \in Ids, NEW st \in FlowStates
    PROVE  [x \in DOMAIN F \cup {k} |-> IF x = k THEN st ELSE F[x]] \in FlowTables
<1> DEFINE G == [x \in DOMAIN F \cup {k} |-> IF x = k THEN st ELSE F[x]]
           D == DOMAIN F \cup {k}
<1>1. D \in SUBSET Ids /\ G \in [D -> FlowStates]
  BY TableForm
<1> HIDE DEF G, D
<1>2. G \in FlowTables
  BY <1>1, IsTable
<1> QED
  BY <1>2 DEF G

\* The fields of an event.
LEMMA EventForm ==
    ASSUME NEW kind \in {"data", "announce", "dispose", "garbled"}, NEW id \in Ids,
           NEW whole \in BOOLEAN
    PROVE  /\ Event(kind, id, whole) \in Events
           /\ Event(kind, id, whole).kind = kind
           /\ Event(kind, id, whole).id = id
           /\ Event(kind, id, whole).whole = whole
BY DEF Event, Events

----------------------------------------------------------------------------
(* Types are kept.                                                         *)

\* The batch of a worker that has nothing to send.
LEMMA NoEvents == <<>> \in Batches
BY DEF Batches

\* A batch with one more event is a batch.
LEMMA AddEvent ==
    ASSUME NEW b \in Batches, NEW e \in Events
    PROVE  Append(b, e) \in Batches
BY DEF Batches

\* The events of a packet join a batch.
LEMMA JoinEvents ==
    ASSUME NEW b \in Batches, NEW c \in Batches
    PROVE  b \o c \in Batches
BY DEF Batches

\* The types and the places hold at the start.
LEMMA TypeInit == Init => TypeInv /\ PlaceInv
<1> SUFFICES ASSUME Init PROVE TypeInv /\ PlaceInv
  OBVIOUS
<1>1. wire \in DOMAIN Wires
  BY DEF Init
<1>2. <<>> \in Seq(Batches) /\ <<>> \in Seq(Ids)
  OBVIOUS
<1>3. TypeInv
  BY <1>1, <1>2, NoEvents DEF Init, TypeInv
<1>4. Len(Packets) \in Nat
  BY <1>1, WireForm
<1>5. PlaceInv
  BY <1>4 DEF Init, PlaceInv
<1> QED
  BY <1>3, <1>5

\* Every step keeps the types.
LEMMA TypeStep == TypeInv /\ PlaceInv /\ [Next]_vars => TypeInv'
<1> SUFFICES ASSUME TypeInv, PlaceInv, [Next]_vars PROVE TypeInv'
  OBVIOUS
<1> USE DEF workVars, procVars, rtVars
<1>1. CASE UNCHANGED vars
  BY <1>1 DEF TypeInv, vars
<1>2. CASE Drain
  <2>1. Head(chan) \in Batches /\ Tail(chan) \in Seq(Batches)
    <3>1. chan \in Seq(Batches) /\ chan # <<>>
      BY <1>2 DEF TypeInv, Drain
    <3> QED
      BY <3>1, HeadTailProperties
  <2> QED
    BY <1>2, <2>1 DEF Drain, TypeInv
<1>3. CASE HandleRtpsEvent
  <2>1. batch \in Seq(Events) /\ batch # <<>>
    BY <1>3 DEF HandleRtpsEvent, TypeInv, Batches
  <2>2. Head(batch) \in Events /\ Tail(batch) \in Seq(Events)
    BY <2>1, HeadTailProperties
  <2>3. Head(batch).id \in Ids
    BY <2>2 DEF Events
  <2>4. batch' \in Batches
    BY <1>3, <2>2, NoEvents DEF HandleRtpsEvent, Batches
  <2>5. cache' \in Seq(Ids) /\ log' \in Seq(Ids)
    <3>1. CASE UNCHANGED <<cache, log>>
      BY <3>1 DEF TypeInv
    <3>2. CASE cache' = Remember(cache, Head(batch).id) /\ log' = Append(log, Head(batch).id)
      <4>1. log' \in Seq(Ids)
        BY <2>3, <3>2, AppendProperties DEF TypeInv
      <4>2. CASE Len(cache) >= CacheCapacity
        <5>1. cache \in Seq(Ids) /\ cache # <<>>
          BY <4>2, BoundAssumption DEF TypeInv
        <5>2. Tail(cache) \in Seq(Ids)
          BY <5>1, HeadTailProperties
        <5>3. Append(Tail(cache), Head(batch).id) \in Seq(Ids)
          BY <2>3, <5>2, AppendProperties
        <5> QED
          BY <3>2, <4>1, <4>2, <5>3 DEF Remember
      <4>3. CASE ~(Len(cache) >= CacheCapacity)
        <5>1. Append(cache, Head(batch).id) \in Seq(Ids)
          BY <2>3, AppendProperties DEF TypeInv
        <5> QED
          BY <3>2, <4>1, <4>3, <5>1 DEF Remember
      <4> QED
        BY <4>2, <4>3
    <3> QED
      BY <1>3, <3>1, <3>2 DEF HandleRtpsEvent
  <2>6. runtime' \in {"running", "stopping", "gone"}
    BY <1>3 DEF HandleRtpsEvent, TypeInv
  <2> QED
    BY <1>3, <2>4, <2>5, <2>6 DEF HandleRtpsEvent, TypeInv
<1>4. CASE CtrlC
  BY <1>4 DEF CtrlC, TypeInv
<1>5. CASE Join
  BY <1>5 DEF Join, TypeInv
<1>6. ASSUME NEW w \in Workers, Work(w) \/ Miss(w) PROVE TypeInv'
  <2>0. events[w] \in Batches /\ got[w] \in Batches /\ pos[w] \in Nat /\ at[w] \in Nat
    BY DEF TypeInv
  <2>1. CASE Miss(w)
    BY <2>0, <2>1 DEF Miss, TypeInv
  <2>2. CASE Pump(w)
    BY <2>0, <2>2 DEF Pump, TypeInv
  <2>3. CASE EndPacket(w)
    <3>1. events[w] \o got[w] \in Batches
      BY <2>0, JoinEvents
    <3> QED
      BY <2>3, <3>1, NoEvents DEF EndPacket, TypeInv
  <2>4. CASE EndBatch(w)
    BY <2>4 DEF EndBatch, TypeInv
  <2>5. CASE TrySend(w)
    <3>1. Append(chan, events[w]) \in Seq(Batches)
      BY <2>0, AppendProperties DEF TypeInv
    <3> QED
      BY <2>5, <3>1, NoEvents DEF TrySend, TypeInv
  <2>6. CASE Exit(w)
    BY <2>6, NoEvents DEF Exit, TypeInv
  <2>7. CASE ParseData(w)
    <3>1. PICK kind \in {"data", "announce", "dispose", "garbled"} :
             /\ AtSub(w, kind)
             /\ got' = [got EXCEPT ![w] = Append(@, Event(kind, Sub(w).id, TRUE))]
      BY <2>7 DEF ParseData
    <3>2. Sub(w).id \in Ids
      BY <3>1, SubForm DEF AtSub
    <3>3. Append(got[w], Event(kind, Sub(w).id, TRUE)) \in Batches
      BY <2>0, <3>2, EventForm, AddEvent
    <3>4. got' \in [Workers -> Batches]
      BY <3>1, <3>3 DEF TypeInv
    <3>5. /\ at' = [at EXCEPT ![w] = @ + 1]
          /\ UNCHANGED <<wire, pos, events, pc, chan, rtVars, runtime>>
      BY <2>7 DEF ParseData, NextSub
    <3> QED
      BY <2>0, <3>4, <3>5 DEF TypeInv
  <2>8. CASE SkipSub(w)
    BY <2>0, <2>8 DEF SkipSub, NextSub, TypeInv
  <2>9. CASE ParseError(w)
    <3>1. Len(Packets[pos[w]]) \in Nat
      BY <2>9, SubForm DEF ParseError, AtSub
    <3> QED
      BY <2>9, <3>1, NoEvents DEF ParseError, TypeInv
  <2>10. CASE SizeChanged(w)
    BY <2>0, <2>10 DEF SizeChanged, NextSub, TypeInv
  <2>11. CASE IgnoreFrag(w)
    BY <2>0, <2>11 DEF IgnoreFrag, NextSub, TypeInv
  <2>12. CASE EvictOldest(w)
    BY <2>12 DEF EvictOldest, TypeInv
  <2>13. CASE TryReserve(w)
    BY <2>0, <2>13 DEF TryReserve, NextSub, TypeInv
  <2>14. CASE WriteFrag(w)
    <3>1. Sub(w).id \in Ids
      BY <2>14, SubForm DEF WriteFrag, AtSub
    <3>2. \A b \in BOOLEAN : Append(got[w], Event("data", Sub(w).id, b)) \in Batches
      BY <2>0, <3>1, EventForm, AddEvent
    <3>3. got' \in [Workers -> Batches]
      <4>1. \/ got' = got
            \/ \E b \in BOOLEAN : got' = [got EXCEPT ![w] = Append(@, Event("data", Sub(w).id, b))]
        BY <2>14 DEF WriteFrag
      <4> QED
        BY <3>2, <4>1 DEF TypeInv
    <3>4. /\ at' = [at EXCEPT ![w] = @ + 1]
          /\ UNCHANGED <<wire, pos, events, pc, chan, rtVars, runtime>>
      BY <2>14 DEF WriteFrag, NextSub
    <3> QED
      BY <2>0, <3>3, <3>4 DEF TypeInv
  <2> QED
    BY <1>6, <2>1, <2>2, <2>3, <2>4, <2>5, <2>6, <2>7, <2>8, <2>9, <2>10, <2>11, <2>12,
       <2>13, <2>14 DEF Work
<1> QED
  BY <1>1, <1>2, <1>3, <1>4, <1>5, <1>6 DEF Next

\* A worker is at a packet of the wire, and at a submessage of it or behind
\* the last.
LEMMA PlaceStep == TypeInv /\ PlaceInv /\ [Next]_vars => PlaceInv'
<1> SUFFICES ASSUME TypeInv, PlaceInv, [Next]_vars PROVE PlaceInv'
  OBVIOUS
<1> USE DEF workVars, procVars, rtVars
<1>0. wire \in DOMAIN Wires /\ Len(Packets) \in Nat
  BY WireForm DEF TypeInv
<1>1. CASE UNCHANGED vars
  BY <1>1 DEF PlaceInv, vars, Packets
<1>2. CASE Drain
  BY <1>2 DEF PlaceInv, Drain, Packets
<1>3. CASE HandleRtpsEvent
  BY <1>3 DEF PlaceInv, HandleRtpsEvent, Packets
<1>4. CASE CtrlC
  BY <1>4 DEF PlaceInv, CtrlC, Packets
<1>5. CASE Join
  BY <1>5 DEF PlaceInv, Join, Packets
<1>6. ASSUME NEW w \in Workers, Work(w) \/ Miss(w) PROVE PlaceInv'
  \* The others stay where they are.
  <2>0. /\ wire' = wire /\ Packets' = Packets
        /\ \A v \in Workers \ {w} : /\ pos'[v] = pos[v] /\ at'[v] = at[v]
                                    /\ got'[v] = got[v] /\ pc'[v] = pc[v]
        /\ pos' \in [Workers -> Nat]
    <3>1. TypeInv'
      BY TypeStep
    <3>2. wire' = wire
      BY <1>6 DEF Work, Miss, Pump, EndPacket, EndBatch, TrySend, Exit, ParseData, SkipSub,
         ParseError, SizeChanged, IgnoreFrag, EvictOldest, TryReserve, WriteFrag
    <3>3. \A v \in Workers \ {w} : pos'[v] = pos[v]
      BY <1>6 DEF Work, Miss, Pump, EndPacket, EndBatch, TrySend, Exit, ParseData, SkipSub,
         ParseError, SizeChanged, IgnoreFrag, EvictOldest, TryReserve, WriteFrag, TypeInv
    <3>4. \A v \in Workers \ {w} : at'[v] = at[v]
      BY <1>6 DEF Work, Miss, Pump, EndPacket, EndBatch, TrySend, Exit, ParseData, SkipSub,
         ParseError, SizeChanged, IgnoreFrag, EvictOldest, TryReserve, WriteFrag, NextSub, TypeInv
    <3>5. \A v \in Workers \ {w} : pc'[v] = pc[v]
      BY <1>6 DEF Work, Miss, Pump, EndPacket, EndBatch, TrySend, Exit, ParseData, SkipSub,
         ParseError, SizeChanged, IgnoreFrag, EvictOldest, TryReserve, WriteFrag, TypeInv
    <3>6. \A v \in Workers \ {w} : got'[v] = got[v]
      BY <1>6 DEF Work, Miss, Pump, EndPacket, EndBatch, TrySend, Exit, ParseData, SkipSub,
         ParseError, SizeChanged, IgnoreFrag, EvictOldest, TryReserve, WriteFrag, TypeInv
    <3> QED
      BY <3>1, <3>2, <3>3, <3>4, <3>5, <3>6 DEF Packets, TypeInv
  <2> DEFINE Mine ==
        /\ pos'[w] \in 0 .. Len(Packets)
        /\ at'[w] >= 1
        /\ pc'[w] \in {"packet", "reserve"} =>
              pos'[w] >= 1 /\ at'[w] <= Len(Packets[pos'[w]]) + 1
        /\ pc'[w] = "reserve" => at'[w] <= Len(Packets[pos'[w]])
        /\ pc'[w] \notin {"packet", "reserve"} => got'[w] = <<>>
  <2>1. ASSUME Mine, missed' \subseteq Workers \X (1 .. Len(Packets)) PROVE PlaceInv'
    <3>1. \A v \in Workers \ {w} :
         /\ pos'[v] \in 0 .. Len(Packets)
         /\ at'[v] >= 1
         /\ pc'[v] \in {"packet", "reserve"} =>
               pos'[v] >= 1 /\ at'[v] <= Len(Packets[pos'[v]]) + 1
         /\ pc'[v] = "reserve" => at'[v] <= Len(Packets[pos'[v]])
         /\ pc'[v] \notin {"packet", "reserve"} => got'[v] = <<>>
      BY <2>0 DEF PlaceInv
    <3> QED
      BY <2>0, <2>1, <3>1 DEF PlaceInv
  <2>m. ASSUME UNCHANGED missed, Mine PROVE PlaceInv'
    <3> HIDE DEF Mine
    <3> QED
      BY <2>1, <2>m DEF PlaceInv
  <2>t. /\ pos[w] \in 0 .. Len(Packets) /\ pos[w] \in Nat /\ at[w] \in Nat /\ at[w] >= 1
        /\ pc[w] \in {"packet", "reserve"} => pos[w] >= 1 /\ at[w] <= Len(Packets[pos[w]]) + 1
        /\ pc[w] = "reserve" => at[w] <= Len(Packets[pos[w]])
        /\ pc[w] \notin {"packet", "reserve"} => got[w] = <<>>
    BY DEF PlaceInv, TypeInv
  <2>l. \A n \in 1 .. Len(Packets) : Len(Packets[n]) \in Nat
    BY <1>0, WireForm
  <2>2. CASE Miss(w)
    <3>1. pos[w] + 1 \in 1 .. Len(Packets) /\ pos'[w] = pos[w] + 1
          /\ missed' = missed \cup {<<w, pos[w] + 1>>}
          /\ pc'[w] = "pump" /\ at'[w] = at[w] /\ got'[w] = got[w] /\ pc[w] = "pump"
      BY <1>0, <2>2, <2>t DEF Miss, TypeInv
    <3>2. missed' \subseteq Workers \X (1 .. Len(Packets))
      BY <3>1 DEF PlaceInv
    <3>3. Mine
      BY <2>t, <3>1
    <3> HIDE DEF Mine
    <3> QED
      BY <2>1, <3>2, <3>3
  <2>3. CASE Pump(w)
    <3>1. pos[w] + 1 \in 1 .. Len(Packets) /\ pos'[w] = pos[w] + 1
          /\ missed' = missed /\ at'[w] = 1 /\ pc'[w] = "packet"
      BY <1>0, <2>3, <2>t DEF Pump, TypeInv
    <3>2. Mine
      BY <2>l, <3>1
    <3> QED
      BY <2>m, <3>1, <3>2
  <2>4. CASE EndPacket(w)
    <3>1. pos'[w] = pos[w] /\ at'[w] = at[w] /\ pc'[w] = "pump" /\ got'[w] = <<>>
          /\ missed' = missed
      BY <2>4 DEF EndPacket, TypeInv
    <3>2. Mine
      BY <2>t, <3>1
    <3> QED
      BY <2>m, <3>1, <3>2
  <2>5. CASE EndBatch(w) \/ TrySend(w) \/ Exit(w)
    <3>1. /\ pos'[w] = pos[w] /\ at'[w] = at[w] /\ got'[w] = got[w] /\ missed' = missed
          /\ pc[w] \in {"pump", "send"} /\ pc'[w] \in {"pump", "send", "exited"}
      BY <2>5 DEF EndBatch, TrySend, Exit, TypeInv
    <3>2. Mine
      BY <2>t, <3>1
    <3> QED
      BY <2>m, <3>1, <3>2
  \* The steps that stay in the packet.
  <2>6. CASE \/ ParseData(w) \/ SkipSub(w) \/ SizeChanged(w) \/ IgnoreFrag(w) \/ WriteFrag(w)
    <3>1. /\ pos'[w] = pos[w] /\ at'[w] = at[w] + 1 /\ missed' = missed
          /\ pc[w] = "packet" /\ pc'[w] = "packet" /\ at[w] <= Len(Packets[pos[w]])
      <4>1. at' = [at EXCEPT ![w] = @ + 1]
        BY <2>6 DEF ParseData, SkipSub, SizeChanged, IgnoreFrag, WriteFrag, NextSub
      <4>2. UNCHANGED <<pos, pc, missed>>
        BY <2>6 DEF ParseData, SkipSub, SizeChanged, IgnoreFrag, WriteFrag
      <4>3. \E kind : AtSub(w, kind)
        BY <2>6 DEF ParseData, SkipSub, SizeChanged, IgnoreFrag, WriteFrag, NewFlow
      <4> QED
        BY <4>1, <4>2, <4>3 DEF AtSub, TypeInv
    <3>2. pos[w] \in 1 .. Len(Packets) /\ Len(Packets[pos[w]]) \in Nat
      BY <2>l, <2>t, <3>1
    <3>3. Mine
      BY <2>t, <3>1, <3>2
    <3> QED
      BY <2>m, <3>1, <3>3
  <2>7. CASE ParseError(w)
    <3>1. /\ pos'[w] = pos[w] /\ at'[w] = Len(Packets[pos[w]]) + 1 /\ missed' = missed
          /\ pc[w] = "packet" /\ pc'[w] = "packet"
      BY <2>7 DEF ParseError, AtSub, TypeInv
    <3>2. pos[w] \in 1 .. Len(Packets) /\ Len(Packets[pos[w]]) \in Nat
      BY <2>l, <2>t, <3>1
    <3>3. Mine
      BY <2>t, <3>1, <3>2
    <3> QED
      BY <2>m, <3>1, <3>3
  <2>8. CASE EvictOldest(w)
    <3>1. /\ pos'[w] = pos[w] /\ at'[w] = at[w] /\ missed' = missed
          /\ pc[w] = "packet" /\ pc'[w] = "reserve" /\ at[w] <= Len(Packets[pos[w]])
      BY <2>8 DEF EvictOldest, NewFlow, AtSub, TypeInv
    <3>2. Mine
      BY <2>t, <3>1
    <3> QED
      BY <2>m, <3>1, <3>2
  <2>9. CASE TryReserve(w)
    <3>1. /\ pos'[w] = pos[w] /\ at'[w] \in {at[w], at[w] + 1} /\ missed' = missed
          /\ pc[w] = "reserve" /\ pc'[w] = "packet"
      BY <2>9 DEF TryReserve, NextSub, TypeInv
    <3>2. pos[w] \in 1 .. Len(Packets) /\ Len(Packets[pos[w]]) \in Nat
      BY <2>l, <2>t, <3>1
    <3>3. Mine
      BY <2>t, <3>1, <3>2
    <3> QED
      BY <2>m, <3>1, <3>3
  <2> HIDE DEF Mine
  <2> QED
    BY <1>6, <2>2, <2>3, <2>4, <2>5, <2>6, <2>7, <2>8, <2>9 DEF Work
<1> QED
  BY <1>1, <1>2, <1>3, <1>4, <1>5, <1>6 DEF Next

----------------------------------------------------------------------------
(* The flows of a worker.                                                  *)

\* A flow's ranges are sorted, apart, bounded, and say which bytes of the
\* sample have been written.
FlowExact(st) ==
    /\ Separated(st.ranges) /\ Len(st.ranges) <= MaxRanges
    /\ Covered(st.ranges) = st.written
    /\ st.written \subseteq 0 .. st.size - 1

\* A table within its bound, with its queue.
TableExact(F, q) ==
    /\ F \in FlowTables /\ q \in Seq(Ids)
    /\ QueueExact(q, DOMAIN F)
    /\ Cardinality(DOMAIN F) <= FlowCapacity
    /\ \A k \in DOMAIN F : FlowExact(F[k])

\* A worker's flows are finitely many, and so is the count of them.
LEMMA TableFinite ==
    ASSUME NEW F, NEW q, TableExact(F, q)
    PROVE  IsFiniteSet(DOMAIN F) /\ Cardinality(DOMAIN F) \in Nat
<1>1. IsFiniteSet(DOMAIN F)
  BY QueueFinite DEF TableExact
<1> QED
  BY <1>1, FS_CardinalityType

\* A worker starts with no flows.
LEMMA TableEmpty == TableExact(<<>>, <<>>)
<1>1. DOMAIN <<>> = {} /\ <<>> \in FlowTables
  BY NoTable
<1>2. Cardinality({}) = 0 /\ FlowCapacity \in Nat
  BY FS_EmptySet, BoundAssumption
<1>3. QueueExact(<<>>, {}) /\ <<>> \in Seq(Ids)
  BY QueueEmpty
<1> QED
  BY <1>1, <1>2, <1>3 DEF TableExact

\* remove_flow.
LEMMA TableRemove ==
    ASSUME NEW F, NEW q, TableExact(F, q), NEW key \in DOMAIN F
    PROVE  TableExact([k \in DOMAIN F \ {key} |-> F[k]], RemoveFirst(q, key))
<1> DEFINE G == [k \in DOMAIN F \ {key} |-> F[k]]
<1>1. F \in FlowTables /\ q \in Seq(Ids) /\ QueueExact(q, DOMAIN F)
  BY DEF TableExact
<1>2. G \in FlowTables
  BY <1>1, TableWithout
<1>3. DOMAIN G = DOMAIN F \ {key} /\ \A k \in DOMAIN G : G[k] = F[k] /\ k \in DOMAIN F
  OBVIOUS
<1> HIDE DEF G
<1>4. RemoveFirst(q, key) \in Seq(Ids) /\ QueueExact(RemoveFirst(q, key), DOMAIN F \ {key})
  BY <1>1, QueueRemove
<1>5. Cardinality(DOMAIN F \ {key}) <= FlowCapacity
  <2>1. IsFiniteSet(DOMAIN F) /\ Cardinality(DOMAIN F) \in Nat
    BY TableFinite
  <2>2. Cardinality(DOMAIN F \ {key}) = Cardinality(DOMAIN F) - 1
    BY <2>1, FS_RemoveElement
  <2> QED
    BY <2>1, <2>2, BoundAssumption DEF TableExact
<1>6. TableExact(G, RemoveFirst(q, key))
  BY <1>2, <1>3, <1>4, <1>5 DEF TableExact
<1> QED
  BY <1>6 DEF G

\* The oldest flow makes room.
LEMMA TableEvict ==
    ASSUME NEW F, NEW q, TableExact(F, q), ~(Cardinality(DOMAIN F) < FlowCapacity)
    PROVE  LET G == [k \in DOMAIN F \ EvictVictim(q, DOMAIN F) |-> F[k]] IN
           /\ EvictVictim(q, DOMAIN F) \subseteq DOMAIN F
           /\ TableExact(G, EvictQueue(q, DOMAIN F))
           /\ Cardinality(DOMAIN G) < FlowCapacity
<1>1. F \in FlowTables /\ q \in Seq(Ids) /\ QueueExact(q, DOMAIN F)
      /\ Cardinality(DOMAIN F) <= FlowCapacity
  BY DEF TableExact
<1>2. IsFiniteSet(DOMAIN F) /\ Cardinality(DOMAIN F) \in Nat
      /\ FlowCapacity \in Nat /\ FlowCapacity > 0
  BY TableFinite, BoundAssumption
<1>3. DOMAIN F # {}
  BY <1>2, FS_EmptySet
<1>4. PICK key \in DOMAIN F : /\ EvictVictim(q, DOMAIN F) = {key}
                              /\ EvictQueue(q, DOMAIN F) \in Seq(Ids)
                              /\ QueueExact(EvictQueue(q, DOMAIN F), DOMAIN F \ {key})
  BY <1>1, <1>3, QueueEvict
<1> DEFINE G == [k \in DOMAIN F \ {key} |-> F[k]]
<1>5. G \in FlowTables
  BY <1>1, TableWithout
<1>6. DOMAIN G = DOMAIN F \ {key} /\ \A k \in DOMAIN G : G[k] = F[k] /\ k \in DOMAIN F
  OBVIOUS
<1>7. G = [k \in DOMAIN F \ EvictVictim(q, DOMAIN F) |-> F[k]]
  BY <1>4
<1> HIDE DEF G
<1>8. Cardinality(DOMAIN F \ {key}) = Cardinality(DOMAIN F) - 1
  BY <1>2, FS_RemoveElement
<1>9. Cardinality(DOMAIN G) < FlowCapacity
  BY <1>1, <1>2, <1>6, <1>8
<1>10. TableExact(G, EvictQueue(q, DOMAIN F))
  <2>1. Cardinality(DOMAIN G) <= FlowCapacity
    BY <1>1, <1>2, <1>6, <1>8
  <2> QED
    BY <1>4, <1>5, <1>6, <2>1 DEF TableExact
<1> QED
  BY <1>4, <1>7, <1>9, <1>10

\* A flow just opened holds no bytes.
LEMMA OpenedExact ==
    ASSUME NEW n \in Nat
    PROVE  FlowExact(Opened(n))
<1>1. DOMAIN <<>> = {} /\ Len(<<>>) = 0
  OBVIOUS
<1> QED
  BY <1>1, BoundAssumption DEF Opened, FlowExact, Separated, Covered

\* try_reserve's caller adds the flow to the table and to the queue.
LEMMA TableOpen ==
    ASSUME NEW F, NEW q, TableExact(F, q), NEW key \in Ids, key \notin DOMAIN F,
           Cardinality(DOMAIN F) < FlowCapacity, NEW n \in Nat
    PROVE  TableExact([k \in DOMAIN F \cup {key} |-> IF k = key THEN Opened(n) ELSE F[k]],
                      Append(q, key))
<1> DEFINE G == [k \in DOMAIN F \cup {key} |-> IF k = key THEN Opened(n) ELSE F[k]]
<1>1. F \in FlowTables /\ q \in Seq(Ids) /\ QueueExact(q, DOMAIN F)
  BY DEF TableExact
<1>2. G \in FlowTables
  BY <1>1, OpenedForm, TableWith
<1>3. DOMAIN G = DOMAIN F \cup {key}
      /\ \A k \in DOMAIN G : (k = key /\ G[k] = Opened(n)) \/ (k \in DOMAIN F /\ G[k] = F[k])
  OBVIOUS
<1> HIDE DEF G
<1>4. Append(q, key) \in Seq(Ids) /\ QueueExact(Append(q, key), DOMAIN F \cup {key})
  BY <1>1, QueueAppend
<1>5. Cardinality(DOMAIN F \cup {key}) <= FlowCapacity
  <2>1. IsFiniteSet(DOMAIN F) /\ Cardinality(DOMAIN F) \in Nat
    BY TableFinite
  <2>2. Cardinality(DOMAIN F \cup {key}) = Cardinality(DOMAIN F) + 1
    BY <2>1, FS_AddElement
  <2> QED
    BY <2>1, <2>2, BoundAssumption
<1>6. \A k \in DOMAIN G : FlowExact(G[k])
  BY <1>3, OpenedExact DEF TableExact
<1>7. TableExact(G, Append(q, key))
  BY <1>2, <1>3, <1>4, <1>5, <1>6 DEF TableExact
<1> QED
  BY <1>7 DEF G

\* A flow is written.
LEMMA TableWrite ==
    ASSUME NEW F, NEW q, TableExact(F, q), NEW key \in DOMAIN F,
           NEW st \in FlowStates, FlowExact(st)
    PROVE  TableExact([F EXCEPT ![key] = st], q)
<1> DEFINE G == [F EXCEPT ![key] = st]
<1>1. F \in FlowTables
  BY DEF TableExact
<1>2. DOMAIN F \in SUBSET Ids /\ F = [k \in DOMAIN F |-> F[k]]
      /\ \A k \in DOMAIN F : F[k] \in FlowStates
  BY <1>1, TableForm
<1>3. DOMAIN G = DOMAIN F
      /\ \A k \in DOMAIN F : G[k] = IF k = key THEN st ELSE F[k]
  BY <1>2
<1>4. G \in [DOMAIN F -> FlowStates]
  BY <1>2
<1> HIDE DEF G
<1> DEFINE D == DOMAIN F
<1>5. D \in SUBSET Ids /\ G \in [D -> FlowStates]
  BY <1>2, <1>4
<1>6. G \in FlowTables
  <2> HIDE DEF D
  <2> QED
    BY <1>5, IsTable
<1>7. \A k \in DOMAIN G : FlowExact(G[k])
  BY <1>3 DEF TableExact
<1>8. TableExact(G, q)
  BY <1>3, <1>6, <1>7 DEF TableExact
<1> QED
  BY <1>8 DEF G

\* What a fragment makes of the state of its flow.
Written(st, from, to) ==
    [size |-> st.size,
     ranges |-> InsertRange(st.ranges, from, to),
     written |-> st.written \cup (from .. to - 1)]

\* A fragment that fits keeps its flow exact.
LEMMA WrittenExact ==
    ASSUME NEW st \in FlowStates, FlowExact(st), NEW from \in Nat, NEW to \in Nat,
           to <= st.size, RangeFits(st.ranges, from, to, MaxRanges)
    PROVE  /\ Written(st, from, to) \in FlowStates
           /\ FlowExact(Written(st, from, to))
           /\ Written(st, from, to).size = st.size
<1>1. /\ st.ranges \in Ranges /\ st.written \in SUBSET Nat /\ st.size \in Nat
      /\ Separated(st.ranges) /\ Len(st.ranges) <= MaxRanges
      /\ Covered(st.ranges) = st.written /\ st.written \subseteq 0 .. st.size - 1
  BY DEF FlowExact, FlowStates
<1> DEFINE new == InsertRange(st.ranges, from, to)
           wr  == st.written \cup (from .. to - 1)
<1>2. /\ new \in Ranges /\ Separated(new) /\ Covered(new) = wr
      /\ Len(new) <= MaxRanges
  BY <1>1, InsertRangeKeeps, BoundAssumption
<1>3. wr \in SUBSET Nat /\ wr \subseteq 0 .. st.size - 1
  <2>1. from .. to - 1 \subseteq 0 .. st.size - 1
    BY <1>1
  <2>2. from .. to - 1 \subseteq Nat
    OBVIOUS
  <2> QED
    BY <1>1, <2>1, <2>2
<1>5. Written(st, from, to) = [size |-> st.size, ranges |-> new, written |-> wr]
  BY DEF Written
<1> HIDE DEF new, wr
<1> DEFINE s2 == [size |-> st.size, ranges |-> new, written |-> wr]
<1>6. s2.size = st.size /\ s2.ranges = new /\ s2.written = wr /\ s2 \in FlowStates
  BY <1>1, <1>2, <1>3 DEF FlowStates
<1> HIDE DEF s2
<1>7. FlowExact(s2)
  BY <1>2, <1>3, <1>6 DEF FlowExact
<1> QED
  BY <1>5, <1>6, <1>7 DEF s2

\* A complete flow has been written everywhere.
LEMMA CompleteIsWhole ==
    ASSUME NEW st \in FlowStates, FlowExact(st), RangesComplete(st.ranges, st.size)
    PROVE  st.written = 0 .. st.size - 1
<1>1. /\ st.ranges \in Ranges /\ st.size \in Nat
      /\ Covered(st.ranges) = st.written /\ st.written \subseteq 0 .. st.size - 1
      /\ Len(st.ranges) = 1 /\ st.ranges[1][1] = 0 /\ st.ranges[1][2] >= st.size
  BY DEF FlowExact, FlowStates, RangesComplete
<1>2. 1 \in 1 .. Len(st.ranges) /\ st.ranges[1][2] \in Nat
  BY <1>1, RangeForm
<1>3. ASSUME NEW x \in 0 .. st.size - 1 PROVE x \in st.written
  <2>1. x \in Nat /\ st.ranges[1][1] <= x /\ x < st.ranges[1][2]
    BY <1>1, <1>2
  <2>2. x \in Covered(st.ranges)
    BY <1>1, <1>2, <2>1, CoveredIs
  <2> QED
    BY <1>1, <2>2
<1> QED
  BY <1>1, <1>3

----------------------------------------------------------------------------
(* The bytes that are reserved.                                            *)

\* The bytes of a flow, of some flows of a table, and of all workers.
FlowBytes(w, k, n) == {<<w, k>>} \X (1 .. n)
TableBytes(w, F, keys) == UNION {FlowBytes(w, k, F[k].size) : k \in keys}
AllBytes(fl) == UNION {TableBytes(w, fl[w], DOMAIN fl[w]) : w \in Workers}

\* A flow reserves as many bytes as its sample has.
LEMMA FlowBytesCount ==
    ASSUME NEW w, NEW k, NEW n \in Nat
    PROVE  IsFiniteSet(FlowBytes(w, k, n)) /\ Cardinality(FlowBytes(w, k, n)) = n
<1> DEFINE P == {<<w, k>>}
           Q == 1 .. n
<1>1. IsFiniteSet(P) /\ Cardinality(P) = 1
  BY FS_Singleton
<1>2. IsFiniteSet(Q) /\ Cardinality(Q) = IF 1 > n THEN 0 ELSE n - 1 + 1
  BY FS_Interval
<1>3. FlowBytes(w, k, n) = P \X Q
  BY DEF FlowBytes
<1> HIDE DEF P, Q
<1>4. IsFiniteSet(P \X Q) /\ Cardinality(P \X Q) = Cardinality(P) * Cardinality(Q)
  BY <1>1, <1>2, FS_Product
<1>5. Cardinality(Q) = n
  BY <1>2
<1>6. Cardinality(P) * Cardinality(Q) = n
  BY <1>1, <1>5
<1> QED
  BY <1>3, <1>4, <1>6

\* The bytes of some flows of a finite table are finitely many.
LEMMA TableBytesFinite ==
    ASSUME NEW w, NEW F \in FlowTables, NEW keys \in SUBSET DOMAIN F, IsFiniteSet(DOMAIN F)
    PROVE  IsFiniteSet(TableBytes(w, F, keys))
<1> DEFINE f == [k \in keys |-> FlowBytes(w, k, F[k].size)]
<1>1. \A k \in keys : F[k].size \in Nat
  BY TableForm DEF FlowStates
<1>2. \A k \in keys : IsFiniteSet(f[k])
  BY <1>1, FlowBytesCount
<1>3. TableBytes(w, F, keys) = UNION {f[k] : k \in keys}
  BY DEF TableBytes
<1> HIDE DEF f
<1>4. IsFiniteSet(keys)
  BY FS_Subset
<1>5. IsFiniteSet(UNION {f[k] : k \in keys})
  BY <1>2, <1>4, FiniteFamily
<1> QED
  BY <1>3, <1>5

\* The tables of all workers are finite.
Tables(fl) ==
    fl \in [Workers -> FlowTables] /\ \A w \in Workers : IsFiniteSet(DOMAIN fl[w])

\* All workers together hold finitely many bytes.
LEMMA AllBytesFinite ==
    ASSUME NEW fl, Tables(fl)
    PROVE  IsFiniteSet(AllBytes(fl)) /\ Cardinality(AllBytes(fl)) \in Nat
<1> DEFINE f == [w \in Workers |-> TableBytes(w, fl[w], DOMAIN fl[w])]
<1>1. \A w \in Workers : fl[w] \in FlowTables /\ IsFiniteSet(DOMAIN fl[w])
  BY DEF Tables
<1>2. \A w \in Workers : IsFiniteSet(f[w])
  BY <1>1, TableBytesFinite
<1>3. AllBytes(fl) = UNION {f[w] : w \in Workers}
  BY DEF AllBytes
<1> HIDE DEF f
<1>4. IsFiniteSet(UNION {f[w] : w \in Workers})
  BY <1>2, FiniteFamily, WorkersAssumption
<1> QED
  BY <1>3, <1>4, FS_CardinalityType

\* Every byte is reserved by one flow of one worker.
LEMMA TableBytesAre ==
    ASSUME NEW w, NEW F, NEW keys, NEW x
    PROVE  x \in TableBytes(w, F, keys) <=>
             \E k \in keys : \E b \in 1 .. F[k].size : x = <<<<w, k>>, b>>
<1>1. \A k \in keys : x \in FlowBytes(w, k, F[k].size) <=>
         \E b \in 1 .. F[k].size : x = <<<<w, k>>, b>>
  BY DEF FlowBytes
<1> QED
  BY <1>1 DEF TableBytes

\* The bytes of all workers, one by one.
LEMMA AllBytesAre ==
    ASSUME NEW fl, NEW x
    PROVE  x \in AllBytes(fl) <=>
             \E w \in Workers : \E k \in DOMAIN fl[w] : \E b \in 1 .. fl[w][k].size :
               x = <<<<w, k>>, b>>
<1>1. x \in AllBytes(fl) <=> \E w \in Workers : x \in TableBytes(w, fl[w], DOMAIN fl[w])
  BY DEF AllBytes
<1> QED
  BY <1>1, TableBytesAre

\* A worker's table loses some flows: exactly their bytes are given back.
LEMMA BytesReleased ==
    ASSUME NEW fl, Tables(fl), NEW w \in Workers, NEW F, NEW gone \in SUBSET DOMAIN fl[w],
           DOMAIN F = DOMAIN fl[w] \ gone,
           \A k \in DOMAIN F : F[k].size = fl[w][k].size
    PROVE  /\ AllBytes([fl EXCEPT ![w] = F]) = AllBytes(fl) \ TableBytes(w, fl[w], gone)
           /\ TableBytes(w, fl[w], gone) \subseteq AllBytes(fl)
<1> DEFINE new == [fl EXCEPT ![w] = F]
<1>1. new[w] = F /\ \A v \in Workers \ {w} : new[v] = fl[v]
  BY DEF Tables
<1> HIDE DEF new
<1>2. ASSUME NEW x \in AllBytes(new)
      PROVE  x \in AllBytes(fl) /\ x \notin TableBytes(w, fl[w], gone)
  <2>1. PICK v, k, b :
           /\ v \in Workers /\ k \in DOMAIN new[v] /\ b \in 1 .. new[v][k].size
           /\ x = <<<<v, k>>, b>>
    BY AllBytesAre
  <2>2. k \in DOMAIN fl[v] /\ new[v][k].size = fl[v][k].size /\ (v = w => k \notin gone)
    BY <1>1, <2>1
  <2>3. x \in AllBytes(fl)
    BY <2>1, <2>2, AllBytesAre
  <2>4. ASSUME x \in TableBytes(w, fl[w], gone) PROVE FALSE
    <3>1. PICK l, c : l \in gone /\ c \in 1 .. fl[w][l].size /\ x = <<<<w, l>>, c>>
      BY <2>4, TableBytesAre
    <3>2. v = w /\ k = l
      BY <2>1, <3>1
    <3> QED
      BY <2>2, <3>1, <3>2
  <2> QED
    BY <2>3, <2>4
<1>3. ASSUME NEW x \in AllBytes(fl), x \notin TableBytes(w, fl[w], gone)
      PROVE  x \in AllBytes(new)
  <2>1. PICK v, k, b :
           /\ v \in Workers /\ k \in DOMAIN fl[v] /\ b \in 1 .. fl[v][k].size
           /\ x = <<<<v, k>>, b>>
    BY AllBytesAre
  <2>2. v = w => k \notin gone
    BY <1>3, <2>1, TableBytesAre
  <2>3. k \in DOMAIN new[v] /\ new[v][k].size = fl[v][k].size
    BY <1>1, <2>1, <2>2
  <2> QED
    BY <2>1, <2>3, AllBytesAre
<1>4. TableBytes(w, fl[w], gone) \subseteq AllBytes(fl)
  <2> SUFFICES ASSUME NEW x \in TableBytes(w, fl[w], gone) PROVE x \in AllBytes(fl)
    OBVIOUS
  <2>1. PICK l, c : l \in gone /\ c \in 1 .. fl[w][l].size /\ x = <<<<w, l>>, c>>
    BY TableBytesAre
  <2> QED
    BY <2>1, AllBytesAre
<1>5. AllBytes(new) = AllBytes(fl) \ TableBytes(w, fl[w], gone)
  BY <1>2, <1>3
<1> QED
  BY <1>4, <1>5 DEF new

\* A worker's table gains a flow: exactly its bytes are taken, and they were
\* free.
LEMMA BytesReserved ==
    ASSUME NEW fl, Tables(fl), NEW w \in Workers, NEW F, NEW key, key \notin DOMAIN fl[w],
           DOMAIN F = DOMAIN fl[w] \cup {key},
           \A k \in DOMAIN fl[w] : F[k].size = fl[w][k].size
    PROVE  /\ AllBytes([fl EXCEPT ![w] = F]) = AllBytes(fl) \cup FlowBytes(w, key, F[key].size)
           /\ AllBytes(fl) \cap FlowBytes(w, key, F[key].size) = {}
<1> DEFINE new == [fl EXCEPT ![w] = F]
           mine == FlowBytes(w, key, F[key].size)
<1>1. new[w] = F /\ \A v \in Workers \ {w} : new[v] = fl[v]
  BY DEF Tables
<1>0. \A x : x \in mine <=> \E b \in 1 .. F[key].size : x = <<<<w, key>>, b>>
  BY DEF FlowBytes
<1> HIDE DEF new, mine
<1>2. ASSUME NEW x \in AllBytes(new)
      PROVE  x \in AllBytes(fl) \/ x \in mine
  <2>1. PICK v, k, b :
           /\ v \in Workers /\ k \in DOMAIN new[v] /\ b \in 1 .. new[v][k].size
           /\ x = <<<<v, k>>, b>>
    BY AllBytesAre
  <2>2. CASE v = w /\ k = key
    BY <1>0, <1>1, <2>1, <2>2
  <2>3. CASE ~(v = w /\ k = key)
    <3>1. k \in DOMAIN fl[v] /\ new[v][k].size = fl[v][k].size
      BY <1>1, <2>1, <2>3
    <3> QED
      BY <2>1, <3>1, AllBytesAre
  <2> QED
    BY <2>2, <2>3
<1>3. ASSUME NEW x \in AllBytes(fl)
      PROVE  x \in AllBytes(new) /\ x \notin mine
  <2>1. PICK v, k, b :
           /\ v \in Workers /\ k \in DOMAIN fl[v] /\ b \in 1 .. fl[v][k].size
           /\ x = <<<<v, k>>, b>>
    BY AllBytesAre
  <2>2. k \in DOMAIN new[v] /\ new[v][k].size = fl[v][k].size
    BY <1>1, <2>1
  <2>3. x \in AllBytes(new)
    BY <2>1, <2>2, AllBytesAre
  <2>4. ~(v = w /\ k = key)
    BY <2>1
  <2>5. x \notin mine
    BY <1>0, <2>1, <2>4
  <2> QED
    BY <2>3, <2>5
<1>4. ASSUME NEW x \in mine PROVE x \in AllBytes(new)
  <2>1. PICK b \in 1 .. F[key].size : x = <<<<w, key>>, b>>
    BY <1>0
  <2>2. key \in DOMAIN new[w] /\ new[w][key].size = F[key].size
    BY <1>1
  <2> QED
    BY <2>1, <2>2, AllBytesAre
<1>5. AllBytes(new) = AllBytes(fl) \cup mine /\ AllBytes(fl) \cap mine = {}
  BY <1>2, <1>3, <1>4
<1> QED
  BY <1>5 DEF new, mine

----------------------------------------------------------------------------
(* The flows of all workers and the budget they share.                     *)

\* Every worker's table is exact, and one that is about to reserve has a new
\* flow of a legal size in hand and room for it: nobody else touches its table
\* between the eviction and the reservation.
ProcInv ==
    /\ flows \in [Workers -> FlowTables] /\ order \in [Workers -> Seq(Ids)]
    /\ \A w \in Workers :
         /\ TableExact(flows[w], order[w])
         /\ pc[w] = "reserve" => /\ Sub(w).kind = "frag" /\ ~Oversized(w)
                                 /\ Sub(w).id \notin DOMAIN flows[w]
                                 /\ Cardinality(DOMAIN flows[w]) < FlowCapacity

\* The counter is what the tables hold.
BudgetInv == used = Cardinality(AllBytes(flows)) /\ used <= Budget

\* The workers' tables are finite.
LEMMA ProcTables ==
    ASSUME ProcInv
    PROVE  Tables(flows)
BY TableFinite DEF Tables, ProcInv

\* What Bytes says, of the tables as they are.
LEMMA BytesAre ==
    ASSUME NEW w, NEW keys
    PROVE  Bytes(w, keys) = TableBytes(w, flows[w], keys)
BY DEF Bytes, TableBytes, FlowBytes

\* What a step may do to a worker's table and to the counter: flows go, one
\* flow comes, or sizes stay.
Released(w, F) ==
    \E gone \in SUBSET DOMAIN flows[w] :
      /\ DOMAIN F = DOMAIN flows[w] \ gone
      /\ \A k \in DOMAIN F : F[k].size = flows[w][k].size
      /\ used' = used - Cardinality(TableBytes(w, flows[w], gone))
Reserved(w, F) ==
    \E key \in Ids \ DOMAIN flows[w] :
      /\ DOMAIN F = DOMAIN flows[w] \cup {key}
      /\ \A k \in DOMAIN flows[w] : F[k].size = flows[w][k].size
      /\ F[key].size \in Nat
      /\ used' = used + F[key].size /\ used + F[key].size <= Budget
Resized(w, F) ==
    /\ DOMAIN F = DOMAIN flows[w]
    /\ \A k \in DOMAIN F : F[k].size = flows[w][k].size
    /\ used' = used
Changed(w, F, q) ==
    /\ flows' = [flows EXCEPT ![w] = F] /\ order' = [order EXCEPT ![w] = q]
    /\ TableExact(F, q)
    /\ Released(w, F) \/ Reserved(w, F) \/ Resized(w, F)

\* remove_flow.
LEMMA RemoveFlowChanges ==
    ASSUME ProcInv, NEW w \in Workers, NEW key \in DOMAIN flows[w], RemoveFlow(w, key)
    PROVE  \E F, q : Changed(w, F, q)
<1> DEFINE F == [k \in DOMAIN flows[w] \ {key} |-> flows[w][k]]
           q == RemoveFirst(order[w], key)
<1>1. TableExact(flows[w], order[w]) /\ flows[w] \in FlowTables
  BY DEF ProcInv, TableExact
<1>2. TableExact(F, q)
  BY <1>1, TableRemove
<1>3. flows' = [flows EXCEPT ![w] = F] /\ order' = [order EXCEPT ![w] = q]
  BY DEF RemoveFlow, ProcInv
<1>4. used' = used - flows[w][key].size
  BY DEF RemoveFlow
<1>5. flows[w][key].size \in Nat
  BY <1>1, TableForm DEF FlowStates
<1>6. TableBytes(w, flows[w], {key}) = FlowBytes(w, key, flows[w][key].size)
  BY DEF TableBytes
<1>7. Cardinality(TableBytes(w, flows[w], {key})) = flows[w][key].size
  BY <1>5, <1>6, FlowBytesCount
<1>8. DOMAIN F = DOMAIN flows[w] \ {key} /\ \A k \in DOMAIN F : F[k].size = flows[w][k].size
  OBVIOUS
<1> HIDE DEF F, q
<1>9. Released(w, F)
  BY <1>4, <1>7, <1>8 DEF Released
<1> QED
  BY <1>2, <1>3, <1>9 DEF Changed

\* Where the bytes of a fragment lie.
LEMMA FragPlace ==
    ASSUME TypeInv, PlaceInv, NEW w \in Workers, AtSub(w, "frag")
    PROVE  /\ FragStart(w) \in Nat /\ FragEnd(w) \in Nat /\ FragEnd(w) <= Sub(w).size
           /\ Sub(w).size \in Nat /\ Sub(w).id \in Ids
<1>1. Sub(w).start \in Nat \ {0} /\ Sub(w).count \in Nat /\ Sub(w).size \in Nat
      /\ Sub(w).id \in Ids
  BY SubForm DEF AtSub
<1>2. FragStart(w) \in Nat
  BY <1>1 DEF FragStart
<1>3. CASE FragStart(w) + Sub(w).count <= Sub(w).size
  BY <1>1, <1>2, <1>3 DEF FragEnd
<1>4. CASE ~(FragStart(w) + Sub(w).count <= Sub(w).size)
  BY <1>1, <1>2, <1>4 DEF FragEnd
<1> QED
  BY <1>1, <1>2, <1>3, <1>4

\* accept_data_frag writes the fragment, or gives the flow up, or completes it:
\* a completed sample is one of which every byte has been written.
LEMMA WriteChanges ==
    ASSUME TypeInv, PlaceInv, ProcInv, NEW w \in Workers, WriteFrag(w)
    PROVE  /\ UNCHANGED <<flows, order, used>> \/ \E F, q : Changed(w, F, q)
           /\ got' = got \/ got' = [got EXCEPT ![w] = Append(@, Event("data", Sub(w).id, TRUE))]
<1> DEFINE key == Sub(w).id
           old == flows[w][key]
           st  == Written(old, FragStart(w), FragEnd(w))
<1>1. AtSub(w, "frag") /\ key \in DOMAIN flows[w] /\ old.size = Sub(w).size
  BY DEF WriteFrag
<1>2. \/ UNCHANGED <<flows, order, used>> /\ got' = got
      \/ RemoveFlow(w, key) /\ got' = got
      \/ /\ FragEnd(w) > FragStart(w) /\ RangeFits(old.ranges, FragStart(w), FragEnd(w), MaxRanges)
         /\ \/ /\ RangesComplete(st.ranges, st.size)
               /\ RemoveFlow(w, key)
               /\ got' = [got EXCEPT ![w] =
                            Append(@, Event("data", key, st.written = 0 .. st.size - 1))]
            \/ /\ flows' = [flows EXCEPT ![w][key] = st]
               /\ UNCHANGED <<order, used, got>>
  BY FragPlace, <1>1 DEF WriteFrag, Written, procVars
<1>3. TableExact(flows[w], order[w]) /\ flows[w] \in FlowTables
  BY DEF ProcInv, TableExact
<1>4. old \in FlowStates /\ FlowExact(old)
  BY <1>1, <1>3, TableForm DEF TableExact
<1>5. FragStart(w) \in Nat /\ FragEnd(w) \in Nat /\ FragEnd(w) <= old.size
  BY <1>1, FragPlace
<1> HIDE DEF old
<1>6. CASE RemoveFlow(w, key) /\ got' = got
  BY <1>1, <1>6, RemoveFlowChanges
<1>7. ASSUME RangeFits(old.ranges, FragStart(w), FragEnd(w), MaxRanges)
      PROVE  st \in FlowStates /\ FlowExact(st) /\ st.size = old.size
  BY <1>4, <1>5, <1>7, WrittenExact
<1> HIDE DEF st
<1>8. CASE /\ RangeFits(old.ranges, FragStart(w), FragEnd(w), MaxRanges)
           /\ RangesComplete(st.ranges, st.size)
           /\ RemoveFlow(w, key)
           /\ got' = [got EXCEPT ![w] =
                        Append(@, Event("data", key, st.written = 0 .. st.size - 1))]
  <2>1. st.written = 0 .. st.size - 1
    BY <1>7, <1>8, CompleteIsWhole
  <2>2. (st.written = 0 .. st.size - 1) = TRUE
    BY <2>1
  <2>3. \E F, q : Changed(w, F, q)
    BY <1>1, <1>8, RemoveFlowChanges
  <2>4. got' = [got EXCEPT ![w] = Append(@, Event("data", key, TRUE))]
    BY <1>8, <2>2
  <2> QED
    BY <2>3, <2>4
<1>9. CASE /\ RangeFits(old.ranges, FragStart(w), FragEnd(w), MaxRanges)
           /\ flows' = [flows EXCEPT ![w][key] = st]
           /\ UNCHANGED <<order, used, got>>
  <2> DEFINE F == [flows[w] EXCEPT ![key] = st]
  <2>1. TableExact(F, order[w])
    BY <1>1, <1>3, <1>7, <1>9, TableWrite
  <2>2. flows' = [flows EXCEPT ![w] = F] /\ order' = [order EXCEPT ![w] = order[w]]
    BY <1>9 DEF ProcInv
  <2>3. DOMAIN F = DOMAIN flows[w] /\ \A k \in DOMAIN F : F[k] = IF k = key THEN st ELSE flows[w][k]
    BY <1>1, <1>3, TableForm
  <2>4. st.size = flows[w][key].size
    BY <1>7, <1>9 DEF old
  <2> HIDE DEF F
  <2>5. Resized(w, F)
    BY <1>9, <2>3, <2>4 DEF Resized
  <2>6. Changed(w, F, order[w])
    BY <2>1, <2>2, <2>5 DEF Changed
  <2> QED
    BY <1>9, <2>6
<1> QED
  BY <1>2, <1>6, <1>8, <1>9

\* The oldest flow makes room.
LEMMA EvictChanges ==
    ASSUME ProcInv, NEW w \in Workers, EvictOldest(w)
    PROVE  \E F, q : Changed(w, F, q) /\ DOMAIN F \subseteq DOMAIN flows[w]
                     /\ Cardinality(DOMAIN F) < FlowCapacity
<1> DEFINE live == DOMAIN flows[w]
           room == Cardinality(live) < FlowCapacity
           gone == IF room THEN {} ELSE EvictVictim(order[w], live)
           q == IF room THEN order[w] ELSE EvictQueue(order[w], live)
           F == [k \in live \ gone |-> flows[w][k]]
<1>1. TableExact(flows[w], order[w]) /\ flows[w] \in FlowTables
  BY DEF ProcInv, TableExact
<1>2. flows' = [flows EXCEPT ![w] = F] /\ order' = [order EXCEPT ![w] = q]
      /\ used' = used - Cardinality(TableBytes(w, flows[w], gone))
  BY BytesAre DEF EvictOldest, ProcInv
<1>3. gone \subseteq live /\ TableExact(F, q) /\ Cardinality(DOMAIN F) < FlowCapacity
  <2>1. CASE room
    <3>1. F = flows[w]
      <4>1. live \ gone = live
        BY <2>1
      <4> QED
        BY <1>1, <4>1, TableForm
    <3> QED
      BY <1>1, <2>1, <3>1
  <2>2. CASE ~room
    <3>1. gone = EvictVictim(order[w], live) /\ q = EvictQueue(order[w], live)
      BY <2>2
    <3>2. LET G == [k \in live \ EvictVictim(order[w], live) |-> flows[w][k]] IN
          /\ EvictVictim(order[w], live) \subseteq live
          /\ TableExact(G, EvictQueue(order[w], live))
          /\ Cardinality(DOMAIN G) < FlowCapacity
      BY <1>1, <2>2, TableEvict
    <3> QED
      BY <3>1, <3>2
  <2> QED
    BY <2>1, <2>2
<1>4. DOMAIN F = DOMAIN flows[w] \ gone /\ \A k \in DOMAIN F : F[k].size = flows[w][k].size
  OBVIOUS
<1> HIDE DEF F, q, gone, room
<1>5. Released(w, F)
  BY <1>2, <1>3, <1>4 DEF Released
<1>6. Changed(w, F, q)
  BY <1>2, <1>3, <1>5 DEF Changed
<1> QED
  BY <1>3, <1>4, <1>6

\* The budget is asked, and the flow opened only when it agrees.
LEMMA ReserveChanges ==
    ASSUME TypeInv, PlaceInv, ProcInv, NEW w \in Workers, TryReserve(w)
    PROVE  UNCHANGED <<flows, order, used>> \/ \E F, q : Changed(w, F, q)
<1> DEFINE key == Sub(w).id
           n == Sub(w).size
           G == flows[w]
           F == [k \in DOMAIN G \cup {key} |-> IF k = key THEN Opened(n) ELSE G[k]]
           q == Append(order[w], key)
<1>1. TableExact(flows[w], order[w])
      /\ pc[w] = "reserve" /\ Sub(w).kind = "frag" /\ key \notin DOMAIN flows[w]
      /\ Cardinality(DOMAIN flows[w]) < FlowCapacity
  BY DEF ProcInv, TryReserve
<1>2. key \in Ids /\ n \in Nat
  BY <1>1, SubForm DEF PlaceInv
<1>3. CASE Fits(n)
  <2>1. used' = used + n /\ used + n <= Budget
    BY <1>3 DEF TryReserve, Fits
  <2>2. flows' = [flows EXCEPT ![w] = F]
    BY <1>3 DEF TryReserve, Opened, ProcInv
  <2>3. order' = [order EXCEPT ![w] = q]
    BY <1>3 DEF TryReserve
  <2>4. TableExact(F, q)
    BY <1>1, <1>2, TableOpen
  <2>5. DOMAIN F = DOMAIN flows[w] \cup {key} /\ F[key] = Opened(n)
        /\ \A k \in DOMAIN flows[w] : F[k] = flows[w][k]
    BY <1>1
  <2> HIDE DEF F
  <2>6. F[key].size = n
    BY <2>5 DEF Opened
  <2>7. Reserved(w, F)
    BY <1>1, <1>2, <2>1, <2>5, <2>6 DEF Reserved
  <2> HIDE DEF q
  <2>8. Changed(w, F, q)
    BY <2>2, <2>3, <2>4, <2>7 DEF Changed
  <2> QED
    BY <2>8
<1>4. CASE ~Fits(n)
  BY <1>4 DEF TryReserve, procVars
<1> QED
  BY <1>3, <1>4

\* Dropping the processor.
LEMMA ExitChanges ==
    ASSUME ProcInv, NEW w \in Workers, Exit(w)
    PROVE  \E F, q : Changed(w, F, q)
<1>1. flows' = [flows EXCEPT ![w] = <<>>] /\ order' = [order EXCEPT ![w] = <<>>]
      /\ used' = used - Cardinality(TableBytes(w, flows[w], DOMAIN flows[w]))
  BY BytesAre DEF Exit, Held
<1>2. DOMAIN <<>> = {}
  BY NoTable
<1>3. Released(w, <<>>)
  BY <1>1, <1>2 DEF Released
<1>4. Changed(w, <<>>, <<>>)
  BY <1>1, <1>3, TableEmpty DEF Changed
<1> QED
  BY <1>4

\* The counter follows the tables.
LEMMA BudgetFollows ==
    ASSUME ProcInv, BudgetInv, NEW w \in Workers, NEW F, NEW q, Changed(w, F, q)
    PROVE  BudgetInv'
<1>1. Tables(flows) /\ flows' = [flows EXCEPT ![w] = F]
      /\ flows[w] \in FlowTables /\ IsFiniteSet(DOMAIN flows[w])
  BY ProcTables DEF Changed, Tables
<1>2. IsFiniteSet(AllBytes(flows)) /\ Cardinality(AllBytes(flows)) \in Nat
  BY <1>1, AllBytesFinite
<1>3. used = Cardinality(AllBytes(flows)) /\ used <= Budget /\ used \in Nat /\ Budget \in Nat
  BY <1>2, BoundAssumption DEF BudgetInv
<1> DEFINE all == AllBytes(flows)
           now == AllBytes([flows EXCEPT ![w] = F])
<1> SUFFICES used' = Cardinality(now) /\ used' <= Budget
  BY <1>1 DEF BudgetInv
<1>4. CASE Released(w, F)
  <2>1. PICK gone \in SUBSET DOMAIN flows[w] :
           /\ DOMAIN F = DOMAIN flows[w] \ gone
           /\ \A k \in DOMAIN F : F[k].size = flows[w][k].size
           /\ used' = used - Cardinality(TableBytes(w, flows[w], gone))
    BY <1>4 DEF Released
  <2> DEFINE back == TableBytes(w, flows[w], gone)
  <2>2. now = all \ back /\ back \subseteq all
    BY <1>1, <2>1, BytesReleased
  <2>3. used' = used - Cardinality(back)
    BY <2>1
  <2> HIDE DEF all, now, back
  <2>4. IsFiniteSet(all) /\ used = Cardinality(all)
    BY <1>2, <1>3 DEF all
  <2>5. IsFiniteSet(back) /\ Cardinality(back) \in Nat
    BY <2>2, <2>4, FS_Subset, FS_CardinalityType
  <2>6. all \cap back = back
    BY <2>2
  <2>7. Cardinality(all \ back) = Cardinality(all) - Cardinality(all \cap back)
    BY <2>4, FS_Difference
  <2>8. Cardinality(now) = Cardinality(all) - Cardinality(back)
    BY <2>2, <2>6, <2>7
  <2> QED
    BY <1>3, <2>3, <2>4, <2>5, <2>8
<1>5. CASE Reserved(w, F)
  <2>1. PICK key \in Ids \ DOMAIN flows[w] :
           /\ DOMAIN F = DOMAIN flows[w] \cup {key}
           /\ \A k \in DOMAIN flows[w] : F[k].size = flows[w][k].size
           /\ F[key].size \in Nat
           /\ used' = used + F[key].size /\ used + F[key].size <= Budget
    BY <1>5 DEF Reserved
  <2> DEFINE mine == FlowBytes(w, key, F[key].size)
  <2>2. now = all \cup mine /\ all \cap mine = {}
    BY <1>1, <2>1, BytesReserved
  <2>3. IsFiniteSet(mine) /\ Cardinality(mine) = F[key].size
    BY <2>1, FlowBytesCount
  <2> HIDE DEF all, now, mine
  <2>4. IsFiniteSet(all) /\ used = Cardinality(all)
    BY <1>2, <1>3 DEF all
  <2>5. Cardinality(all \cup mine) = Cardinality(all) + Cardinality(mine) - Cardinality(all \cap mine)
    BY <2>3, <2>4, FS_Union
  <2>6. Cardinality(all \cap mine) = 0
    BY <2>2, FS_EmptySet
  <2>7. Cardinality(now) = used + F[key].size
    BY <1>3, <2>1, <2>2, <2>3, <2>4, <2>5, <2>6
  <2> QED
    BY <2>1, <2>7
<1>6. CASE Resized(w, F)
  <2> DEFINE none == {}
  <2>1. /\ none \in SUBSET DOMAIN flows[w]
        /\ DOMAIN F = DOMAIN flows[w] \ none
        /\ \A k \in DOMAIN F : F[k].size = flows[w][k].size
        /\ used' = used
    BY <1>6 DEF Resized
  <2>2. TableBytes(w, flows[w], none) = {}
    BY DEF TableBytes
  <2> HIDE DEF none
  <2>3. \A k \in DOMAIN F : F[k].size = flows[w][k].size
    BY <2>1
  <2> DEFINE back == TableBytes(w, flows[w], none)
  <2>4. now = all \ back /\ back \subseteq all
    BY <1>1, <2>1, <2>3, BytesReleased
  <2>5. now = all
    BY <2>2, <2>4
  <2> QED
    BY <1>3, <2>1, <2>5
<1> QED
  BY <1>4, <1>5, <1>6 DEF Changed

\* What a worker's step does to the tables.
LEMMA FlowStep ==
    ASSUME TypeInv, PlaceInv, ProcInv, NEW w \in Workers, Work(w) \/ Miss(w)
    PROVE  UNCHANGED <<flows, order, used>> \/ \E F, q : Changed(w, F, q)
<1>1. CASE Miss(w) \/ Pump(w) \/ EndPacket(w) \/ EndBatch(w) \/ TrySend(w) \/ ParseData(w)
           \/ SkipSub(w) \/ ParseError(w) \/ IgnoreFrag(w)
  BY <1>1 DEF Miss, Pump, EndPacket, EndBatch, TrySend, ParseData, SkipSub, ParseError,
     IgnoreFrag, procVars
<1>2. CASE Exit(w)
  BY <1>2, ExitChanges
<1>3. CASE SizeChanged(w)
  <2>1. Sub(w).id \in DOMAIN flows[w] /\ RemoveFlow(w, Sub(w).id)
    BY <1>3 DEF SizeChanged
  <2> QED
    BY <2>1, RemoveFlowChanges
<1>4. CASE EvictOldest(w)
  BY <1>4, EvictChanges
<1>5. CASE TryReserve(w)
  BY <1>5, ReserveChanges
<1>6. CASE WriteFrag(w)
  BY <1>6, WriteChanges
<1> QED
  BY <1>1, <1>2, <1>3, <1>4, <1>5, <1>6 DEF Work

\* A step that no worker takes leaves the tables alone.
LEMMA RuntimeKeepsFlows ==
    ASSUME [Next]_vars, ~(\E w \in Workers : Work(w) \/ Miss(w))
    PROVE  UNCHANGED <<flows, order, used, wire, pos, at, pc, got, events, missed>>
BY DEF Next, Drain, HandleRtpsEvent, CtrlC, Join, procVars, workVars, vars

\* The submessage of a worker that does not move.
LEMMA SubStays ==
    ASSUME NEW w, wire' = wire, pos'[w] = pos[w], at'[w] = at[w]
    PROVE  Sub(w)' = Sub(w) /\ Oversized(w)' = Oversized(w)
<1>1. Sub(w)' = Sub(w)
  BY DEF Sub, Packets
<1> QED
  BY <1>1 DEF Oversized

\* The workers start with empty tables.
LEMMA ProcInit == Init => ProcInv
<1> SUFFICES ASSUME Init PROVE ProcInv
  OBVIOUS
<1>1. <<>> \in FlowTables /\ <<>> \in Seq(Ids)
  BY NoTable, QueueEmpty
<1>2. TableExact(<<>>, <<>>)
  BY TableEmpty
<1> QED
  BY <1>1, <1>2 DEF Init, ProcInv

\* A worker about to reserve has just evicted, and nobody else touches its
\* table or its packet.
LEMMA ProcStep == TypeInv /\ PlaceInv /\ ProcInv /\ [Next]_vars => ProcInv'
<1> SUFFICES ASSUME TypeInv, PlaceInv, ProcInv, [Next]_vars PROVE ProcInv'
  OBVIOUS
<1>1. CASE ~(\E w \in Workers : Work(w) \/ Miss(w))
  <2>1. UNCHANGED <<flows, order, wire, pos, at, pc>>
    BY <1>1, RuntimeKeepsFlows
  <2>2. \A w \in Workers : Sub(w)' = Sub(w) /\ Oversized(w)' = Oversized(w)
    BY <2>1, SubStays
  <2> QED
    BY <2>1, <2>2 DEF ProcInv
<1>2. ASSUME NEW w \in Workers, Work(w) \/ Miss(w) PROVE ProcInv'
  <2> DEFINE Ready(v) == /\ Sub(v).kind = "frag" /\ ~Oversized(v)
                         /\ Sub(v).id \notin DOMAIN flows[v]
                         /\ Cardinality(DOMAIN flows[v]) < FlowCapacity
  <2>1. /\ flows' \in [Workers -> FlowTables] /\ order' \in [Workers -> Seq(Ids)]
        /\ \A v \in Workers : TableExact(flows'[v], order'[v])
        /\ \A v \in Workers \ {w} : flows'[v] = flows[v]
    <3>1. CASE UNCHANGED <<flows, order, used>>
      BY <3>1 DEF ProcInv
    <3>2. CASE \E F, q : Changed(w, F, q)
      <4>1. PICK F, q : Changed(w, F, q)
        BY <3>2
      <4>2. /\ flows' = [flows EXCEPT ![w] = F] /\ order' = [order EXCEPT ![w] = q]
            /\ TableExact(F, q) /\ F \in FlowTables /\ q \in Seq(Ids)
        BY <4>1 DEF Changed, TableExact
      <4>3. flows \in [Workers -> FlowTables] /\ order \in [Workers -> Seq(Ids)]
            /\ \A v \in Workers : TableExact(flows[v], order[v])
        BY DEF ProcInv
      <4> QED
        BY <4>2, <4>3
    <3> QED
      BY <1>2, <3>1, <3>2, FlowStep
  <2>2. /\ wire' = wire
        /\ \A v \in Workers \ {w} : pos'[v] = pos[v] /\ at'[v] = at[v] /\ pc'[v] = pc[v]
    BY <1>2 DEF Work, Miss, Pump, EndPacket, EndBatch, TrySend, Exit, ParseData, SkipSub,
       ParseError, SizeChanged, IgnoreFrag, EvictOldest, TryReserve, WriteFrag, NextSub,
       TypeInv, workVars, procVars
  <2>3. ASSUME NEW v \in Workers \ {w}, pc'[v] = "reserve"
        PROVE  /\ Sub(v)'.kind = "frag" /\ ~Oversized(v)'
               /\ Sub(v)'.id \notin DOMAIN flows'[v]
               /\ Cardinality(DOMAIN flows'[v]) < FlowCapacity
    <3>1. Sub(v)' = Sub(v) /\ Oversized(v)' = Oversized(v)
      BY <2>2, SubStays
    <3>2. pc[v] = "reserve" /\ flows'[v] = flows[v]
      BY <2>1, <2>2, <2>3
    <3> QED
      BY <3>1, <3>2 DEF ProcInv
  <2>4. ASSUME pc'[w] = "reserve"
        PROVE  /\ Sub(w)'.kind = "frag" /\ ~Oversized(w)'
               /\ Sub(w)'.id \notin DOMAIN flows'[w]
               /\ Cardinality(DOMAIN flows'[w]) < FlowCapacity
    <3>1. pc[w] = "reserve" => Miss(w) \/ TryReserve(w)
      BY <1>2 DEF Work, Pump, EndPacket, EndBatch, TrySend, Exit, ParseData, SkipSub,
         ParseError, SizeChanged, IgnoreFrag, EvictOldest, WriteFrag, NewFlow, AtSub
    <3>2. EvictOldest(w)
      BY <1>2, <2>4 DEF Work, Miss, Pump, EndPacket, EndBatch, TrySend, Exit, ParseData,
         SkipSub, ParseError, SizeChanged, IgnoreFrag, TryReserve, WriteFrag, TypeInv,
         workVars, procVars, AtSub, NewFlow
    <3>3. wire' = wire /\ pos'[w] = pos[w] /\ at'[w] = at[w]
      BY <3>2 DEF EvictOldest
    <3>4. Sub(w)' = Sub(w) /\ Oversized(w)' = Oversized(w)
      BY <3>3, SubStays
    <3>5. Sub(w).kind = "frag" /\ Sub(w).id \notin DOMAIN flows[w] /\ ~Oversized(w)
      BY <3>2 DEF EvictOldest, NewFlow, AtSub
    <3>6. PICK F, q : Changed(w, F, q) /\ DOMAIN F \subseteq DOMAIN flows[w]
                      /\ Cardinality(DOMAIN F) < FlowCapacity
      BY <3>2, EvictChanges
    <3>7. flows'[w] = F
      BY <3>6 DEF Changed, ProcInv
    <3> QED
      BY <3>4, <3>5, <3>6, <3>7
  <2> QED
    BY <2>1, <2>3, <2>4 DEF ProcInv
<1> QED
  BY <1>1, <1>2

\* Nothing is reserved at the start.
LEMMA BudgetInit == Init => BudgetInv
<1> SUFFICES ASSUME Init PROVE BudgetInv
  OBVIOUS
<1>1. \A w \in Workers : flows[w] = <<>> /\ DOMAIN <<>> = {}
  BY NoTable DEF Init
<1>2. \A x : x \notin AllBytes(flows)
  BY <1>1, AllBytesAre
<1>3. AllBytes(flows) = {}
  BY <1>2
<1>4. used = 0 /\ Budget \in Nat /\ Cardinality({}) = 0
  BY FS_EmptySet, BoundAssumption DEF Init
<1>5. 0 <= Budget
  BY <1>4
<1> QED
  BY <1>3, <1>4, <1>5 DEF BudgetInv

\* The shared counter stays exact across every step of every worker.
LEMMA BudgetStep == TypeInv /\ PlaceInv /\ ProcInv /\ BudgetInv /\ [Next]_vars => BudgetInv'
<1> SUFFICES ASSUME TypeInv, PlaceInv, ProcInv, BudgetInv, [Next]_vars PROVE BudgetInv'
  OBVIOUS
<1>0. ASSUME UNCHANGED <<flows, used>> PROVE BudgetInv'
  BY <1>0 DEF BudgetInv
<1>1. CASE ~(\E w \in Workers : Work(w) \/ Miss(w))
  BY <1>0, <1>1, RuntimeKeepsFlows
<1>2. ASSUME NEW w \in Workers, Work(w) \/ Miss(w) PROVE BudgetInv'
  <2>1. UNCHANGED <<flows, order, used>> \/ \E F, q : Changed(w, F, q)
    BY <1>2, FlowStep
  <2>2. ASSUME NEW F, NEW q, Changed(w, F, q) PROVE BudgetInv'
    BY <2>2, BudgetFollows
  <2> QED
    BY <1>0, <2>1, <2>2
<1> QED
  BY <1>1, <1>2

\* The channel and the cache stay within their capacities.
BoundInv == Len(chan) <= ChannelCapacity /\ Len(cache) <= CacheCapacity

\* The channel and the cache start empty.
LEMMA BoundInit == Init => BoundInv
<1>1. Len(<<>>) = 0
  OBVIOUS
<1> QED
  BY <1>1, BoundAssumption DEF Init, BoundInv

\* The cache after a sample has been remembered.
LEMMA RememberIs ==
    ASSUME NEW seen \in Seq(Ids), NEW id \in Ids, Len(seen) <= CacheCapacity
    PROVE  /\ Remember(seen, id) \in Seq(Ids)
           /\ Len(Remember(seen, id)) =
                IF Len(seen) >= CacheCapacity THEN CacheCapacity ELSE Len(seen) + 1
           /\ Remember(seen, id)[Len(Remember(seen, id))] = id
           /\ \A i \in 1 .. Len(Remember(seen, id)) - 1 : Remember(seen, id)[i] =
                IF Len(seen) >= CacheCapacity THEN seen[i + 1] ELSE seen[i]
<1> DEFINE rest == IF Len(seen) >= CacheCapacity THEN Tail(seen) ELSE seen
<1>0. CacheCapacity \in Nat \ {0} /\ Len(seen) \in Nat
  BY BoundAssumption
<1>1. /\ rest \in Seq(Ids)
      /\ Len(rest) = IF Len(seen) >= CacheCapacity THEN CacheCapacity - 1 ELSE Len(seen)
      /\ \A i \in 1 .. Len(rest) : rest[i] =
           IF Len(seen) >= CacheCapacity THEN seen[i + 1] ELSE seen[i]
  <2>1. CASE Len(seen) >= CacheCapacity
    <3>1. seen # <<>> /\ rest = Tail(seen)
      BY <1>0, <2>1
    <3>2. /\ Tail(seen) \in Seq(Ids) /\ Len(Tail(seen)) = Len(seen) - 1
          /\ \A i \in 1 .. Len(Tail(seen)) : Tail(seen)[i] = seen[i + 1]
      BY <3>1, HeadTailProperties
    <3>3. Len(seen) = CacheCapacity
      BY <1>0, <2>1
    <3> QED
      BY <2>1, <3>1, <3>2, <3>3
  <2>2. CASE ~(Len(seen) >= CacheCapacity)
    BY <2>2
  <2> QED
    BY <2>1, <2>2
<1>2. Remember(seen, id) = Append(rest, id)
  BY DEF Remember
<1> HIDE DEF rest
<1>3. /\ Append(rest, id) \in Seq(Ids) /\ Len(Append(rest, id)) = Len(rest) + 1
      /\ \A i \in 1 .. Len(rest) : Append(rest, id)[i] = rest[i]
      /\ Append(rest, id)[Len(rest) + 1] = id
  BY <1>1, AppendProperties
<1>4. Len(Append(rest, id)) = IF Len(seen) >= CacheCapacity THEN CacheCapacity ELSE Len(seen) + 1
  <2>1. CASE Len(seen) >= CacheCapacity
    BY <1>0, <1>1, <1>3, <2>1
  <2>2. CASE ~(Len(seen) >= CacheCapacity)
    BY <1>0, <1>1, <1>3, <2>2
  <2> QED
    BY <2>1, <2>2
<1>5. Len(rest) \in Nat /\ Len(Append(rest, id)) - 1 = Len(rest)
  BY <1>1, <1>3
<1> QED
  BY <1>1, <1>2, <1>3, <1>4, <1>5

\* try_send waits for room in the channel; the cache forgets its oldest sample.
LEMMA BoundStep == TypeInv /\ BoundInv /\ [Next]_vars => BoundInv'
<1> SUFFICES ASSUME TypeInv, BoundInv, [Next]_vars PROVE BoundInv'
  OBVIOUS
<1>0. chan \in Seq(Batches) /\ cache \in Seq(Ids) /\ ChannelCapacity \in Nat /\ CacheCapacity \in Nat
      /\ Len(chan) \in Nat
  BY BoundAssumption DEF TypeInv
<1>1. Len(chan') <= ChannelCapacity
  <2>1. CASE Drain
    <3>1. chan # <<>> /\ chan' = Tail(chan)
      BY <2>1 DEF Drain
    <3>2. Len(Tail(chan)) = Len(chan) - 1
      BY <1>0, <3>1, HeadTailProperties
    <3> QED
      BY <1>0, <3>1, <3>2 DEF BoundInv
  <2>2. ASSUME NEW w \in Workers, TrySend(w) PROVE Len(chan') <= ChannelCapacity
    <3>1. chan' = Append(chan, events[w]) /\ Len(chan) < ChannelCapacity /\ events[w] \in Batches
      BY <2>2 DEF TrySend, TypeInv
    <3>2. Len(Append(chan, events[w])) = Len(chan) + 1
      BY <1>0, <3>1, AppendProperties
    <3> QED
      BY <1>0, <3>1, <3>2
  <2>3. CASE ~Drain /\ \A w \in Workers : ~TrySend(w)
    <3>1. chan' = chan
      BY <2>3 DEF Next, HandleRtpsEvent, CtrlC, Join, Work, Miss, Pump, EndPacket, EndBatch,
         Exit, ParseData, SkipSub, ParseError, SizeChanged, IgnoreFrag, EvictOldest,
         TryReserve, WriteFrag, vars
    <3> QED
      BY <3>1 DEF BoundInv
  <2> QED
    BY <2>1, <2>2, <2>3
<1>2. Len(cache') <= CacheCapacity
  <2>1. CASE HandleRtpsEvent
    <3>1. batch \in Seq(Events) /\ batch # <<>>
      BY <2>1 DEF HandleRtpsEvent, TypeInv, Batches
    <3>h. Head(batch) \in Events
      BY <3>1, HeadTailProperties
    <3>2. Head(batch).id \in Ids
      BY <3>h DEF Events
    <3>3. cache' = cache \/ cache' = Remember(cache, Head(batch).id)
      BY <2>1 DEF HandleRtpsEvent
    <3>4. Len(Remember(cache, Head(batch).id)) <= CacheCapacity
      <4> DEFINE n == Len(Remember(cache, Head(batch).id))
      <4>1. n = IF Len(cache) >= CacheCapacity THEN CacheCapacity ELSE Len(cache) + 1
        BY <1>0, <3>2, RememberIs DEF BoundInv
      <4> HIDE DEF n
      <4>2. Len(cache) \in Nat
        BY <1>0
      <4>3. n <= CacheCapacity
        BY <1>0, <4>1, <4>2
      <4> QED
        BY <4>3 DEF n
    <3> QED
      BY <3>3, <3>4 DEF BoundInv
  <2>2. CASE ~HandleRtpsEvent
    <3>1. cache' = cache
      BY <2>2 DEF Next, Drain, CtrlC, Join, Work, Miss, Pump, EndPacket, EndBatch, TrySend,
         Exit, ParseData, SkipSub, ParseError, SizeChanged, IgnoreFrag, EvictOldest,
         TryReserve, WriteFrag, vars, rtVars
    <3> QED
      BY <3>1 DEF BoundInv
  <2> QED
    BY <2>1, <2>2
<1> QED
  BY <1>1, <1>2 DEF BoundInv

\* What the properties need, and what is inductive.
FlowInv == TypeInv /\ PlaceInv /\ ProcInv /\ BudgetInv /\ BoundInv

\* The inductive invariant is kept by every step.
LEMMA FlowInvStep == FlowInv /\ [Next]_vars => FlowInv'
BY TypeStep, PlaceStep, ProcStep, BudgetStep, BoundStep DEF FlowInv

\* The inductive invariant of the flows holds always.
LEMMA FlowInvHolds == Spec => []FlowInv
<1>1. Init => FlowInv
  BY TypeInit, ProcInit, BudgetInit, BoundInit DEF FlowInv
<1> QED
  BY <1>1, FlowInvStep, PTL DEF Spec

\* The shared counter is exactly the memory of the open flows of all workers,
\* each worker's queue names its flows once, and each flow's ranges say what has
\* been written, whatever the steps of the workers in between.
THEOREM BudgetAndFlowsExact == Spec => []FlowsExact
<1>1. FlowInv => FlowsExact
  <2> SUFFICES ASSUME FlowInv PROVE FlowsExact
    OBVIOUS
  <2>1. wire \in DOMAIN Wires /\ Len(Packets) \in Nat
    BY WireForm DEF FlowInv, TypeInv
  <2>2. pos \in [Workers -> 0 .. Len(Packets)]
    BY DEF FlowInv, TypeInv, PlaceInv
  <2>3. TypeOK
    BY <2>1, <2>2 DEF TypeOK, FlowInv, TypeInv, PlaceInv, BoundInv, ProcInv, TableExact
  <2>4. BudgetExact
    <3>1. UNION {Held(w) : w \in Workers} = AllBytes(flows)
      BY DEF Held, Bytes, AllBytes, TableBytes, FlowBytes
    <3> QED
      BY <3>1 DEF BudgetExact, FlowInv, BudgetInv
  <2>5. OrderExact
    BY DEF OrderExact, FlowInv, ProcInv, TableExact
  <2>6. RangesExact
    BY DEF RangesExact, FlowInv, ProcInv, TableExact, FlowExact
  <2> QED
    BY <2>3, <2>4, <2>5, <2>6 DEF FlowsExact
<1> QED
  BY <1>1, FlowInvHolds, PTL

----------------------------------------------------------------------------
(* Whole samples, each applied once.                                       *)

\* Events on their way to the runtime: none of an incomplete sample.
WholeEvents == {e \in Events : e.whole = TRUE}
WholeInv ==
    /\ got \in [Workers -> Seq(WholeEvents)]
    /\ events \in [Workers -> Seq(WholeEvents)]
    /\ chan \in Seq(Seq(WholeEvents))
    /\ batch \in Seq(WholeEvents)

\* Events stay whole on their way from the submessage to the runtime.
LEMMA WholeStep == TypeInv /\ PlaceInv /\ ProcInv /\ WholeInv /\ [Next]_vars => WholeInv'
<1> SUFFICES ASSUME TypeInv, PlaceInv, ProcInv, WholeInv, [Next]_vars PROVE WholeInv'
  OBVIOUS
<1> DEFINE B == Seq(WholeEvents)
<1>e. <<>> \in B
  OBVIOUS
<1>a. \A b \in B, e \in WholeEvents : Append(b, e) \in B
  BY AppendProperties
<1>j. \A b, c \in B : b \o c \in B
  BY ConcatProperties
<1>w. ASSUME NEW kind \in {"data", "announce", "dispose", "garbled"}, NEW id \in Ids
      PROVE  Event(kind, id, TRUE) \in WholeEvents
  BY EventForm DEF WholeEvents
<1>i. got \in [Workers -> B] /\ events \in [Workers -> B] /\ chan \in Seq(B) /\ batch \in B
  BY DEF WholeInv
<1>t. batch # <<>> => Tail(batch) \in B
  BY HeadTailProperties DEF WholeInv
<1> SUFFICES got' \in [Workers -> B] /\ events' \in [Workers -> B] /\ chan' \in Seq(B)
             /\ batch' \in B
  BY DEF WholeInv
<1> HIDE DEF B
<1> USE DEF workVars, procVars, rtVars
<1>1. CASE UNCHANGED vars
  BY <1>1, <1>i DEF vars
<1>2. CASE Drain
  <2>1. Head(chan) \in B /\ Tail(chan) \in Seq(B)
    <3>1. chan \in Seq(B) /\ chan # <<>>
      BY <1>2, <1>i DEF Drain
    <3> QED
      BY <3>1, HeadTailProperties
  <2> QED
    BY <1>2, <1>i, <2>1 DEF Drain
<1>3. CASE HandleRtpsEvent
  BY <1>3, <1>e, <1>i, <1>t DEF HandleRtpsEvent
<1>4. CASE CtrlC
  BY <1>4, <1>i DEF CtrlC
<1>5. CASE Join
  BY <1>5, <1>i DEF Join
<1>6. ASSUME NEW w \in Workers, Work(w) \/ Miss(w)
      PROVE  got' \in [Workers -> B] /\ events' \in [Workers -> B] /\ chan' \in Seq(B)
             /\ batch' \in B
  <2>1. CASE \/ Miss(w) \/ Pump(w) \/ EndBatch(w) \/ SkipSub(w) \/ SizeChanged(w)
             \/ IgnoreFrag(w) \/ EvictOldest(w) \/ TryReserve(w)
    BY <2>1, <1>i DEF Miss, Pump, EndBatch, SkipSub, SizeChanged, IgnoreFrag, EvictOldest,
       TryReserve
  <2>2. CASE EndPacket(w)
    <3>1. events[w] \o got[w] \in B
      BY <1>i, <1>j
    <3> QED
      BY <1>e, <1>i, <2>2, <3>1 DEF EndPacket
  <2>3. CASE TrySend(w)
    <3>1. Append(chan, events[w]) \in Seq(B)
      BY <1>i, AppendProperties
    <3> QED
      BY <1>e, <1>i, <2>3, <3>1 DEF TrySend
  <2>4. CASE Exit(w)
    BY <1>e, <1>i, <2>4 DEF Exit
  <2>5. CASE ParseData(w)
    <3>1. PICK kind \in {"data", "announce", "dispose", "garbled"} :
             /\ AtSub(w, kind)
             /\ got' = [got EXCEPT ![w] = Append(@, Event(kind, Sub(w).id, TRUE))]
      BY <2>5 DEF ParseData
    <3>2. Sub(w).id \in Ids
      BY <3>1, SubForm DEF AtSub
    <3>3. Append(got[w], Event(kind, Sub(w).id, TRUE)) \in B
      BY <1>a, <1>i, <1>w, <3>2
    <3>4. UNCHANGED <<events, chan, batch>>
      BY <2>5 DEF ParseData
    <3> QED
      BY <1>i, <3>1, <3>3, <3>4
  <2>6. CASE ParseError(w)
    BY <1>e, <1>i, <2>6 DEF ParseError
  <2>7. CASE WriteFrag(w)
    <3>1. Sub(w).id \in Ids
      BY <2>7, SubForm DEF WriteFrag, AtSub
    <3>2. Append(got[w], Event("data", Sub(w).id, TRUE)) \in B
      BY <1>a, <1>i, <1>w, <3>1
    <3>3. got' = got \/ got' = [got EXCEPT ![w] = Append(@, Event("data", Sub(w).id, TRUE))]
      BY <2>7, WriteChanges
    <3>4. UNCHANGED <<events, chan, batch>>
      BY <2>7 DEF WriteFrag
    <3> QED
      BY <1>i, <3>2, <3>3, <3>4
  <2> QED
    BY <1>6, <2>1, <2>2, <2>3, <2>4, <2>5, <2>6, <2>7 DEF Work
<1> QED
  BY <1>1, <1>2, <1>3, <1>4, <1>5, <1>6 DEF Next

\* The cache is the end of the log, as much of it as fits, and no sample is in
\* it twice.
CacheInv ==
    /\ Len(cache) = IF Len(log) <= CacheCapacity THEN Len(log) ELSE CacheCapacity
    /\ \A i \in 1 .. Len(cache) : cache[i] = log[(Len(log) - Len(cache)) + i]
    /\ \A i, j \in 1 .. Len(cache) : cache[i] = cache[j] => i = j

\* What a cache of so many samples, all different, has seen.
LEMMA SeenCount ==
    ASSUME NEW q \in Seq(Ids), \A i, j \in 1 .. Len(q) : q[i] = q[j] => i = j
    PROVE  IsFiniteSet(ToSet(q)) /\ Cardinality(ToSet(q)) = Len(q)
<1> DEFINE I == 1 .. Len(q)
           T == ToSet(q)
<1>1. Len(q) \in Nat /\ DOMAIN q = I /\ q \in [I -> T]
  BY DEF ToSet
<1>2. \A t \in T : \E i \in I : q[i] = t
  BY <1>1 DEF ToSet
<1>d. \A i, j \in I : q[i] = q[j] => i = j
  OBVIOUS
<1>3. q \in Surjection(I, T) /\ q \in Injection(I, T)
  <2> HIDE DEF I, T
  <2>1. q \in Surjection(I, T)
    BY <1>1, <1>2 DEF Surjection
  <2>2. q \in Injection(I, T)
    BY <1>1, <1>d DEF Injection, IsInjective
  <2> QED
    BY <2>1, <2>2
<1>4. IsFiniteSet(I) /\ Cardinality(I) = Len(q)
  <2>1. IsFiniteSet(I) /\ Cardinality(I) = IF 1 > Len(q) THEN 0 ELSE Len(q) - 1 + 1
    BY <1>1, FS_Interval
  <2> HIDE DEF I
  <2> QED
    BY <1>1, <2>1
<1> HIDE DEF I, T
<1>5. IsFiniteSet(T) /\ (Cardinality(T) = Cardinality(I) <=> q \in Injection(I, T))
  BY <1>3, <1>4, FS_Surjection
<1> QED
  BY <1>3, <1>4, <1>5 DEF T

\* A stretch of the log holds finitely many samples.
LEMMA StretchFinite ==
    ASSUME NEW q \in Seq(Ids), NEW a \in Nat, NEW b \in Nat
    PROVE  IsFiniteSet({q[x] : x \in a .. b})
<1> DEFINE I == a .. b
           T == {q[x] : x \in I}
           f == [x \in I |-> q[x]]
<1>1. f \in Surjection(I, T)
  BY DEF Surjection
<1>2. IsFiniteSet(I)
  BY FS_Interval
<1> HIDE DEF I, T, f
<1>3. IsFiniteSet(T)
  BY <1>1, <1>2, FS_Surjection
<1> QED
  BY <1>3 DEF T, I

\* The log grows only by samples the cache does not hold, and what a full cache
\* has forgotten lies that many samples back.
LEMMA CacheStep == TypeInv /\ BoundInv /\ CacheInv /\ AppliedOnce /\ [Next]_vars
                      => CacheInv' /\ AppliedOnce'
<1> SUFFICES ASSUME TypeInv, BoundInv, CacheInv, AppliedOnce, [Next]_vars
             PROVE  CacheInv' /\ AppliedOnce'
  OBVIOUS
<1>1. ASSUME UNCHANGED <<cache, log>> PROVE CacheInv' /\ AppliedOnce'
  BY <1>1 DEF CacheInv, AppliedOnce
<1>2. CASE HandleRtpsEvent /\ Head(batch).kind = "data" /\ Head(batch).id \notin ToSet(cache)
  <2> DEFINE id == Head(batch).id
             C == Remember(cache, id)
             L == Append(log, id)
             n == Len(log)
             c == Len(cache)
  <2>1. cache' = C /\ log' = L
    BY <1>2 DEF HandleRtpsEvent
  <2>2. id \in Ids /\ id \notin ToSet(cache)
    <3>1. batch \in Seq(Events) /\ batch # <<>>
      BY <1>2 DEF HandleRtpsEvent, TypeInv, Batches
    <3>2. Head(batch) \in Events
      BY <3>1, HeadTailProperties
    <3> QED
      BY <1>2, <3>2 DEF Events
  <2>3. cache \in Seq(Ids) /\ log \in Seq(Ids) /\ c \in Nat /\ n \in Nat /\ CacheCapacity \in Nat \ {0}
        /\ c <= CacheCapacity
    BY BoundAssumption DEF TypeInv, BoundInv
  <2>4. /\ C \in Seq(Ids) /\ Len(C) = IF c >= CacheCapacity THEN CacheCapacity ELSE c + 1
        /\ C[Len(C)] = id
        /\ \A i \in 1 .. Len(C) - 1 : C[i] = IF c >= CacheCapacity THEN cache[i + 1] ELSE cache[i]
    BY <2>2, <2>3, RememberIs
  <2>5. L \in Seq(Ids) /\ Len(L) = n + 1 /\ L[n + 1] = id /\ \A i \in 1 .. n : L[i] = log[i]
    BY <2>2, <2>3, AppendProperties
  <2> HIDE DEF id, C, L
  <2>6. c = IF n <= CacheCapacity THEN n ELSE CacheCapacity
    BY DEF CacheInv
  <2>7. \A i \in 1 .. c : cache[i] = log[(n - c) + i] /\ cache[i] # id
    <3>1. \A i \in 1 .. c : cache[i] \in ToSet(cache)
      BY <2>3 DEF ToSet
    <3> QED
      BY <2>2, <3>1 DEF CacheInv
  <2>8. \A i, j \in 1 .. c : cache[i] = cache[j] => i = j
    BY DEF CacheInv
  <2> HIDE DEF n, c
  <2>9. CacheInv'
    <3> DEFINE d == Len(C)
    <3>1. d \in Nat /\ d >= 1 /\ d <= CacheCapacity
          /\ (c >= CacheCapacity => d = c) /\ (~(c >= CacheCapacity) => d = c + 1)
      <4>1. d = IF c >= CacheCapacity THEN CacheCapacity ELSE c + 1
        BY <2>4
      <4> HIDE DEF d
      <4>2. CASE c >= CacheCapacity
        BY <2>3, <4>1, <4>2
      <4>3. CASE ~(c >= CacheCapacity)
        BY <2>3, <4>1, <4>3
      <4> QED
        BY <4>2, <4>3
    <3> HIDE DEF d
    <3>2. d = IF n + 1 <= CacheCapacity THEN n + 1 ELSE CacheCapacity
      <4>1. CASE c >= CacheCapacity
        <5>1. n >= CacheCapacity
          BY <2>3, <2>6, <4>1
        <5> QED
          BY <2>3, <3>1, <4>1, <5>1
      <4>2. CASE ~(c >= CacheCapacity)
        <5>1. c = n
          BY <2>3, <2>6, <4>2
        <5> QED
          BY <2>3, <3>1, <4>2, <5>1
      <4> QED
        BY <4>1, <4>2
    <3>3. ASSUME NEW i \in 1 .. d - 1
          PROVE  \E k \in 1 .. c : /\ C[i] = cache[k] /\ C[i] = L[((n + 1) - d) + i]
                                   /\ C[i] # id /\ k = i + (c + 1) - d
      <4>1. CASE c >= CacheCapacity
        <5>1. i + 1 \in 1 .. c /\ ((n + 1) - d) + i = (n - c) + (i + 1)
              /\ (n - c) + (i + 1) \in 1 .. n /\ i + 1 = i + (c + 1) - d
          <6>1. n >= c
            BY <2>3, <2>6
          <6> QED
            BY <2>3, <3>1, <4>1, <6>1
        <5>2. C[i] = cache[i + 1]
          BY <2>4, <4>1 DEF d
        <5> QED
          BY <2>5, <2>7, <5>1, <5>2
      <4>2. CASE ~(c >= CacheCapacity)
        <5>1. i \in 1 .. c /\ ((n + 1) - d) + i = (n - c) + i
              /\ (n - c) + i \in 1 .. n /\ i = i + (c + 1) - d
          <6>1. n = c
            BY <2>3, <2>6, <4>2
          <6> QED
            BY <2>3, <3>1, <4>2, <6>1
        <5>2. C[i] = cache[i]
          BY <2>4, <4>2 DEF d
        <5> QED
          BY <2>5, <2>7, <5>1, <5>2
      <4> QED
        BY <4>1, <4>2
    <3>4. C[d] = id /\ L[((n + 1) - d) + d] = id
      <4>1. ((n + 1) - d) + d = n + 1
        BY <2>3, <3>1
      <4> QED
        BY <2>4, <2>5, <4>1 DEF d
    <3>5. \A i \in 1 .. d : i \in 1 .. d - 1 \/ i = d
      BY <3>1
    <3>6. \A i \in 1 .. d : C[i] = L[((n + 1) - d) + i]
      BY <3>3, <3>4, <3>5
    <3>7. ASSUME NEW i \in 1 .. d, NEW j \in 1 .. d, C[i] = C[j] PROVE i = j
      <4>1. CASE i = d /\ j = d
        BY <4>1
      <4>2. CASE i = d /\ j \in 1 .. d - 1
        BY <3>3, <3>4, <3>7, <4>2
      <4>3. CASE i \in 1 .. d - 1 /\ j = d
        BY <3>3, <3>4, <3>7, <4>3
      <4>4. CASE i \in 1 .. d - 1 /\ j \in 1 .. d - 1
        <5>1. PICK k \in 1 .. c : C[i] = cache[k] /\ k = i + (c + 1) - d
          BY <3>3, <4>4
        <5>2. PICK l \in 1 .. c : C[j] = cache[l] /\ l = j + (c + 1) - d
          BY <3>3, <4>4
        <5>3. k = l
          BY <2>8, <3>7, <5>1, <5>2
        <5> QED
          BY <2>3, <3>1, <5>1, <5>2, <5>3
      <4> QED
        BY <3>5, <4>1, <4>2, <4>3, <4>4
    <3>8. Len(log') = n + 1 /\ Len(cache') = d
      BY <2>1, <2>5 DEF d
    <3> QED
      BY <2>1, <3>2, <3>6, <3>7, <3>8 DEF CacheInv
  <2>10. ASSUME NEW a \in 1 .. n + 1, NEW b \in 1 .. n + 1, a < b, L[a] = L[b]
         PROVE  Cardinality({L[x] : x \in a + 1 .. b - 1}) >= CacheCapacity
    <3>1. CASE b <= n
      <4>1. {L[x] : x \in a + 1 .. b - 1} = {log[x] : x \in a + 1 .. b - 1}
        <5>1. \A x \in a + 1 .. b - 1 : x \in 1 .. n
          BY <2>3, <3>1
        <5> QED
          BY <2>5, <5>1
      <4>2. a \in 1 .. n /\ b \in 1 .. n
        BY <2>3, <2>10, <3>1
      <4>3. log[a] = log[b] /\ a \in DOMAIN log /\ b \in DOMAIN log
        BY <2>3, <2>5, <2>10, <4>2 DEF n
      <4> QED
        BY <2>10, <4>1, <4>3 DEF AppliedOnce
    <3>2. CASE b = n + 1
      <4>1. a \in 1 .. n /\ log[a] = id
        BY <2>3, <2>5, <2>10, <3>2
      <4>2. a <= n - c
        <5>1. ASSUME a > n - c PROVE FALSE
          <6>1. a - (n - c) \in 1 .. c /\ (n - c) + (a - (n - c)) = a
            BY <2>3, <4>1, <5>1
          <6> QED
            BY <2>7, <4>1, <6>1
        <5> QED
          BY <2>3, <4>1, <5>1
      <4>3. c = CacheCapacity
        BY <2>3, <2>6, <4>1, <4>2
      <4> DEFINE between == {L[x] : x \in a + 1 .. b - 1}
      <4>4. ToSet(cache) \subseteq between
        <5> SUFFICES ASSUME NEW y \in ToSet(cache) PROVE y \in between
          OBVIOUS
        <5>1. PICK i \in 1 .. c : y = cache[i]
          BY <2>3 DEF ToSet, c
        <5>2. (n - c) + i \in a + 1 .. b - 1 /\ (n - c) + i \in 1 .. n
          BY <2>3, <3>2, <4>1, <4>2, <5>1
        <5>3. y = L[(n - c) + i]
          BY <2>5, <2>7, <5>1, <5>2
        <5> QED
          BY <5>2, <5>3
      <4>5. IsFiniteSet(between)
        <5>1. a + 1 \in Nat /\ b - 1 \in Nat
          BY <2>3, <3>2, <4>1
        <5> QED
          BY <2>5, <5>1, StretchFinite
      <4>6. IsFiniteSet(ToSet(cache)) /\ Cardinality(ToSet(cache)) = c
        BY <2>3, <2>8, SeenCount DEF c
      <4> HIDE DEF between
      <4> DEFINE seen == ToSet(cache)
      <4>7. seen \in SUBSET between /\ Cardinality(seen) = c
        BY <4>4, <4>6
      <4> HIDE DEF seen
      <4>8. Cardinality(seen) <= Cardinality(between)
        BY <4>5, <4>7, FS_Subset
      <4>9. Cardinality(between) \in Nat
        BY <4>5, FS_CardinalityType
      <4>10. Cardinality(between) >= CacheCapacity
        BY <2>3, <4>3, <4>7, <4>8, <4>9
      <4> QED
        BY <4>10 DEF between
    <3> QED
      BY <2>3, <3>1, <3>2
  <2>11. DOMAIN L = 1 .. n + 1
    BY <2>5
  <2>12. AppliedOnce'
    BY <2>1, <2>10, <2>11 DEF AppliedOnce
  <2> QED
    BY <2>9, <2>12
<1>3. CASE HandleRtpsEvent /\ ~(Head(batch).kind = "data" /\ Head(batch).id \notin ToSet(cache))
  <2>1. UNCHANGED <<cache, log>>
    BY <1>3 DEF HandleRtpsEvent
  <2> QED
    BY <1>1, <2>1
<1>4. CASE ~HandleRtpsEvent
  <2>1. UNCHANGED <<cache, log>>
    BY <1>4 DEF Next, Drain, CtrlC, Join, Work, Miss, Pump, EndPacket, EndBatch, TrySend,
       Exit, ParseData, SkipSub, ParseError, SizeChanged, IgnoreFrag, EvictOldest,
       TryReserve, WriteFrag, vars, rtVars
  <2> QED
    BY <1>1, <2>1
<1> QED
  BY <1>2, <1>3, <1>4

\* What the second theorem rests on.
SampleInv == FlowInv /\ WholeInv /\ CacheInv /\ AppliedOnce

\* Only whole samples reach the runtime, and it applies each of them once, unless
\* CacheCapacity others came between.
THEOREM OnlyWholeSamplesOnce == Spec => []SamplesRight
<1>1. Init => SampleInv
  <2> SUFFICES ASSUME Init PROVE SampleInv
    OBVIOUS
  <2>1. FlowInv
    BY TypeInit, ProcInit, BudgetInit, BoundInit DEF FlowInv
  <2>2. <<>> \in Seq(WholeEvents) /\ <<>> \in Seq(Seq(WholeEvents)) /\ Len(<<>>) = 0
        /\ DOMAIN <<>> = {}
    OBVIOUS
  <2>3. WholeInv
    BY <2>2 DEF Init, WholeInv
  <2>4. CacheInv
    <3>1. 1 .. 0 = {} /\ CacheCapacity \in Nat
      BY BoundAssumption
    <3>2. cache = <<>> /\ log = <<>>
      BY DEF Init
    <3>3. 0 <= CacheCapacity
      BY <3>1
    <3> QED
      BY <2>2, <3>1, <3>2, <3>3 DEF CacheInv
  <2>5. AppliedOnce
    BY <2>2 DEF Init, AppliedOnce
  <2> QED
    BY <2>1, <2>3, <2>4, <2>5 DEF SampleInv
<1>2. SampleInv /\ [Next]_vars => SampleInv'
  BY FlowInvStep, WholeStep, CacheStep DEF SampleInv, FlowInv
<1>3. SampleInv => SamplesRight
  <2> SUFFICES ASSUME SampleInv PROVE SamplesWhole
    BY DEF SampleInv, SamplesRight
  <2>1. got \in [Workers -> Seq(WholeEvents)] /\ events \in [Workers -> Seq(WholeEvents)]
        /\ chan \in Seq(Seq(WholeEvents)) /\ batch \in Seq(WholeEvents)
    BY DEF SampleInv, WholeInv
  <2>2. \A b \in ToSet(chan) : b \in Seq(WholeEvents)
    BY <2>1 DEF ToSet
  <2>3. \A b \in Seq(WholeEvents) : \A n \in DOMAIN b : b[n].whole = TRUE
    <3> TAKE b \in Seq(WholeEvents)
    <3> TAKE n \in DOMAIN b
    <3>1. b[n] \in WholeEvents
      OBVIOUS
    <3> QED
      BY <3>1 DEF WholeEvents
  <2> DEFINE all == {got[w] : w \in Workers} \cup {events[w] : w \in Workers}
                     \cup ToSet(chan) \cup {batch}
  <2>4. \A b \in all : b \in Seq(WholeEvents)
    BY <2>1, <2>2
  <2> HIDE DEF all
  <2>5. \A b \in all : \A n \in DOMAIN b : b[n].whole
    BY <2>3, <2>4
  <2> QED
    BY <2>5 DEF SamplesWhole, all
<1> QED
  BY <1>1, <1>2, <1>3, PTL DEF Spec

----------------------------------------------------------------------------
(* The last word on a participant.                                         *)

\* Submessage m of packet l is the last word, of kind k, that the readable
\* packets have on p.
WordAt(p, l, m, k) ==
    /\ l \in 1 .. Len(Packets) /\ m \in 1 .. Len(Packets[l])
    /\ Speaks(Packets[l][m], p) /\ Packets[l][m].kind = k
    /\ \A j \in m + 1 .. Len(Packets[l]) : ~Speaks(Packets[l][j], p)
    /\ \A j \in 1 .. Len(Packets[l]) : Packets[l][j].kind # "bad"
    /\ \A n \in l + 1 .. Len(Packets) :
         \/ \E j \in 1 .. Len(Packets[n]) : Packets[n][j].kind = "bad"
         \/ \A j \in 1 .. Len(Packets[n]) : ~Speaks(Packets[n][j], p)

\* A batch that does not speak of p, and one whose last word on p is k.
Silent(b, p) == \A i \in 1 .. Len(b) : ~Speaks(b[i], p)
EndsIn(b, p, k) ==
    \E i \in 1 .. Len(b) : /\ Speaks(b[i], p) /\ b[i].kind = k
                           /\ \A j \in i + 1 .. Len(b) : ~Speaks(b[j], p)

\* The events of the current packet come from the submessages before the one
\* the worker is at; once a packet has failed they are gone.
From(packet, n, b) ==
    /\ \/ \A j \in 1 .. n - 1 : packet[j].kind # "bad"
       \/ n = Len(packet) + 1 /\ b = <<>>
    /\ \A i \in 1 .. Len(b) : b[i].kind \in {"announce", "dispose"} =>
         \E j \in 1 .. n - 1 : packet[j].kind = b[i].kind /\ packet[j].id = b[i].id
GotInv ==
    \A w \in Workers :
      pc[w] \in {"packet", "reserve"} => From(Packets[pos[w]], at[w], got[w])

\* A worker has not come to the last word yet, carries it in the events it has
\* not sent, or has sent it and has nothing more to say.
InLast(w, l) == pos[w] = l /\ pc[w] \in {"packet", "reserve"}
Ahead(w, l, m) == pos[w] < l \/ (InLast(w, l) /\ at[w] <= m)
Carries(w, p, l, m, k) ==
    \/ InLast(w, l) /\ at[w] > m /\ EndsIn(got[w], p, k)
    \/ pos[w] >= l /\ ~InLast(w, l) /\ EndsIn(events[w], p, k)
Quietly(w, p, l) == pos[w] >= l /\ ~InLast(w, l) /\ Silent(events[w], p)

\* What the runtime has not yet applied ends in that word, or is silent and the
\* table holds it.
Right(p, k) == p \in alive <=> k = "announce"
Settled(p, k) ==
    \/ \E c \in 1 .. Len(chan) : /\ EndsIn(chan[c], p, k)
                                 /\ \A d \in c + 1 .. Len(chan) : Silent(chan[d], p)
    \/ /\ \A d \in 1 .. Len(chan) : Silent(chan[d], p)
       /\ EndsIn(batch, p, k) \/ (Silent(batch, p) /\ Right(p, k))

WordKept(p, l, m, k) ==
    \/ \E w \in Workers : <<w, l>> \in missed
    \/ /\ \A w \in Workers : Ahead(w, l, m) \/ Carries(w, p, l, m, k) \/ Quietly(w, p, l)
       /\ \/ \E w \in Workers : Ahead(w, l, m) \/ Carries(w, p, l, m, k)
          \/ Settled(p, k)
ConvInv ==
    runtime = "running" => \A p, l, m, k : WordAt(p, l, m, k) => WordKept(p, l, m, k)

\* Batches and the words in them.
LEMMA NoWords ==
    ASSUME NEW p, NEW k
    PROVE  Silent(<<>>, p) /\ ~EndsIn(<<>>, p, k)
<1>1. Len(<<>>) = 0 /\ 1 .. 0 = {}
  OBVIOUS
<1> QED
  BY <1>1 DEF Silent, EndsIn

\* An event at the end of a batch: it is the last word, or changes nothing.
LEMMA AddWord ==
    ASSUME NEW b \in Batches, NEW e \in Events, NEW p, NEW k
    PROVE  /\ Speaks(e, p) /\ e.kind = k => EndsIn(Append(b, e), p, k)
           /\ ~Speaks(e, p) /\ Silent(b, p) => Silent(Append(b, e), p)
           /\ ~Speaks(e, p) /\ EndsIn(b, p, k) => EndsIn(Append(b, e), p, k)
<1> DEFINE c == Append(b, e)
           n == Len(b)
<1>1. n \in Nat /\ Len(c) = n + 1 /\ c[n + 1] = e /\ \A i \in 1 .. n : c[i] = b[i]
  BY AppendProperties DEF Batches
<1> HIDE DEF c
<1>2. \A i \in 1 .. Len(c) : i \in 1 .. n \/ i = n + 1
  BY <1>1
<1>3. ASSUME Speaks(e, p), e.kind = k PROVE EndsIn(c, p, k)
  <2>1. n + 1 \in 1 .. Len(c) /\ (n + 1) + 1 .. Len(c) = {}
    BY <1>1
  <2> QED
    BY <1>1, <1>3, <2>1 DEF EndsIn
<1>4. ASSUME ~Speaks(e, p), Silent(b, p) PROVE Silent(c, p)
  BY <1>1, <1>2, <1>4 DEF Silent
<1>5. ASSUME ~Speaks(e, p), EndsIn(b, p, k) PROVE EndsIn(c, p, k)
  <2>1. PICK i \in 1 .. n : /\ Speaks(b[i], p) /\ b[i].kind = k
                            /\ \A j \in i + 1 .. n : ~Speaks(b[j], p)
    BY <1>5 DEF EndsIn
  <2>2. i \in 1 .. Len(c) /\ c[i] = b[i]
    BY <1>1
  <2>3. ASSUME NEW j \in i + 1 .. Len(c) PROVE ~Speaks(c[j], p)
    <3>1. j \in i + 1 .. n \/ j = n + 1
      BY <1>1
    <3>2. j \in i + 1 .. n => c[j] = b[j]
      BY <1>1
    <3> QED
      BY <1>1, <1>5, <2>1, <3>1, <3>2
  <2> QED
    BY <2>1, <2>2, <2>3 DEF EndsIn
<1> QED
  BY <1>3, <1>4, <1>5 DEF c

\* The events of a packet behind those of earlier ones.
LEMMA JoinWords ==
    ASSUME NEW b \in Batches, NEW c \in Batches, NEW p, NEW k
    PROVE  /\ Silent(b, p) /\ Silent(c, p) => Silent(b \o c, p)
           /\ EndsIn(b, p, k) /\ Silent(c, p) => EndsIn(b \o c, p, k)
           /\ EndsIn(c, p, k) => EndsIn(b \o c, p, k)
<1> DEFINE d == b \o c
           n == Len(b)
<1>1. /\ n \in Nat /\ Len(c) \in Nat /\ Len(d) = n + Len(c)
      /\ \A i \in 1 .. n + Len(c) : d[i] = IF i <= n THEN b[i] ELSE c[i - n]
  BY ConcatProperties DEF Batches
<1> HIDE DEF d, n
<1>2. \A i \in 1 .. n : i \in 1 .. Len(d) /\ d[i] = b[i]
  BY <1>1
<1>3. \A i \in 1 .. Len(c) : n + i \in 1 .. Len(d) /\ d[n + i] = c[i]
  <2> TAKE i \in 1 .. Len(c)
  <2>1. n + i \in 1 .. n + Len(c) /\ ~(n + i <= n) /\ (n + i) - n = i
    BY <1>1
  <2> QED
    BY <1>1, <2>1
<1>4. \A j \in 1 .. Len(d) : j \in 1 .. n \/ (j > n /\ j - n \in 1 .. Len(c) /\ d[j] = c[j - n])
  <2> TAKE j \in 1 .. Len(d)
  <2>1. j \in Nat /\ j \in 1 .. n + Len(c)
    BY <1>1
  <2>2. j \in 1 .. n \/ (j > n /\ j - n \in 1 .. Len(c) /\ ~(j <= n))
    BY <1>1, <2>1
  <2> QED
    BY <1>1, <2>1, <2>2
<1>5. ASSUME Silent(b, p), Silent(c, p) PROVE Silent(d, p)
  <2> SUFFICES ASSUME NEW j \in 1 .. Len(d) PROVE ~Speaks(d[j], p)
    BY DEF Silent
  <2> QED
    BY <1>2, <1>4, <1>5 DEF Silent, n
<1>6. ASSUME EndsIn(b, p, k), Silent(c, p) PROVE EndsIn(d, p, k)
  <2>1. PICK i \in 1 .. n : /\ Speaks(b[i], p) /\ b[i].kind = k
                            /\ \A j \in i + 1 .. n : ~Speaks(b[j], p)
    BY <1>6 DEF EndsIn, n
  <2>2. ASSUME NEW j \in i + 1 .. Len(d) PROVE ~Speaks(d[j], p)
    <3>1. j \in 1 .. Len(d) /\ j \in Nat /\ (j \in 1 .. n => j \in i + 1 .. n)
      BY <1>1
    <3> QED
      BY <1>2, <1>4, <1>6, <2>1, <3>1 DEF Silent
  <2> QED
    BY <1>2, <2>1, <2>2 DEF EndsIn
<1>7. ASSUME EndsIn(c, p, k) PROVE EndsIn(d, p, k)
  <2>1. PICK i \in 1 .. Len(c) : /\ Speaks(c[i], p) /\ c[i].kind = k
                                 /\ \A j \in i + 1 .. Len(c) : ~Speaks(c[j], p)
    BY <1>7 DEF EndsIn
  <2>2. ASSUME NEW j \in (n + i) + 1 .. Len(d) PROVE ~Speaks(d[j], p)
    <3>1. j \in 1 .. Len(d) /\ j - n \in i + 1 .. Len(c) /\ j \notin 1 .. n
      BY <1>1
    <3> QED
      BY <1>4, <2>1, <3>1
  <2>3. n + i \in 1 .. Len(d) /\ d[n + i] = c[i]
    BY <1>3
  <2> QED
    BY <2>1, <2>2, <2>3 DEF EndsIn
<1> QED
  BY <1>5, <1>6, <1>7 DEF d

\* A batch whose first event has been applied.
LEMMA TailWords ==
    ASSUME NEW b \in Batches, b # <<>>, NEW p, NEW k
    PROVE  /\ Silent(b, p) => Silent(Tail(b), p) /\ ~Speaks(Head(b), p)
           /\ EndsIn(b, p, k) => \/ EndsIn(Tail(b), p, k)
                                 \/ Silent(Tail(b), p) /\ Speaks(Head(b), p) /\ Head(b).kind = k
<1> DEFINE t == Tail(b)
           n == Len(b)
<1>1. n \in Nat /\ n >= 1 /\ Len(t) = n - 1 /\ Head(b) = b[1]
      /\ \A i \in 1 .. Len(t) : t[i] = b[i + 1]
  <2>1. b \in Seq(Events)
    BY DEF Batches
  <2>2. Len(t) = n - 1 /\ \A i \in 1 .. Len(t) : t[i] = b[i + 1]
    BY <2>1, HeadTailProperties
  <2>3. n \in Nat /\ n >= 1 /\ Head(b) = b[1]
    BY <2>1
  <2> QED
    BY <2>2, <2>3
<1> HIDE DEF t, n
<1>2. ASSUME Silent(b, p) PROVE Silent(t, p) /\ ~Speaks(b[1], p)
  <2>1. 1 \in 1 .. n /\ \A i \in 1 .. Len(t) : i + 1 \in 1 .. n
    BY <1>1
  <2> QED
    BY <1>1, <1>2, <2>1 DEF Silent, n
<1>3. ASSUME EndsIn(b, p, k)
      PROVE  EndsIn(t, p, k) \/ (Silent(t, p) /\ Speaks(b[1], p) /\ b[1].kind = k)
  <2>1. PICK i \in 1 .. n : /\ Speaks(b[i], p) /\ b[i].kind = k
                            /\ \A j \in i + 1 .. n : ~Speaks(b[j], p)
    BY <1>3 DEF EndsIn, n
  <2>2. CASE i = 1
    <3>1. \A j \in 1 .. Len(t) : j + 1 \in i + 1 .. n
      BY <1>1, <2>2
    <3> QED
      BY <1>1, <2>1, <2>2, <3>1 DEF Silent
  <2>3. CASE i > 1
    <3>1. i - 1 \in 1 .. Len(t) /\ (i - 1) + 1 = i
      BY <1>1, <2>3
    <3>2. \A j \in (i - 1) + 1 .. Len(t) : j \in 1 .. Len(t) /\ j + 1 \in i + 1 .. n
      BY <1>1, <2>3
    <3>3. EndsIn(t, p, k)
      BY <1>1, <2>1, <3>1, <3>2 DEF EndsIn
    <3> QED
      BY <3>3
  <2> QED
    BY <1>1, <2>2, <2>3
<1> QED
  BY <1>1, <1>2, <1>3 DEF t

\* A step of a worker within its packet: it passes a submessage, or adds the
\* event of one, or finds it unreadable.
InPacketStep(w) ==
    \/ ParseData(w) \/ SkipSub(w) \/ ParseError(w) \/ SizeChanged(w) \/ IgnoreFrag(w)
    \/ EvictOldest(w) \/ TryReserve(w) \/ WriteFrag(w)

Passes(w) ==
    /\ at'[w] \in {at[w], at[w] + 1} /\ got'[w] = got[w]
    /\ Sub(w).kind \notin {"announce", "dispose", "bad"}
Adds(w) ==
    /\ at'[w] = at[w] + 1 /\ Sub(w).kind # "bad"
    /\ \E e \in Events : /\ got'[w] = Append(got[w], e)
                         /\ {e.kind, Sub(w).kind} \cap {"announce", "dispose"} # {} =>
                              e.kind = Sub(w).kind /\ e.id = Sub(w).id
Fails(w) ==
    /\ at'[w] = Len(Packets[pos[w]]) + 1 /\ got'[w] = <<>>
    /\ Sub(w).kind = "bad"

\* The event of a submessage whose payload is complete.
LEMMA WholeEventForm ==
    ASSUME NEW kind \in {"data", "announce", "dispose", "garbled"}, NEW id \in Ids
    PROVE  /\ Event(kind, id, TRUE) \in Events
           /\ Event(kind, id, TRUE).kind = kind /\ Event(kind, id, TRUE).id = id
BY DEF Event, Events

\* Every step within a packet passes, adds or fails.
LEMMA SubStep ==
    ASSUME TypeInv, PlaceInv, ProcInv, NEW w \in Workers, InPacketStep(w)
    PROVE  /\ pc[w] \in {"packet", "reserve"} /\ at[w] <= Len(Packets[pos[w]])
           /\ pc'[w] \in {"packet", "reserve"} /\ pos'[w] = pos[w] /\ events' = events
           /\ UNCHANGED <<chan, missed, batch, alive, runtime, wire>>
           /\ Passes(w) \/ Adds(w) \/ Fails(w)
<1> USE DEF procVars, rtVars
<1>0. at \in [Workers -> Nat] /\ got \in [Workers -> Batches]
      /\ pc \in [Workers -> {"pump", "packet", "reserve", "send", "exited"}]
  BY DEF TypeInv
<1>1. UNCHANGED <<pos, events, chan, missed, batch, alive, runtime, wire>>
  BY DEF InPacketStep, ParseData, SkipSub, ParseError, SizeChanged, IgnoreFrag, EvictOldest,
     TryReserve, WriteFrag
<1>2. pc[w] \in {"packet", "reserve"} /\ at[w] <= Len(Packets[pos[w]])
  BY DEF InPacketStep, ParseData, SkipSub, ParseError, SizeChanged, IgnoreFrag, EvictOldest,
     TryReserve, WriteFrag, AtSub, NewFlow, PlaceInv
<1>3. pc'[w] \in {"packet", "reserve"}
  BY <1>0, <1>2 DEF InPacketStep, ParseData, SkipSub, ParseError, SizeChanged, IgnoreFrag,
     EvictOldest, TryReserve, WriteFrag, AtSub, NewFlow
<1>4. Sub(w).id \in Ids
  BY <1>2, SubForm
<1>5. CASE ParseData(w)
  <2>1. PICK kind \in {"data", "announce", "dispose", "garbled"} :
           /\ AtSub(w, kind)
           /\ got' = [got EXCEPT ![w] = Append(@, Event(kind, Sub(w).id, TRUE))]
    BY <1>5 DEF ParseData
  <2>2. at'[w] = at[w] + 1
    BY <1>0, <1>5 DEF ParseData, NextSub
  <2>d. PICK d \in Ids : d = Sub(w).id
    BY <1>4
  <2> DEFINE e == Event(kind, d, TRUE)
  <2>m. kind \in {"data", "announce", "dispose", "garbled"}
    BY <2>1
  <2>3. e \in Events /\ e.kind = kind /\ e.id = Sub(w).id
    <3>1. e \in Events /\ e.kind = kind /\ e.id = d
      BY <2>d, <2>m DEF Event, Events
    <3> QED
      BY <2>d, <3>1
  <2>4. got'[w] = Append(got[w], e)
    BY <1>0, <2>1, <2>d
  <2>5. Sub(w).kind = kind /\ kind # "bad"
    BY <2>1 DEF AtSub
  <2> HIDE DEF e
  <2>6. Adds(w)
    BY <2>2, <2>3, <2>4, <2>5 DEF Adds
  <2> QED
    BY <1>1, <1>2, <1>3, <2>6
<1>6. CASE SkipSub(w)
  <2>1. Passes(w)
    BY <1>0, <1>6 DEF SkipSub, NextSub, AtSub, Passes
  <2> QED
    BY <1>1, <1>2, <1>3, <2>1
<1>7. CASE ParseError(w)
  <2>1. Fails(w)
    BY <1>0, <1>7 DEF ParseError, AtSub, Fails
  <2> QED
    BY <1>1, <1>2, <1>3, <2>1
<1>8. CASE SizeChanged(w) \/ IgnoreFrag(w) \/ EvictOldest(w) \/ TryReserve(w)
  <2>1. Sub(w).kind = "frag"
    BY <1>8 DEF SizeChanged, IgnoreFrag, EvictOldest, TryReserve, NewFlow, AtSub, ProcInv
  <2>2. at'[w] \in {at[w], at[w] + 1} /\ got' = got
    BY <1>0, <1>8 DEF SizeChanged, IgnoreFrag, EvictOldest, TryReserve, NextSub
  <2>3. Passes(w)
    BY <2>1, <2>2 DEF Passes
  <2> QED
    BY <1>1, <1>2, <1>3, <2>3
<1>9. CASE WriteFrag(w)
  <2>1. Sub(w).kind = "frag" /\ at'[w] = at[w] + 1
    BY <1>0, <1>9 DEF WriteFrag, AtSub, NextSub
  <2>2. got' = got \/ got' = [got EXCEPT ![w] = Append(@, Event("data", Sub(w).id, TRUE))]
    BY <1>9, WriteChanges
  <2>3. CASE got' = got
    <3>1. Passes(w)
      BY <2>1, <2>3 DEF Passes
    <3> QED
      BY <1>1, <1>2, <1>3, <3>1
  <2>4. CASE got' = [got EXCEPT ![w] = Append(@, Event("data", Sub(w).id, TRUE))]
    <3> DEFINE e == Event("data", Sub(w).id, TRUE)
    <3>1. e \in Events /\ e.kind = "data"
      BY <1>4, WholeEventForm
    <3>2. got'[w] = Append(got[w], e)
      BY <1>0, <2>4
    <3> HIDE DEF e
    <3>3. Adds(w)
      BY <2>1, <3>1, <3>2 DEF Adds
    <3> QED
      BY <1>1, <1>2, <1>3, <3>3
  <2> QED
    BY <2>2, <2>3, <2>4
<1> QED
  BY <1>5, <1>6, <1>7, <1>8, <1>9 DEF InPacketStep

\* The events of a packet come from its readable beginning.
LEMMA GotStep == TypeInv /\ PlaceInv /\ ProcInv /\ GotInv /\ [Next]_vars => GotInv'
<1> SUFFICES ASSUME TypeInv, PlaceInv, ProcInv, GotInv, [Next]_vars PROVE GotInv'
  OBVIOUS
<1>1. CASE ~(\E w \in Workers : Work(w) \/ Miss(w))
  <2>1. UNCHANGED <<wire, pos, at, pc, got>>
    BY <1>1, RuntimeKeepsFlows, Zenon DEF Next, Drain, HandleRtpsEvent, CtrlC, Join, workVars, vars
  <2> QED
    BY <2>1 DEF GotInv, Packets
<1>2. ASSUME NEW w \in Workers, Work(w) \/ Miss(w) PROVE GotInv'
  <2>1. /\ Packets' = Packets
        /\ \A v \in Workers \ {w} : /\ pos'[v] = pos[v] /\ at'[v] = at[v]
                                    /\ got'[v] = got[v] /\ pc'[v] = pc[v]
    <3>1. wire' = wire
      BY <1>2 DEF Work, Miss, Pump, EndPacket, EndBatch, TrySend, Exit, ParseData, SkipSub,
         ParseError, SizeChanged, IgnoreFrag, EvictOldest, TryReserve, WriteFrag
    <3>2. \A v \in Workers \ {w} : pos'[v] = pos[v] /\ at'[v] = at[v] /\ pc'[v] = pc[v]
      BY <1>2 DEF Work, Miss, Pump, EndPacket, EndBatch, TrySend, Exit, ParseData, SkipSub,
         ParseError, SizeChanged, IgnoreFrag, EvictOldest, TryReserve, WriteFrag, NextSub,
         TypeInv, workVars, procVars
    <3>3. \A v \in Workers \ {w} : got'[v] = got[v]
      BY <1>2 DEF Work, Miss, Pump, EndPacket, EndBatch, TrySend, Exit, ParseData, SkipSub,
         ParseError, SizeChanged, IgnoreFrag, EvictOldest, TryReserve, WriteFrag,
         TypeInv, workVars, procVars
    <3> QED
      BY <3>1, <3>2, <3>3 DEF Packets
  <2> DEFINE Mine ==
        pc'[w] \in {"packet", "reserve"} => From(Packets[pos'[w]], at'[w], got'[w])
  <2>2. ASSUME Mine PROVE GotInv'
    <3>1. \A v \in Workers \ {w} :
             pc'[v] \in {"packet", "reserve"} => From(Packets[pos'[v]], at'[v], got'[v])
      BY <2>1 DEF GotInv
    <3> QED
      BY <2>1, <2>2, <3>1 DEF GotInv
  <2>3. CASE Miss(w) \/ EndPacket(w) \/ EndBatch(w) \/ TrySend(w) \/ Exit(w)
    <3>1. pc'[w] \notin {"packet", "reserve"}
      BY <2>3 DEF Miss, EndPacket, EndBatch, TrySend, Exit, TypeInv, workVars
    <3> QED
      BY <2>2, <3>1
  <2>4. CASE Pump(w)
    <3>1. at'[w] = 1 /\ got'[w] = <<>>
      BY <2>4 DEF Pump, TypeInv, PlaceInv
    <3>2. 1 .. 1 - 1 = {} /\ 1 .. Len(<<>>) = {}
      OBVIOUS
    <3>3. Mine
      BY <3>1, <3>2 DEF From
    <3> QED
      BY <2>2, <3>3
  <2>5. CASE InPacketStep(w)
    <3>1. /\ pc[w] \in {"packet", "reserve"} /\ at[w] <= Len(Packets[pos[w]])
          /\ pos'[w] = pos[w] /\ (Passes(w) \/ Adds(w) \/ Fails(w))
      BY <2>5, SubStep
    <3>2. Len(Packets[pos[w]]) \in Nat /\ at[w] \in Nat /\ at[w] >= 1
      BY <3>1, SubForm
    <3>3. \A j \in 1 .. at[w] - 1 : Packets[pos[w]][j].kind # "bad"
      BY <3>1, <3>2 DEF GotInv, From
    <3>4. \A i \in 1 .. Len(got[w]) : got[w][i].kind \in {"announce", "dispose"} =>
             \E j \in 1 .. at[w] - 1 : /\ Packets[pos[w]][j].kind = got[w][i].kind
                                       /\ Packets[pos[w]][j].id = got[w][i].id
      BY <3>1 DEF GotInv, From
    <3>5. ASSUME Sub(w).kind # "bad"
          PROVE  \A j \in 1 .. (at[w] + 1) - 1 : Packets[pos[w]][j].kind # "bad"
      <4> TAKE j \in 1 .. (at[w] + 1) - 1
      <4>1. j \in 1 .. at[w] - 1 \/ j = at[w]
        BY <3>2
      <4> QED
        BY <3>3, <3>5, <4>1 DEF Sub
    <3>6. \A j \in 1 .. at[w] - 1 : j \in 1 .. (at[w] + 1) - 1
      BY <3>2
    <3>7. CASE Passes(w)
      <4>1. (at'[w] = at[w] \/ at'[w] = at[w] + 1) /\ got'[w] = got[w] /\ Sub(w).kind # "bad"
        BY <3>7 DEF Passes
      <4>2. CASE at'[w] = at[w]
        <5>1. Mine
          BY <3>1, <3>3, <3>4, <4>1, <4>2 DEF From
        <5> QED
          BY <2>2, <5>1
      <4>3. CASE at'[w] = at[w] + 1
        <5>1. \A i \in 1 .. Len(got[w]) : got[w][i].kind \in {"announce", "dispose"} =>
             \E j \in 1 .. (at[w] + 1) - 1 : /\ Packets[pos[w]][j].kind = got[w][i].kind
                                             /\ Packets[pos[w]][j].id = got[w][i].id
          BY <3>4, <3>6
        <5>2. Mine
          BY <3>1, <3>5, <4>1, <4>3, <5>1 DEF From
        <5> QED
          BY <2>2, <5>2
      <4> QED
        BY <4>1, <4>2, <4>3
    <3>8. CASE Adds(w)
      <4>1. PICK e \in Events : /\ got'[w] = Append(got[w], e)
                                /\ e.kind \in {"announce", "dispose"} =>
                                     e.kind = Sub(w).kind /\ e.id = Sub(w).id
        BY <3>8 DEF Adds
      <4>2. at'[w] = at[w] + 1 /\ Sub(w).kind # "bad"
        BY <3>8 DEF Adds
      <4>3. /\ Len(got[w]) \in Nat /\ Len(got'[w]) = Len(got[w]) + 1
            /\ got'[w][Len(got[w]) + 1] = e /\ \A i \in 1 .. Len(got[w]) : got'[w][i] = got[w][i]
        <5>1. got[w] \in Seq(Events)
          BY DEF TypeInv, Batches
        <5> QED
          BY <4>1, <5>1, AppendProperties
      <4>4. ASSUME NEW i \in 1 .. Len(got'[w]), got'[w][i].kind \in {"announce", "dispose"}
            PROVE  \E j \in 1 .. (at[w] + 1) - 1 : /\ Packets[pos[w]][j].kind = got'[w][i].kind
                                                   /\ Packets[pos[w]][j].id = got'[w][i].id
        <5>1. i \in 1 .. Len(got[w]) \/ i = Len(got[w]) + 1
          BY <4>3
        <5>2. CASE i \in 1 .. Len(got[w])
          BY <3>4, <3>6, <4>3, <4>4, <5>2
        <5>3. CASE i = Len(got[w]) + 1
          <6>1. got'[w][i] = e /\ Packets[pos[w]][at[w]].kind = e.kind
                /\ Packets[pos[w]][at[w]].id = e.id
            BY <4>1, <4>3, <4>4, <5>3 DEF Sub
          <6>2. at[w] \in 1 .. (at[w] + 1) - 1
            BY <3>2
          <6> QED
            BY <6>1, <6>2
        <5> QED
          BY <5>1, <5>2, <5>3
      <4>5. Mine
        BY <3>1, <3>5, <4>2, <4>4 DEF From
      <4> QED
        BY <2>2, <4>5
    <3>9. CASE Fails(w)
      <4>1. at'[w] = Len(Packets[pos[w]]) + 1 /\ got'[w] = <<>> /\ 1 .. Len(<<>>) = {}
        BY <3>9 DEF Fails
      <4>2. Mine
        BY <3>1, <4>1 DEF From
      <4> QED
        BY <2>2, <4>2
    <3> QED
      BY <3>1, <3>7, <3>8, <3>9
  <2> QED
    BY <1>2, <2>3, <2>4, <2>5 DEF Work, InPacketStep
<1> QED
  BY <1>1, <1>2

\* How a worker passes the last word on: the one that has it to come gets to
\* carry it unless its ring drops it, the one that carries it keeps it until it
\* sends it, and the one that has sent it stays silent.
LEMMA WordStep ==
    ASSUME TypeInv, PlaceInv, ProcInv, GotInv, NEW p, NEW l, NEW m, NEW k,
           WordAt(p, l, m, k), NEW w \in Workers, Work(w) \/ Miss(w), runtime = "running"
    PROVE  /\ Ahead(w, l, m) =>
                Ahead(w, l, m)' \/ Carries(w, p, l, m, k)' \/ <<w, l>> \in missed'
           /\ Carries(w, p, l, m, k) =>
                \/ Carries(w, p, l, m, k)'
                \/ /\ Quietly(w, p, l)' /\ EndsIn(events[w], p, k)
                   /\ chan' = Append(chan, events[w])
           /\ Quietly(w, p, l) =>
                /\ Quietly(w, p, l)' 
                /\ chan' = chan \/ (chan' = Append(chan, events[w]) /\ Silent(events[w], p))
           /\ Ahead(w, l, m) \/ Carries(w, p, l, m, k) =>
                chan' = chan \/ chan' = Append(chan, events[w])
           /\ missed \subseteq missed' /\ UNCHANGED <<batch, alive, runtime>>
<1> USE DEF workVars, procVars, rtVars
<1>0. /\ pos \in [Workers -> Nat] /\ at \in [Workers -> Nat] /\ got \in [Workers -> Batches]
      /\ events \in [Workers -> Batches]
      /\ pc \in [Workers -> {"pump", "packet", "reserve", "send", "exited"}]
      /\ pos[w] \in Nat /\ at[w] \in Nat
  BY DEF TypeInv
<1>1. /\ l \in Nat /\ m \in Nat /\ 1 <= m /\ 1 <= l /\ m <= Len(Packets[l])
      /\ Len(Packets[l]) \in Nat /\ Len(Packets) \in Nat /\ l \in 1 .. Len(Packets)
  <2>1. Len(Packets) \in Nat /\ \A n \in 1 .. Len(Packets) : Len(Packets[n]) \in Nat
    BY WireForm DEF TypeInv
  <2>2. l \in 1 .. Len(Packets) /\ m \in 1 .. Len(Packets[l])
    BY DEF WordAt
  <2> QED
    BY <2>1, <2>2
<1>2. CASE Miss(w)
  <2>1. /\ pos'[w] = pos[w] + 1 /\ missed' = missed \cup {<<w, pos[w] + 1>>}
        /\ pc[w] = "pump" /\ pc'[w] = "pump" /\ at'[w] = at[w] /\ got'[w] = got[w]
        /\ events'[w] = events[w] /\ UNCHANGED <<chan, batch, alive, runtime>>
    BY <1>0, <1>2 DEF Miss
  <2>2. CASE pos[w] < l
    <3>1. pos[w] + 1 < l \/ pos[w] + 1 = l
      BY <1>0, <1>1, <2>2
    <3>2. ~Carries(w, p, l, m, k) /\ ~Quietly(w, p, l)
      BY <1>0, <1>1, <2>2 DEF Carries, Quietly, InLast
    <3>3. Ahead(w, l, m)' \/ <<w, l>> \in missed'
      BY <2>1, <3>1 DEF Ahead
    <3> QED
      BY <2>1, <3>2, <3>3
  <2>3. CASE ~(pos[w] < l)
    <3>1. pos[w] + 1 > l /\ pos[w] >= l /\ ~(pos[w] + 1 = l) /\ pos[w] + 1 >= l
      BY <1>0, <1>1, <2>3
    <3>2. ~InLast(w, l) /\ ~InLast(w, l)' /\ ~Ahead(w, l, m)
      BY <2>1, <2>3 DEF InLast, Ahead
    <3>3. Carries(w, p, l, m, k) => Carries(w, p, l, m, k)'
      BY <2>1, <3>1, <3>2 DEF Carries
    <3>4. Quietly(w, p, l) => Quietly(w, p, l)'
      BY <2>1, <3>1, <3>2 DEF Quietly
    <3> QED
      BY <2>1, <3>2, <3>3, <3>4
  <2> QED
    BY <2>2, <2>3
<1>3. CASE Pump(w)
  <2>1. /\ pos'[w] = pos[w] + 1 /\ at'[w] = 1 /\ pc[w] = "pump" /\ pc'[w] = "packet"
        /\ events'[w] = events[w] /\ UNCHANGED <<chan, batch, alive, runtime, missed>>
    BY <1>0, <1>3 DEF Pump
  <2>2. CASE pos[w] < l
    <3>1. pos[w] + 1 < l \/ pos[w] + 1 = l
      BY <1>0, <1>1, <2>2
    <3>2. ~Carries(w, p, l, m, k) /\ ~Quietly(w, p, l)
      BY <1>0, <1>1, <2>2 DEF Carries, Quietly, InLast
    <3>3. Ahead(w, l, m)'
      BY <1>1, <2>1, <3>1 DEF Ahead, InLast
    <3> QED
      BY <2>1, <3>2, <3>3
  <2>3. CASE ~(pos[w] < l)
    <3>1. pos[w] + 1 > l /\ pos[w] >= l /\ ~(pos[w] + 1 = l) /\ pos[w] + 1 >= l
      BY <1>0, <1>1, <2>3
    <3>2. ~InLast(w, l) /\ ~InLast(w, l)' /\ ~Ahead(w, l, m)
      BY <2>1, <2>3, <3>1 DEF InLast, Ahead
    <3>3. Carries(w, p, l, m, k) => Carries(w, p, l, m, k)'
      BY <2>1, <3>1, <3>2 DEF Carries
    <3>4. Quietly(w, p, l) => Quietly(w, p, l)'
      BY <2>1, <3>1, <3>2 DEF Quietly
    <3> QED
      BY <2>1, <3>2, <3>3, <3>4
  <2> QED
    BY <2>2, <2>3
<1>4. CASE EndPacket(w)
  <2>1. /\ pos'[w] = pos[w] /\ pc[w] = "packet" /\ pc'[w] = "pump" /\ at'[w] = at[w]
        /\ events'[w] = events[w] \o got[w] /\ at[w] > Len(Packets[pos[w]])
        /\ UNCHANGED <<chan, batch, alive, runtime, missed>>
    BY <1>0, <1>4 DEF EndPacket
  <2>2. events[w] \in Batches /\ got[w] \in Batches
    BY <1>0
  <2>3. ~InLast(w, l)'
    BY <2>1 DEF InLast
  <2>4. CASE pos[w] < l
    <3>1. ~Carries(w, p, l, m, k) /\ ~Quietly(w, p, l)
      BY <1>0, <1>1, <2>4 DEF Carries, Quietly, InLast
    <3>2. Ahead(w, l, m)'
      BY <2>1, <2>4 DEF Ahead
    <3> QED
      BY <2>1, <3>1, <3>2
  <2>5. CASE pos[w] = l
    <3>1. InLast(w, l) /\ ~Ahead(w, l, m) /\ ~Quietly(w, p, l)
      BY <1>0, <1>1, <2>1, <2>5 DEF InLast, Ahead, Quietly
    <3>2. Carries(w, p, l, m, k) => EndsIn(got[w], p, k)
      BY <3>1 DEF Carries
    <3>3. EndsIn(got[w], p, k) => EndsIn(events[w] \o got[w], p, k)
      BY <2>2, JoinWords
    <3>4. Carries(w, p, l, m, k) => Carries(w, p, l, m, k)'
      BY <1>1, <2>1, <2>3, <2>5, <3>2, <3>3 DEF Carries
    <3> QED
      BY <2>1, <3>1, <3>4
  <2>6. CASE pos[w] > l
    <3>1. ~InLast(w, l) /\ ~Ahead(w, l, m) /\ pos[w] >= l
      BY <1>0, <1>1, <2>6 DEF InLast, Ahead
    <3>2. Silent(got[w], p)
      <4>1. From(Packets[pos[w]], at[w], got[w])
        BY <2>1 DEF GotInv
      <4>2. pos[w] \in l + 1 .. Len(Packets) /\ pos[w] \in 1 .. Len(Packets)
        <5>1. pos[w] \in 0 .. Len(Packets)
          BY DEF PlaceInv
        <5> QED
          BY <1>0, <1>1, <2>6, <5>1
      <4>3. Len(Packets[pos[w]]) \in Nat
        BY <4>2, WireForm DEF TypeInv
      <4>4. at[w] = Len(Packets[pos[w]]) + 1
        <5>1. at[w] <= Len(Packets[pos[w]]) + 1
          BY <2>1 DEF PlaceInv
        <5> QED
          BY <1>0, <2>1, <4>3, <5>1
      <4>5. at[w] - 1 = Len(Packets[pos[w]])
        BY <4>3, <4>4
      <4>6. CASE got[w] = <<>>
        BY <4>6, NoWords
      <4>7. CASE \A j \in 1 .. Len(Packets[pos[w]]) : Packets[pos[w]][j].kind # "bad"
        <5>1. \A j \in 1 .. Len(Packets[pos[w]]) : ~Speaks(Packets[pos[w]][j], p)
          BY <4>2, <4>7 DEF WordAt
        <5>2. ASSUME NEW i \in 1 .. Len(got[w]), Speaks(got[w][i], p) PROVE FALSE
          <6>1. got[w][i].kind \in {"announce", "dispose"} /\ got[w][i].id = p
            BY <5>2 DEF Speaks
          <6>2. PICK j \in 1 .. at[w] - 1 : /\ Packets[pos[w]][j].kind = got[w][i].kind
                                            /\ Packets[pos[w]][j].id = got[w][i].id
            BY <4>1, <6>1 DEF From
          <6>3. Speaks(Packets[pos[w]][j], p) /\ j \in 1 .. Len(Packets[pos[w]])
            BY <4>5, <6>1, <6>2 DEF Speaks
          <6> QED
            BY <5>1, <6>3
        <5> QED
          BY <5>2 DEF Silent
      <4> QED
        BY <4>1, <4>5, <4>6, <4>7 DEF From
    <3>3. Carries(w, p, l, m, k) => Carries(w, p, l, m, k)'
      <4>1. Carries(w, p, l, m, k) => EndsIn(events[w] \o got[w], p, k)
        BY <2>2, <3>1, <3>2, JoinWords DEF Carries
      <4> QED
        BY <2>1, <2>3, <3>1, <4>1 DEF Carries
    <3>4. Quietly(w, p, l) => Quietly(w, p, l)'
      <4>1. Quietly(w, p, l) => Silent(events[w] \o got[w], p)
        BY <2>2, <3>2, JoinWords DEF Quietly
      <4> QED
        BY <2>1, <2>3, <3>1, <4>1 DEF Quietly
    <3> QED
      BY <2>1, <3>1, <3>3, <3>4
  <2> QED
    BY <1>0, <1>1, <2>4, <2>5, <2>6
<1>5. CASE EndBatch(w)
  <2>1. /\ pos'[w] = pos[w] /\ pc[w] = "pump" /\ pc'[w] = "send" /\ at'[w] = at[w]
        /\ events'[w] = events[w] /\ UNCHANGED <<chan, batch, alive, runtime, missed>>
    BY <1>0, <1>5 DEF EndBatch
  <2>2. ~InLast(w, l) /\ ~InLast(w, l)'
    BY <2>1 DEF InLast
  <2>3. /\ Ahead(w, l, m) => Ahead(w, l, m)'
        /\ Carries(w, p, l, m, k) => Carries(w, p, l, m, k)'
        /\ Quietly(w, p, l) => Quietly(w, p, l)'
    BY <2>1, <2>2 DEF Ahead, Carries, Quietly
  <2> QED
    BY <2>1, <2>3
<1>6. CASE TrySend(w)
  <2>1. /\ pos'[w] = pos[w] /\ pc[w] = "send" /\ pc'[w] = "pump" /\ events'[w] = <<>>
        /\ chan' = Append(chan, events[w]) /\ UNCHANGED <<batch, alive, runtime, missed>>
    BY <1>0, <1>6 DEF TrySend
  <2>2. ~InLast(w, l) /\ ~InLast(w, l)'
    BY <2>1 DEF InLast
  <2>3. Silent(events'[w], p)
    BY <2>1, NoWords
  <2>4. /\ Ahead(w, l, m) => Ahead(w, l, m)'
        /\ Carries(w, p, l, m, k) => Quietly(w, p, l)' /\ EndsIn(events[w], p, k)
        /\ Quietly(w, p, l) => Quietly(w, p, l)' /\ Silent(events[w], p)
    BY <2>1, <2>2, <2>3 DEF Ahead, Carries, Quietly
  <2> QED
    BY <2>1, <2>4
<1>7. CASE InPacketStep(w)
  <2>1. /\ pc[w] \in {"packet", "reserve"} /\ at[w] <= Len(Packets[pos[w]])
        /\ pc'[w] \in {"packet", "reserve"} /\ pos'[w] = pos[w] /\ events' = events
        /\ UNCHANGED <<chan, missed, batch, alive, runtime, wire>>
        /\ Passes(w) \/ Adds(w) \/ Fails(w)
    BY <1>7, SubStep
  <2>2. CASE pos[w] # l
    <3>1. ~InLast(w, l) /\ ~InLast(w, l)'
      BY <2>1, <2>2 DEF InLast
    <3>2. /\ Ahead(w, l, m) => Ahead(w, l, m)'
          /\ Carries(w, p, l, m, k) => Carries(w, p, l, m, k)'
          /\ Quietly(w, p, l) => Quietly(w, p, l)'
      BY <2>1, <3>1 DEF Ahead, Carries, Quietly
    <3> QED
      BY <2>1, <3>2
  <2>3. CASE pos[w] = l
    <3>1. InLast(w, l) /\ InLast(w, l)' /\ ~Quietly(w, p, l)
      BY <2>1, <2>3 DEF InLast, Quietly
    <3>2. at[w] \in 1 .. Len(Packets[l]) /\ Sub(w) = Packets[l][at[w]]
      BY <2>1, <2>3, SubForm DEF Sub
    <3>3. Sub(w).kind # "bad"
      BY <3>2 DEF WordAt
    <3>4. ~Fails(w)
      BY <3>3 DEF Fails
    <3>5. CASE at[w] < m
      <4>1. at'[w] <= m
        <5>1. at'[w] \in {at[w], at[w] + 1}
          BY <2>1, <3>4 DEF Passes, Adds
        <5> QED
          BY <1>0, <1>1, <3>5, <5>1
      <4>2. Ahead(w, l, m)'
        BY <3>1, <4>1 DEF Ahead
      <4>3. ~Carries(w, p, l, m, k)
        BY <1>0, <1>1, <3>1, <3>5 DEF Carries
      <4> QED
        BY <2>1, <3>1, <4>2, <4>3
    <3>6. CASE at[w] = m
      <4>1. Speaks(Sub(w), p) /\ Sub(w).kind = k
        BY <3>2, <3>6 DEF WordAt
      <4>2. Adds(w)
        BY <2>1, <3>4, <4>1 DEF Passes, Speaks
      <4>3. PICK e \in Events : /\ got'[w] = Append(got[w], e)
                                /\ {e.kind, Sub(w).kind} \cap {"announce", "dispose"} # {} =>
                                     e.kind = Sub(w).kind /\ e.id = Sub(w).id
        BY <4>2 DEF Adds
      <4>4. e.kind = Sub(w).kind /\ e.id = Sub(w).id
        BY <4>1, <4>3 DEF Speaks
      <4>5. Speaks(e, p) /\ e.kind = k
        BY <4>1, <4>4 DEF Speaks
      <4>6. EndsIn(Append(got[w], e), p, k)
        BY <1>0, <4>5, AddWord
      <4>7. at'[w] = m + 1
        BY <3>6, <4>2 DEF Adds
      <4>8. at'[w] > m
        BY <1>1, <4>7
      <4>9. Carries(w, p, l, m, k)'
        BY <3>1, <4>3, <4>6, <4>8 DEF Carries
      <4>10. ~Carries(w, p, l, m, k)
        BY <1>0, <1>1, <3>1, <3>6 DEF Carries
      <4> QED
        BY <2>1, <3>1, <4>9, <4>10
    <3>7. CASE at[w] > m
      <4>1. ~Speaks(Sub(w), p)
        <5>1. at[w] \in m + 1 .. Len(Packets[l])
          BY <1>0, <1>1, <3>2, <3>7
        <5> QED
          BY <3>2, <5>1 DEF WordAt
      <4>2. at'[w] > m
        <5>1. at'[w] \in {at[w], at[w] + 1}
          BY <2>1, <3>4 DEF Passes, Adds
        <5> QED
          BY <1>0, <1>1, <3>7, <5>1
      <4>3. EndsIn(got[w], p, k) => EndsIn(got'[w], p, k)
        <5>1. CASE Passes(w)
          BY <5>1 DEF Passes
        <5>2. CASE Adds(w)
          <6>1. PICK e \in Events : /\ got'[w] = Append(got[w], e)
                                    /\ {e.kind, Sub(w).kind} \cap {"announce", "dispose"} # {} =>
                                         e.kind = Sub(w).kind /\ e.id = Sub(w).id
            BY <5>2 DEF Adds
          <6>2. ~Speaks(e, p)
            BY <4>1, <6>1 DEF Speaks
          <6>3. EndsIn(got[w], p, k) => EndsIn(Append(got[w], e), p, k)
            BY <1>0, <6>2, AddWord
          <6> QED
            BY <6>1, <6>3
        <5> QED
          BY <2>1, <3>4, <5>1, <5>2
      <4>4. Carries(w, p, l, m, k) => Carries(w, p, l, m, k)'
        BY <3>1, <4>2, <4>3 DEF Carries
      <4>5. ~Ahead(w, l, m)
        BY <1>0, <1>1, <2>3, <3>7 DEF Ahead
      <4> QED
        BY <2>1, <3>1, <4>4, <4>5
    <3> QED
      BY <1>0, <1>1, <3>5, <3>6, <3>7
  <2> QED
    BY <2>2, <2>3
<1>8. ~Exit(w)
  BY DEF Exit
<1> QED
  BY <1>2, <1>3, <1>4, <1>5, <1>6, <1>7, <1>8 DEF Work, InPacketStep

\* The runtime takes the next batch: what is to be applied stays the same.
LEMMA SettledDrain ==
    ASSUME TypeInv, NEW p, NEW k, Drain, Settled(p, k)
    PROVE  Settled(p, k)'
<1> DEFINE t == Tail(chan)
           n == Len(chan)
<1>1. /\ n \in Nat /\ n >= 1 /\ Head(chan) = chan[1] /\ Len(t) = n - 1
      /\ \A i \in 1 .. Len(t) : t[i] = chan[i + 1]
  <2>1. chan \in Seq(Batches) /\ chan # <<>>
    BY DEF TypeInv, Drain
  <2>2. Len(t) = n - 1 /\ \A i \in 1 .. Len(t) : t[i] = chan[i + 1]
    BY <2>1, HeadTailProperties
  <2>3. n \in Nat /\ n >= 1 /\ Head(chan) = chan[1]
    BY <2>1
  <2> QED
    BY <2>2, <2>3
<1>2. batch = <<>> /\ batch' = chan[1] /\ chan' = t /\ alive' = alive
  BY <1>1 DEF Drain
<1>3. Silent(batch, p) /\ ~EndsIn(batch, p, k)
  BY <1>2, NoWords
<1> HIDE DEF t, n
<1>4. CASE \A d \in 1 .. n : Silent(chan[d], p)
  <2>1. Right(p, k)
    <3>1. \A c \in 1 .. n : ~EndsIn(chan[c], p, k)
      BY <1>4 DEF Silent, EndsIn
    <3> QED
      BY <1>3, <3>1 DEF Settled, n
  <2>2. Right(p, k)'
    BY <1>2, <2>1 DEF Right
  <2>3. Silent(chan[1], p) /\ \A d \in 1 .. Len(t) : Silent(t[d], p)
    <3>1. 1 \in 1 .. n /\ \A d \in 1 .. Len(t) : d + 1 \in 1 .. n
      BY <1>1
    <3> QED
      BY <1>1, <1>4, <3>1
  <2> QED
    BY <1>2, <2>2, <2>3 DEF Settled
<1>5. CASE \E c \in 1 .. n : EndsIn(chan[c], p, k) /\ \A d \in c + 1 .. n : Silent(chan[d], p)
  <2>1. PICK c \in 1 .. n : EndsIn(chan[c], p, k) /\ \A d \in c + 1 .. n : Silent(chan[d], p)
    BY <1>5
  <2>2. CASE c = 1
    <3>1. \A d \in 1 .. Len(t) : d + 1 \in c + 1 .. n
      BY <1>1, <2>2
    <3>2. \A d \in 1 .. Len(t) : Silent(t[d], p)
      BY <1>1, <2>1, <3>1
    <3> QED
      BY <1>2, <2>1, <2>2, <3>2 DEF Settled
  <2>3. CASE c > 1
    <3>1. c - 1 \in 1 .. Len(t) /\ (c - 1) + 1 = c
      BY <1>1, <2>3
    <3>2. \A d \in (c - 1) + 1 .. Len(t) : d \in 1 .. Len(t) /\ d + 1 \in c + 1 .. n
      BY <1>1, <2>3
    <3>3. EndsIn(t[c - 1], p, k) /\ \A d \in (c - 1) + 1 .. Len(t) : Silent(t[d], p)
      BY <1>1, <2>1, <3>1, <3>2
    <3> QED
      BY <1>2, <3>1, <3>3 DEF Settled
  <2> QED
    BY <1>1, <2>2, <2>3
<1> QED
  BY <1>4, <1>5 DEF Settled, n

\* The runtime applies an event: the table says what the last word says once
\* nothing behind it speaks of the participant.
LEMMA SettledApply ==
    ASSUME TypeInv, NEW p, NEW k, k \in {"announce", "dispose"}, HandleRtpsEvent,
           runtime' = "running", Settled(p, k)
    PROVE  Settled(p, k)'
<1> DEFINE e == Head(batch)
           t == Tail(batch)
<1>1. batch \in Batches /\ batch # <<>>
  BY DEF TypeInv, HandleRtpsEvent
<1>2. batch' = t /\ alive' = AliveAfter(e) /\ chan' = chan
  BY DEF HandleRtpsEvent
<1>3. /\ Silent(batch, p) => Silent(t, p) /\ ~Speaks(e, p)
      /\ EndsIn(batch, p, k) => EndsIn(t, p, k) \/ (Silent(t, p) /\ Speaks(e, p) /\ e.kind = k)
  BY <1>1, TailWords
<1> HIDE DEF e, t
<1>4. Speaks(e, p) /\ e.kind = k => Right(p, k)'
  <2> SUFFICES ASSUME Speaks(e, p), e.kind = k PROVE p \in AliveAfter(e) <=> k = "announce"
    BY <1>2 DEF Right
  <2>1. CASE k = "announce"
    BY <2>1 DEF AliveAfter, Speaks
  <2>2. CASE k = "dispose"
    BY <2>2 DEF AliveAfter, Speaks
  <2> QED
    BY <2>1, <2>2
<1>5. ~Speaks(e, p) /\ Right(p, k) => Right(p, k)'
  <2> SUFFICES ASSUME ~Speaks(e, p) PROVE p \in AliveAfter(e) <=> p \in alive
    BY <1>2 DEF Right
  <2> QED
    BY DEF AliveAfter, Speaks
<1>6. CASE \E c \in 1 .. Len(chan) : /\ EndsIn(chan[c], p, k)
                                     /\ \A d \in c + 1 .. Len(chan) : Silent(chan[d], p)
  BY <1>2, <1>6 DEF Settled
<1>7. CASE /\ \A d \in 1 .. Len(chan) : Silent(chan[d], p)
           /\ EndsIn(batch, p, k) \/ (Silent(batch, p) /\ Right(p, k))
  <2>1. EndsIn(t, p, k) \/ (Silent(t, p) /\ Right(p, k)')
    BY <1>3, <1>4, <1>5, <1>7
  <2> QED
    BY <1>2, <1>7, <2>1 DEF Settled
<1> QED
  BY <1>6, <1>7 DEF Settled

\* A worker sends a batch.
LEMMA SettledSend ==
    ASSUME TypeInv, NEW p, NEW k, NEW b \in Batches, chan' = Append(chan, b),
           UNCHANGED <<batch, alive>>
    PROVE  /\ EndsIn(b, p, k) => Settled(p, k)'
           /\ Silent(b, p) /\ Settled(p, k) => Settled(p, k)'
<1> DEFINE c == Append(chan, b)
           n == Len(chan)
<1>1. n \in Nat /\ Len(c) = n + 1 /\ c[n + 1] = b /\ \A i \in 1 .. n : c[i] = chan[i]
  <2>1. chan \in Seq(Batches)
    BY DEF TypeInv
  <2> QED
    BY <2>1, AppendProperties
<1>2. chan' = c /\ batch' = batch /\ alive' = alive
  OBVIOUS
<1> HIDE DEF c, n
<1>3. ASSUME EndsIn(b, p, k) PROVE Settled(p, k)'
  <2>1. n + 1 \in 1 .. Len(c) /\ (n + 1) + 1 .. Len(c) = {}
    BY <1>1
  <2>2. EndsIn(c[n + 1], p, k) /\ \A d \in (n + 1) + 1 .. Len(c) : Silent(c[d], p)
    BY <1>1, <1>3, <2>1
  <2> QED
    BY <1>2, <2>1, <2>2 DEF Settled
<1>4. ASSUME Silent(b, p), Settled(p, k) PROVE Settled(p, k)'
  <2>1. CASE \E i \in 1 .. n : EndsIn(chan[i], p, k) /\ \A d \in i + 1 .. n : Silent(chan[d], p)
    <3>1. PICK i \in 1 .. n : EndsIn(chan[i], p, k) /\ \A d \in i + 1 .. n : Silent(chan[d], p)
      BY <2>1
    <3>2. i \in 1 .. Len(c) /\ c[i] = chan[i]
      BY <1>1
    <3>3. ASSUME NEW d \in i + 1 .. Len(c) PROVE Silent(c[d], p)
      <4>1. (d \in i + 1 .. n /\ c[d] = chan[d]) \/ d = n + 1
        BY <1>1
      <4> QED
        BY <1>1, <1>4, <3>1, <4>1
    <3> QED
      BY <1>2, <3>1, <3>2, <3>3 DEF Settled
  <2>2. CASE /\ \A d \in 1 .. n : Silent(chan[d], p)
             /\ EndsIn(batch, p, k) \/ (Silent(batch, p) /\ Right(p, k))
    <3>1. ASSUME NEW d \in 1 .. Len(c) PROVE Silent(c[d], p)
      <4>1. (d \in 1 .. n /\ c[d] = chan[d]) \/ d = n + 1
        BY <1>1
      <4> QED
        BY <1>1, <1>4, <2>2, <4>1
    <3>2. Right(p, k)' <=> Right(p, k)
      BY <1>2 DEF Right
    <3> QED
      BY <1>2, <2>2, <3>1, <3>2 DEF Settled
  <2> QED
    BY <1>4, <2>1, <2>2 DEF Settled, n
<1> QED
  BY <1>3, <1>4

\* The last word on a participant is kept, step by step.
LEMMA ConvStep == TypeInv /\ PlaceInv /\ ProcInv /\ GotInv /\ ConvInv /\ [Next]_vars => ConvInv'
<1> SUFFICES ASSUME TypeInv, PlaceInv, ProcInv, GotInv, ConvInv, [Next]_vars,
                    runtime' = "running", NEW p, NEW l, NEW m, NEW k, WordAt(p, l, m, k)'
             PROVE  WordKept(p, l, m, k)'
  BY DEF ConvInv
<1>1. runtime = "running" /\ wire' = wire
  BY DEF Next, Drain, HandleRtpsEvent, CtrlC, Join, Work, Miss, Pump, EndPacket, EndBatch,
     TrySend, Exit, ParseData, SkipSub, ParseError, SizeChanged, IgnoreFrag, EvictOldest,
     TryReserve, WriteFrag, vars
<1>2. WordAt(p, l, m, k)
  BY <1>1 DEF WordAt, Packets
<1>3. WordKept(p, l, m, k)
  BY <1>1, <1>2 DEF ConvInv
<1>k. k \in {"announce", "dispose"}
  BY <1>2 DEF WordAt, Speaks
\* Steps of the runtime.
<1>4. CASE ~(\E w \in Workers : Work(w) \/ Miss(w))
  <2>1. UNCHANGED <<pos, at, pc, got, events, missed>>
    <3>1. UNCHANGED <<pos, at, pc, events, missed>>
      BY <1>4, RuntimeKeepsFlows
    <3>2. got' = got
      BY <1>4 DEF Next, Drain, HandleRtpsEvent, CtrlC, Join, workVars, vars
    <3> QED
      BY <3>1, <3>2
  <2>2. \A w \in Workers : /\ Ahead(w, l, m)' <=> Ahead(w, l, m)
                           /\ Carries(w, p, l, m, k)' <=> Carries(w, p, l, m, k)
                           /\ Quietly(w, p, l)' <=> Quietly(w, p, l)
    BY <2>1 DEF Ahead, Carries, Quietly, InLast
  <2>3. Settled(p, k) => Settled(p, k)'
    <3>1. CASE Drain
      BY <3>1, SettledDrain
    <3>2. CASE HandleRtpsEvent
      BY <1>k, <3>2, SettledApply
    <3>3. CASE UNCHANGED vars
      BY <3>3 DEF vars, rtVars, Settled, Right
    <3>4. ~CtrlC /\ ~Join
      BY DEF CtrlC, Join
    <3> QED
      BY <1>4, <3>1, <3>2, <3>3, <3>4 DEF Next
  <2>4. (\E w \in Workers : <<w, l>> \in missed) => WordKept(p, l, m, k)'
    BY <2>1 DEF WordKept
  <2> QED
    BY <1>3, <2>2, <2>3, <2>4 DEF WordKept
\* Steps of a worker.
<1>5. ASSUME NEW w \in Workers, Work(w) \/ Miss(w) PROVE WordKept(p, l, m, k)'
  <2>1. /\ Ahead(w, l, m) =>
             Ahead(w, l, m)' \/ Carries(w, p, l, m, k)' \/ <<w, l>> \in missed'
        /\ Carries(w, p, l, m, k) =>
             \/ Carries(w, p, l, m, k)'
             \/ /\ Quietly(w, p, l)' /\ EndsIn(events[w], p, k)
                /\ chan' = Append(chan, events[w])
        /\ Quietly(w, p, l) =>
             /\ Quietly(w, p, l)'
             /\ chan' = chan \/ (chan' = Append(chan, events[w]) /\ Silent(events[w], p))
        /\ missed \subseteq missed' /\ UNCHANGED <<batch, alive, runtime>>
    BY <1>1, <1>2, <1>5, WordStep
  <2>2. \A v \in Workers \ {w} : /\ Ahead(v, l, m)' <=> Ahead(v, l, m)
                                 /\ Carries(v, p, l, m, k)' <=> Carries(v, p, l, m, k)
                                 /\ Quietly(v, p, l)' <=> Quietly(v, p, l)
    <3>1. \A v \in Workers \ {w} : pos'[v] = pos[v] /\ at'[v] = at[v] /\ pc'[v] = pc[v]
      BY <1>5 DEF Work, Miss, Pump, EndPacket, EndBatch, TrySend, Exit, ParseData, SkipSub,
         ParseError, SizeChanged, IgnoreFrag, EvictOldest, TryReserve, WriteFrag, NextSub,
         TypeInv, workVars, procVars
    <3>2. \A v \in Workers \ {w} : got'[v] = got[v] /\ events'[v] = events[v]
      BY <1>5 DEF Work, Miss, Pump, EndPacket, EndBatch, TrySend, Exit, ParseData, SkipSub,
         ParseError, SizeChanged, IgnoreFrag, EvictOldest, TryReserve, WriteFrag,
         TypeInv, workVars, procVars
    <3> QED
      BY <3>1, <3>2 DEF Ahead, Carries, Quietly, InLast
  <2>3. events[w] \in Batches
    BY DEF TypeInv
  <2>4. /\ chan' = Append(chan, events[w]) /\ EndsIn(events[w], p, k) => Settled(p, k)'
        /\ chan' = Append(chan, events[w]) /\ Silent(events[w], p) /\ Settled(p, k)
             => Settled(p, k)'
    BY <2>1, <2>3, SettledSend
  <2>5. chan' = chan /\ Settled(p, k) => Settled(p, k)'
    BY <2>1 DEF Settled, Right
  <2>6. CASE \E v \in Workers : <<v, l>> \in missed'
    BY <2>6 DEF WordKept
  <2>7. CASE ~(\E v \in Workers : <<v, l>> \in missed')
    <3>1. /\ \A v \in Workers : Ahead(v, l, m) \/ Carries(v, p, l, m, k) \/ Quietly(v, p, l)
          /\ \/ \E v \in Workers : Ahead(v, l, m) \/ Carries(v, p, l, m, k)
             \/ Settled(p, k)
      BY <1>3, <2>1, <2>7 DEF WordKept
    <3>2. \A v \in Workers : Ahead(v, l, m)' \/ Carries(v, p, l, m, k)' \/ Quietly(v, p, l)'
      BY <2>1, <2>2, <2>7, <3>1
    <3>3. (\E v \in Workers : Ahead(v, l, m)' \/ Carries(v, p, l, m, k)') \/ Settled(p, k)'
      <4>1. CASE \E v \in Workers \ {w} : Ahead(v, l, m) \/ Carries(v, p, l, m, k)
        BY <2>2, <4>1
      <4>2. CASE Ahead(w, l, m)
        BY <2>1, <2>7, <4>2
      <4>3. CASE Carries(w, p, l, m, k)
        BY <2>1, <2>4, <4>3
      <4>4. CASE Quietly(w, p, l) /\ Settled(p, k)
        BY <2>1, <2>4, <2>5, <4>4
      <4> QED
        BY <3>1, <4>1, <4>2, <4>3, <4>4
    <3> QED
      BY <3>2, <3>3 DEF WordKept
  <2> QED
    BY <2>6, <2>7
<1> QED
  BY <1>4, <1>5

\* At the start every worker has every last word still to come.
LEMMA ConvInit == Init => GotInv /\ ConvInv
<1> SUFFICES ASSUME Init PROVE GotInv /\ ConvInv
  OBVIOUS
<1>1. GotInv
  BY DEF Init, GotInv
<1>2. ASSUME NEW p, NEW l, NEW m, NEW k, WordAt(p, l, m, k) PROVE WordKept(p, l, m, k)
  <2>1. l \in 1 .. Len(Packets) /\ Len(Packets) \in Nat
    BY <1>2, WireForm DEF WordAt, Init
  <2>2. 0 < l
    BY <2>1
  <2>3. \A w \in Workers : Ahead(w, l, m)
    BY <2>2 DEF Ahead, Init
  <2> QED
    BY <2>3, WorkersAssumption DEF WordKept
<1> QED
  BY <1>1, <1>2 DEF ConvInv

\* What the third theorem rests on.
TableInv == FlowInv /\ GotInv /\ ConvInv

\* When all has been read, the table holds the last word on every participant,
\* however the copies of the workers have been interleaved.
THEOREM TableConverges == Spec => []Converges
<1>1. Init => TableInv
  BY TypeInit, ProcInit, BudgetInit, BoundInit, ConvInit DEF TableInv, FlowInv
<1>2. TableInv /\ [Next]_vars => TableInv'
  BY FlowInvStep, GotStep, ConvStep DEF TableInv, FlowInv
<1>3. TableInv => Converges
  <2> SUFFICES ASSUME TableInv, Quiet, NEW p \in Participants, Says(p) # {},
                      ~(\E w \in Workers : <<w, Max(Says(p))>> \in missed)
               PROVE  p \in alive
                        <=> Packets[Max(Says(p))][WordIn(Max(Says(p)), p)].kind = "announce"
    BY Zenon DEF Converges
  <2> DEFINE S == Says(p)
             l == Max(S)
             W == {i \in DOMAIN Packets[l] : Speaks(Packets[l][i], p)}
             m == Max(W)
             k == Packets[l][m].kind
  <2>1. Len(Packets) \in Nat /\ DOMAIN Packets = 1 .. Len(Packets)
        /\ \A n \in 1 .. Len(Packets) :
              Len(Packets[n]) \in Nat /\ DOMAIN Packets[n] = 1 .. Len(Packets[n])
    BY WireForm DEF TableInv, FlowInv, TypeInv
  <2>2. /\ S \subseteq 0 .. Len(Packets) /\ S # {}
        /\ \A n \in S : n \in 1 .. Len(Packets) /\ Readable(n)
                        /\ \E i \in DOMAIN Packets[n] : Speaks(Packets[n][i], p)
        /\ \A n \in 1 .. Len(Packets) : n \notin S =>
              \/ ~Readable(n)
              \/ \A i \in DOMAIN Packets[n] : ~Speaks(Packets[n][i], p)
    BY <2>1 DEF Says
  <2>m. m = WordIn(l, p)
    BY DEF WordIn
  <2> HIDE DEF S
  <2>3. l \in S /\ \A n \in S : n <= l
    BY <2>1, <2>2, GreatestNumber
  <2>4. l \in 1 .. Len(Packets) /\ Readable(l)
        /\ \E i \in DOMAIN Packets[l] : Speaks(Packets[l][i], p)
    BY <2>2, <2>3
  <2> HIDE DEF l
  <2>5. Len(Packets[l]) \in Nat /\ DOMAIN Packets[l] = 1 .. Len(Packets[l])
    BY <2>1, <2>4
  <2>6. /\ W \subseteq 0 .. Len(Packets[l]) /\ W # {}
        /\ \A i \in 1 .. Len(Packets[l]) : i \in W <=> Speaks(Packets[l][i], p)
        /\ \A i \in W : i \in 1 .. Len(Packets[l])
    BY <2>4, <2>5
  <2> HIDE DEF W
  <2>7. m \in W /\ \A i \in W : i <= m
    BY <2>5, <2>6, GreatestNumber
  <2> HIDE DEF m, k
  <2>8. m \in 1 .. Len(Packets[l]) /\ Speaks(Packets[l][m], p)
    <3>1. m \in 1 .. Len(Packets[l])
      BY <2>6, <2>7
    <3> QED
      BY <2>6, <2>7, <3>1, Zenon
  <2>9. WordAt(p, l, m, k)
    <3>1. ASSUME NEW j \in m + 1 .. Len(Packets[l]) PROVE ~Speaks(Packets[l][j], p)
      <4>1. j \in 1 .. Len(Packets[l]) /\ ~(j <= m)
        BY <2>5, <2>8
      <4>2. j \notin W
        BY <2>7, <4>1
      <4> QED
        BY <2>6, <4>1, <4>2, Zenon
    <3>2. \A j \in 1 .. Len(Packets[l]) : Packets[l][j].kind # "bad"
      BY <2>4, <2>5 DEF Readable
    <3>3. ASSUME NEW n \in l + 1 .. Len(Packets)
          PROVE  \/ \E j \in 1 .. Len(Packets[n]) : Packets[n][j].kind = "bad"
                 \/ \A j \in 1 .. Len(Packets[n]) : ~Speaks(Packets[n][j], p)
      <4>1. n \in 1 .. Len(Packets) /\ ~(n <= l)
        BY <2>1, <2>4
      <4>2. n \notin S /\ DOMAIN Packets[n] = 1 .. Len(Packets[n])
        BY <2>1, <2>3, <4>1
      <4> QED
        BY <2>2, <4>1, <4>2 DEF Readable
    <3>4. Packets[l][m].kind = k
      BY DEF k
    <3> QED
      BY <2>4, <2>8, <3>1, <3>2, <3>3, <3>4 DEF WordAt
  <2>10. WordKept(p, l, m, k)
    BY <2>9 DEF TableInv, ConvInv, Quiet
  <2>11. ~(\E w \in Workers : <<w, l>> \in missed)
    BY DEF l, S
  <2>12. chan = <<>> /\ batch = <<>>
         /\ \A w \in Workers : pos[w] = Len(Packets) /\ pc[w] = "pump" /\ events[w] = <<>>
    BY DEF Quiet
  <2>13. ASSUME NEW w \in Workers PROVE ~Ahead(w, l, m) /\ ~Carries(w, p, l, m, k)
    <3>1. pos[w] = Len(Packets) /\ pc[w] = "pump" /\ events[w] = <<>>
      BY <2>12
    <3>2. ~(Len(Packets) < l)
      BY <2>1, <2>4
    <3>3. ~EndsIn(events[w], p, k)
      BY <3>1, NoWords
    <3>4. ~InLast(w, l)
      BY <3>1 DEF InLast
    <3> QED
      BY <3>1, <3>2, <3>3, <3>4 DEF Ahead, Carries
  <2>14. Settled(p, k)
    BY <2>10, <2>11, <2>13 DEF WordKept
  <2>15. Right(p, k)
    <3>1. Len(chan) = 0 /\ 1 .. 0 = {} /\ ~EndsIn(batch, p, k)
      BY <2>12, NoWords
    <3> QED
      BY <2>14, <3>1 DEF Settled
  <2> QED
    BY <2>15, <2>m DEF Right, k, l, S
<1> QED
  BY <1>1, <1>2, <1>3, PTL DEF Spec
=============================================================================
