--------------------------- MODULE RuntimeProofs ----------------------------
(***************************************************************************)
(* Proofs about two parts of the state of the runtime loop: the tokens and *)
(* the graph of the zenoh nodes (ZenohTokens, ZenohGraph), for any number  *)
(* of flows, ids, tokens, nodes and batches in the channel, and the topic  *)
(* filter (TopicFilter), for any number of writers, readers, topics,       *)
(* observers and failed system calls.                                      *)
(***************************************************************************)
EXTENDS ZenohGraph, TopicFilter, FiniteSetTheorems, SequenceTheorems, TLAPS

----------------------------------------------------------------------------
(* The eviction order.                                                     *)

\* e is in the order.
Listed(e, order) == \E i \in 1 .. Len(order) : order[i] = e

\* No direction is listed twice.
Distinct(order) ==
    \A i, j \in 1 .. Len(order) : order[i] = order[j] => i = j

\* Taking a direction out of the order leaves the others.
LEMMA UntrackDrops ==
    ASSUME NEW order \in Seq(Directions), Distinct(order), NEW d \in Directions
    PROVE  /\ Untrack(d, order) \in Seq(Directions)
           /\ Distinct(Untrack(d, order))
           /\ Len(Untrack(d, order)) <= Len(order)
           /\ \A e \in Directions :
                  Listed(e, Untrack(d, order)) <=> Listed(e, order) /\ e # d
<1>a. Len(order) \in Nat /\ DOMAIN order = 1 .. Len(order)
      /\ \A j \in 1 .. Len(order) : order[j] \in Directions
  BY LenProperties, ElementOfSeq
<1>1. CASE ~Listed(d, order)
  <2>1. Untrack(d, order) = order
    BY <1>1, <1>a DEF Untrack, Listed
  <2> QED
    BY <1>1, <1>a, <2>1 DEF Listed
<1>2. CASE Listed(d, order)
  <2> DEFINE n == Len(order)
             First(i) == order[i] = d /\ \A j \in 1 .. i - 1 : order[j] # d
             i == CHOOSE i \in DOMAIN order : First(i)
             s == SubSeq(order, 1, i - 1)
             t == SubSeq(order, i + 1, n)
  <2>1. Untrack(d, order) = s \o t
    BY <1>2, <1>a DEF Untrack, Listed
  <2>2. i \in 1 .. n /\ order[i] = d
    <3>1. PICK k \in 1 .. n : order[k] = d
      BY <1>2 DEF Listed
    <3>2. First(k)
      BY <1>a, <3>1 DEF Distinct
    <3>3. \E x \in DOMAIN order : First(x)
      BY <1>a, <3>1, <3>2
    <3>4. i \in DOMAIN order /\ First(i)
      BY <3>3
    <3> QED
      BY <1>a, <3>4
  <2> HIDE DEF i, n
  <2>3. s \in Seq(Directions) /\ Len(s) = i - 1 /\ \A j \in 1 .. i - 1 : s[j] = order[j]
    <3>1. /\ 1 \in Int /\ i - 1 \in Int
          /\ \A j \in 1 .. i - 1 : order[j] \in Directions
      BY <1>a, <2>2 DEF n
    <3>2. /\ s \in Seq(Directions)
          /\ Len(s) = IF 1 <= i - 1 THEN (i - 1) - 1 + 1 ELSE 0
          /\ \A j \in 1 .. (i - 1) - 1 + 1 : s[j] = order[1 + j - 1]
      BY <3>1, SubSeqProperties
    <3> HIDE DEF s
    <3> QED
      BY <1>a, <2>2, <3>2 DEF n
  <2>4. t \in Seq(Directions) /\ Len(t) = n - i /\ \A j \in 1 .. n - i : t[j] = order[j + i]
    <3>1. /\ i + 1 \in Int /\ n \in Int
          /\ \A j \in i + 1 .. n : order[j] \in Directions
      BY <1>a, <2>2 DEF n
    <3>2. /\ t \in Seq(Directions)
          /\ Len(t) = IF i + 1 <= n THEN n - (i + 1) + 1 ELSE 0
          /\ \A j \in 1 .. n - (i + 1) + 1 : t[j] = order[(i + 1) + j - 1]
      BY <3>1, SubSeqProperties
    <3> HIDE DEF t
    <3>3. ASSUME NEW j \in 1 .. n - i PROVE t[j] = order[j + i]
      <4>1. j \in 1 .. n - (i + 1) + 1 /\ (i + 1) + j - 1 = j + i
        BY <1>a, <2>2 DEF n
      <4> QED
        BY <3>2, <4>1
    <3>4. Len(t) = n - i
      <4>1. n \in Nat /\ i \in 1 .. n
        BY <1>a, <2>2 DEF n
      <4> QED
        BY <3>2, <4>1
    <3> QED
      BY <3>2, <3>3, <3>4
  <2> HIDE DEF s, t
  <2> DEFINE u == s \o t
  <2>5. /\ u \in Seq(Directions) /\ Len(u) = n - 1
        /\ \A j \in 1 .. n - 1 : u[j] = IF j < i THEN order[j] ELSE order[j + 1]
    <3>1. /\ u \in Seq(Directions) /\ Len(u) = Len(s) + Len(t)
          /\ \A j \in 1 .. Len(s) + Len(t) : u[j] = IF j <= Len(s) THEN s[j] ELSE t[j - Len(s)]
      <4>1. s \in Seq(Directions) /\ t \in Seq(Directions)
        BY <2>3, <2>4
      <4> QED
        BY <4>1, ConcatProperties
    <3> HIDE DEF u
    <3>2. Len(s) + Len(t) = n - 1 /\ n \in Nat
      BY <1>a, <2>2, <2>3, <2>4 DEF n
    <3>3. ASSUME NEW j \in 1 .. n - 1 PROVE u[j] = IF j < i THEN order[j] ELSE order[j + 1]
      <4>1. CASE j < i
        <5>1. j \in 1 .. i - 1 /\ j <= Len(s)
          BY <2>2, <2>3, <3>2, <4>1
        <5> QED
          BY <2>3, <3>1, <3>2, <4>1, <5>1
      <4>2. CASE ~(j < i)
        <5>1. j - (i - 1) \in 1 .. n - i /\ ~(j <= Len(s)) /\ (j - (i - 1)) + i = j + 1
          BY <2>2, <2>3, <3>2, <4>2
        <5> QED
          BY <2>3, <2>4, <3>1, <3>2, <4>2, <5>1
      <4> QED
        BY <4>1, <4>2
    <3> QED
      BY <3>1, <3>2, <3>3
  <2> HIDE DEF u
  <2>6. Distinct(u)
    <3> SUFFICES ASSUME NEW j \in 1 .. n - 1, NEW k \in 1 .. n - 1, u[j] = u[k] PROVE j = k
      BY <2>5 DEF Distinct
    <3> DEFINE at(x) == IF x < i THEN x ELSE x + 1
    <3>1. /\ at(j) \in 1 .. Len(order) /\ at(k) \in 1 .. Len(order)
          /\ order[at(j)] = order[at(k)]
      BY <1>a, <2>2, <2>5 DEF n
    <3>2. at(j) = at(k)
      <4> HIDE DEF at
      <4> QED
        BY <3>1 DEF Distinct
    <3> QED
      BY <2>2, <3>2
  <2>7. ASSUME NEW e \in Directions PROVE Listed(e, u) <=> Listed(e, order) /\ e # d
    <3>1. ASSUME NEW j \in 1 .. n - 1, u[j] = e PROVE Listed(e, order) /\ e # d
      <4>1. CASE j < i
        <5>1. j \in 1 .. Len(order) /\ i \in 1 .. Len(order) /\ order[j] = e /\ j # i
          BY <1>a, <2>2, <2>5, <3>1, <4>1 DEF n
        <5> QED
          BY <2>2, <5>1 DEF Listed, Distinct
      <4>2. CASE ~(j < i)
        <5>1. j + 1 \in 1 .. Len(order) /\ i \in 1 .. Len(order) /\ order[j + 1] = e
              /\ j + 1 # i
          BY <1>a, <2>2, <2>5, <3>1, <4>2 DEF n
        <5> QED
          BY <2>2, <5>1 DEF Listed, Distinct
      <4> QED
        BY <4>1, <4>2
    <3>2. ASSUME NEW k \in 1 .. n, order[k] = e, e # d PROVE Listed(e, u)
      <4>1. k # i
        BY <2>2, <3>2
      <4>2. CASE k < i
        <5>1. k \in 1 .. n - 1 /\ u[k] = e
          BY <1>a, <2>2, <2>5, <3>2, <4>2 DEF n
        <5> QED
          BY <2>5, <5>1 DEF Listed
      <4>3. CASE k > i
        <5>1. k - 1 \in 1 .. n - 1 /\ ~(k - 1 < i) /\ (k - 1) + 1 = k
          BY <1>a, <2>2, <4>3 DEF n
        <5>2. u[k - 1] = e
          BY <2>5, <3>2, <5>1
        <5> QED
          BY <2>5, <5>1, <5>2 DEF Listed
      <4> QED
        BY <2>2, <4>1, <4>2, <4>3
    <3> QED
      BY <2>5, <3>1, <3>2 DEF Listed, n
  <2> QED
    BY <1>a, <2>1, <2>2, <2>5, <2>6, <2>7 DEF u, n
<1> QED
  BY <1>1, <1>2

\* A new direction comes last, in the place of the oldest when there is none
\* left.
LEMMA TrackAdds ==
    ASSUME flowOrder \in Seq(Directions), Distinct(flowOrder), limits \in Limits,
           Len(flowOrder) <= Capacity, NEW d \in Directions
    PROVE  /\ Track(d) \in Seq(Directions)
           /\ Distinct(Track(d))
           /\ Len(Track(d)) <= Capacity
           /\ MustEvict(d) => /\ Head(flowOrder) \in Directions /\ Head(flowOrder) # d
                              /\ Listed(Head(flowOrder), flowOrder)
           /\ \A e \in Directions :
                  Listed(e, Track(d)) <=>
                      \/ e = d
                      \/ Listed(e, flowOrder) /\ ~(MustEvict(d) /\ e = Head(flowOrder))
<1> DEFINE n == Len(flowOrder)
<1>a. /\ n \in Nat /\ Capacity \in Nat \ {0}
      /\ \A j \in 1 .. n : flowOrder[j] \in Directions
      /\ Tracked(d) <=> Listed(d, flowOrder)
  BY LenProperties, ElementOfSeq, TokenAssumptions DEF Capacity, Listed, Tracked
<1>1. CASE Tracked(d)
  <2>1. Track(d) = flowOrder /\ ~MustEvict(d)
    BY <1>1 DEF Track, MustEvict
  <2> QED
    BY <1>1, <1>a, <2>1
<1>2. CASE ~Tracked(d)
  <2> DEFINE o == IF MustEvict(d) THEN Tail(flowOrder) ELSE flowOrder
             t == Track(d)
  <2>1. t = Append(o, d)
    BY <1>2 DEF Track
  <2>2. MustEvict(d) =>
            /\ flowOrder # <<>> /\ Head(flowOrder) = flowOrder[1] /\ 1 \in 1 .. n
            /\ Tail(flowOrder) \in Seq(Directions) /\ Len(Tail(flowOrder)) = n - 1
            /\ \A j \in 1 .. n - 1 : Tail(flowOrder)[j] = flowOrder[j + 1]
    <3> SUFFICES ASSUME MustEvict(d)
                 PROVE  /\ flowOrder # <<>> /\ Head(flowOrder) = flowOrder[1] /\ 1 \in 1 .. n
                        /\ Tail(flowOrder) \in Seq(Directions)
                        /\ Len(Tail(flowOrder)) = n - 1
                        /\ \A j \in 1 .. n - 1 : Tail(flowOrder)[j] = flowOrder[j + 1]
      OBVIOUS
    <3>1. n >= 1
      BY <1>a DEF MustEvict
    <3>2. flowOrder # <<>>
      BY <3>1, EmptySeq
    <3> QED
      BY <1>a, <3>1, <3>2, HeadTailProperties
  <2>3. /\ o \in Seq(Directions) /\ Len(o) < Capacity /\ Len(o) \in Nat
        /\ Distinct(o)
        /\ \A e \in Directions :
               Listed(e, o) <=> Listed(e, flowOrder) /\ ~(MustEvict(d) /\ e = Head(flowOrder))
    <3>1. CASE ~MustEvict(d)
      BY <1>2, <1>a, <3>1 DEF MustEvict
    <3>2. CASE MustEvict(d)
      <4>1. o = Tail(flowOrder) /\ Len(o) = n - 1 /\ n >= 1
            /\ \A j \in 1 .. n - 1 : o[j] = flowOrder[j + 1] /\ j + 1 \in 1 .. n
        BY <1>a, <2>2, <3>2
      <4> HIDE DEF o
      <4>2. Distinct(o)
        <5> SUFFICES ASSUME NEW j \in 1 .. Len(o), NEW k \in 1 .. Len(o), o[j] = o[k]
                     PROVE  j = k
          BY DEF Distinct
        <5>1. flowOrder[j + 1] = flowOrder[k + 1] /\ j + 1 \in 1 .. n /\ k + 1 \in 1 .. n
          BY <4>1
        <5>2. j + 1 = k + 1
          BY <5>1 DEF Distinct
        <5> QED
          BY <4>1, <5>2
      <4>3. ASSUME NEW e \in Directions
            PROVE  Listed(e, o) <=> Listed(e, flowOrder) /\ e # Head(flowOrder)
        <5>1. ASSUME NEW j \in 1 .. Len(o), o[j] = e
              PROVE  Listed(e, flowOrder) /\ e # Head(flowOrder)
          <6>1. flowOrder[j + 1] = e /\ j + 1 \in 1 .. n /\ j + 1 # 1
            BY <4>1, <5>1
          <6> QED
            BY <2>2, <3>2, <6>1 DEF Listed, Distinct
        <5>2. ASSUME NEW k \in 1 .. n, flowOrder[k] = e, e # Head(flowOrder)
              PROVE  Listed(e, o)
          <6>1. k # 1
            BY <2>2, <3>2, <5>2
          <6>2. k - 1 \in 1 .. Len(o) /\ (k - 1) + 1 = k
            BY <1>a, <4>1, <6>1
          <6>3. o[k - 1] = e
            BY <4>1, <5>2, <6>2
          <6> QED
            BY <6>2, <6>3 DEF Listed
        <5> QED
          BY <5>1, <5>2 DEF Listed
      <4>4. n <= Capacity
        OBVIOUS
      <4> QED
        BY <1>a, <2>2, <3>2, <4>1, <4>2, <4>3, <4>4
    <3> QED
      BY <3>1, <3>2
  <2> HIDE DEF o
  <2>4. /\ t \in Seq(Directions) /\ Len(t) = Len(o) + 1 /\ t[Len(o) + 1] = d
        /\ \A j \in 1 .. Len(o) : t[j] = o[j]
    BY <2>1, <2>3, AppendProperties
  <2> HIDE DEF t
  <2>5. ~Listed(d, o)
    BY <1>2, <1>a, <2>3
  <2>6. Distinct(t)
    BY <2>3, <2>4, <2>5 DEF Distinct, Listed
  <2>7. ASSUME NEW e \in Directions PROVE Listed(e, t) <=> e = d \/ Listed(e, o)
    <3>0. /\ Len(t) \in 1 .. Len(t) /\ t[Len(t)] = d
          /\ \A j \in 1 .. Len(t) : j = Len(t) \/ j \in 1 .. Len(o)
          /\ \A j \in 1 .. Len(o) : j \in 1 .. Len(t)
      BY <2>3, <2>4
    <3>1. ASSUME Listed(e, t) PROVE e = d \/ Listed(e, o)
      BY <2>4, <3>0, <3>1 DEF Listed
    <3>2. ASSUME e = d \/ Listed(e, o) PROVE Listed(e, t)
      BY <2>4, <3>0, <3>2 DEF Listed
    <3> QED
      BY <3>1, <3>2
  <2>8. MustEvict(d) => /\ Head(flowOrder) \in Directions /\ Head(flowOrder) # d
                        /\ Listed(Head(flowOrder), flowOrder)
    BY <1>2, <1>a, <2>2 DEF Listed
  <2>9. Len(t) <= Capacity
    BY <1>a, <2>3, <2>4
  <2> QED
    BY <2>3, <2>4, <2>6, <2>7, <2>8, <2>9 DEF t
<1> QED
  BY <1>1, <1>2

----------------------------------------------------------------------------
(* The worker.                                                             *)

\* The types of the worker's state.
WorkerTyped ==
    /\ limits \in Limits
    /\ tokenTable \in [Slots -> Tokens \cup {NoToken}]
    /\ flowOrder \in Seq(Directions)
    /\ refs \in [Tokens -> Nat]

\* What a worker step does to the declarations: those of `slots` go, and
\* `added`, if it is a token, is declared in the slot p instead of another.
Redeclare(slots, p, added) ==
    /\ p \in slots \/ added = NoToken
    /\ added # NoToken => tokenTable[p] # added
    /\ tokenTable' = [s \in Slots |->
           IF s \in slots THEN (IF s = p THEN added ELSE NoToken) ELSE tokenTable[s]]
    /\ Recount(slots, added)

\* What it does to the eviction order: the flows that leave it leave their
\* declarations, and a declaration is of a flow that stays.
Reorder(d, slots, added) ==
    \/ flowOrder' = Track(d) /\ EvictedSlots(d) \subseteq slots
    \/ /\ flowOrder' = Untrack(d, Track(d)) /\ added = NoToken
       /\ EvictedSlots(d) \cup SlotsOf(d) \subseteq slots
    \/ flowOrder' = Untrack(d, flowOrder) /\ added = NoToken /\ SlotsOf(d) \subseteq slots

\* Every step of the worker has this form.
LEMMA WorkerForm ==
    ASSUME WorkerTyped, FlowStateBounded, Worker
    PROVE  \E d \in Directions, slots \in SUBSET Slots, id \in Ids \cup {NoToken},
              added \in Tokens \cup {NoToken} :
               /\ Redeclare(slots, <<d, id>>, added)
               /\ Reorder(d, slots, added)
               /\ \/ UNCHANGED channel /\ added = NoToken
                  \/ Deliver(Report(d, slots, added))
               /\ UNCHANGED <<limits, clock>>
<1> DEFINE Form(d, slots, id, added) ==
               /\ slots \in SUBSET Slots
               /\ id \in Ids \cup {NoToken} /\ added \in Tokens \cup {NoToken}
               /\ Redeclare(slots, <<d, id>>, added)
               /\ Reorder(d, slots, added)
               /\ \/ UNCHANGED channel /\ added = NoToken
                  \/ Deliver(Report(d, slots, added))
               /\ UNCHANGED <<limits, clock>>
<1>a. PICK d \in Directions :
          \/ KeepAlive(d) \/ Close(d) \/ Reset(d) \/ Displace(d)
          \/ \E id \in limits.ids :
                \/ UndeclareToken(d, id)
                \/ \E t \in Tokens \cup {NoToken} : DeclareToken(d, id, t)
  BY DEF Worker
<1>b. /\ EvictedSlots(d) \in SUBSET Slots /\ SlotsOf(d) \in SUBSET Slots
      /\ \A id \in limits.ids : id \in Ids /\ <<d, id>> \in Slots
      /\ \A id \in Ids : <<d, id>> \notin EvictedSlots(d)
  <2>1. flowOrder \in Seq(Directions) /\ Distinct(flowOrder) /\ Len(flowOrder) <= Capacity
    BY DEF WorkerTyped, FlowStateBounded, Distinct
  <2>2. MustEvict(d) => Head(flowOrder) \in Directions /\ Head(flowOrder) # d
    BY <2>1, TrackAdds DEF WorkerTyped
  <2>3. limits.ids \subseteq Ids
    BY TokenAssumptions DEF WorkerTyped
  <2> QED
    BY <2>2, <2>3 DEF EvictedSlots, SlotsOf, Slots
<1>1. CASE KeepAlive(d)
  <2>1. Form(d, EvictedSlots(d), NoToken, NoToken)
    BY <1>1, <1>b DEF KeepAlive, RecountAndDeliver, Redeclare, Reorder, Cleared
  <2> QED
    BY <2>1
<1>2. CASE Close(d)
  <2>1. Form(d, EvictedSlots(d) \cup SlotsOf(d), NoToken, NoToken)
    BY <1>2, <1>b DEF Close, RecountAndDeliver, Redeclare, Reorder, Cleared
  <2> QED
    BY <2>1
<1>3. CASE Reset(d) \/ Displace(d)
  <2>1. Form(d, SlotsOf(d), NoToken, NoToken)
    BY <1>3, <1>b DEF Reset, Displace, DeliverIfAny, Redeclare, Reorder, Cleared
  <2> QED
    BY <2>1
<1>4. ASSUME NEW id \in limits.ids, UndeclareToken(d, id)
      PROVE  \E slots, i, added : Form(d, slots, i, added)
  <2>1. Form(d, EvictedSlots(d) \cup {<<d, id>>}, id, NoToken)
    BY <1>4, <1>b DEF UndeclareToken, RecountAndDeliver, Redeclare, Reorder, Cleared
  <2> QED
    BY <2>1
<1>5. ASSUME NEW id \in limits.ids, NEW t \in Tokens \cup {NoToken}, DeclareToken(d, id, t)
      PROVE  \E slots, i, added : Form(d, slots, i, added)
  <2>1. CASE tokenTable[<<d, id>>] = t
    <3>1. tokenTable' = Cleared(EvictedSlots(d))
      BY <1>5, <1>b, <2>1 DEF DeclareToken, Cleared
    <3>2. Form(d, EvictedSlots(d), id, NoToken)
      BY <1>5, <1>b, <2>1, <3>1
         DEF DeclareToken, RecountAndDeliver, Redeclare, Reorder, Cleared
    <3> QED
      BY <3>2
  <2>2. CASE tokenTable[<<d, id>>] # t
    <3> DEFINE slots == EvictedSlots(d) \cup {<<d, id>>}
    <3>1. tokenTable' = [s \in Slots |->
              IF s \in slots THEN (IF s = <<d, id>> THEN t ELSE NoToken) ELSE tokenTable[s]]
      BY <1>5, <1>b, <2>2 DEF DeclareToken, Cleared
    <3>2. Form(d, slots, id, t)
      BY <1>5, <1>b, <2>2, <3>1 DEF DeclareToken, RecountAndDeliver, Redeclare, Reorder
    <3> QED
      BY <3>2
  <2> QED
    BY <2>1, <2>2
<1> QED
  BY <1>a, <1>1, <1>2, <1>3, <1>4, <1>5

\* Declarations can be counted.
LEMMA SlotsFinite == IsFiniteSet(Slots)
BY TokenAssumptions, FS_Product DEF Slots

\* The declarations that are left of a token when those of `slots` go.
LEMMA LeftCounts ==
    ASSUME WorkerTyped, RefCountsExact, NEW slots \in SUBSET Slots, NEW k \in Tokens
    PROVE  /\ Left(slots, k) = Cardinality({s \in Slots \ slots : tokenTable[s] = k})
           /\ Left(slots, k) \in Nat
           /\ Left(slots, k) = 0 <=> \A s \in Slots \ slots : tokenTable[s] # k
<1> DEFINE all == {s \in Slots : tokenTable[s] = k}
           rest == {s \in Slots \ slots : tokenTable[s] = k}
           gone == {s \in slots : tokenTable[s] = k}
<1>1. IsFiniteSet(all) /\ IsFiniteSet(rest) /\ IsFiniteSet(gone)
  <2>1. all \in SUBSET Slots /\ rest \in SUBSET Slots /\ gone \in SUBSET Slots
    OBVIOUS
  <2> HIDE DEF all, rest, gone
  <2> QED
    BY <2>1, SlotsFinite, FS_Subset
<1>2. rest = all \ gone /\ all \cap gone = gone
  OBVIOUS
<1>3. Left(slots, k) = Cardinality(all) - Cardinality(gone)
  BY DEF Left, RefCountsExact
<1>4. Cardinality(all \ gone) = Cardinality(all) - Cardinality(all \cap gone)
  <2> HIDE DEF all, gone
  <2> QED
    BY <1>1, FS_Difference
<1>5. Cardinality(rest) \in Nat /\ (Cardinality(rest) = 0 <=> rest = {})
  <2> HIDE DEF rest
  <2> QED
    BY <1>1, FS_CardinalityType, FS_EmptySet
<1> QED
  BY <1>2, <1>3, <1>4, <1>5

\* The counts follow the declarations.
LEMMA RedeclareExact ==
    ASSUME WorkerTyped, RefCountsExact, NEW slots \in SUBSET Slots, NEW p,
           NEW added \in Tokens \cup {NoToken}, Redeclare(slots, p, added)
    PROVE  /\ tokenTable' \in [Slots -> Tokens \cup {NoToken}]
           /\ refs' \in [Tokens -> Nat]
           /\ RefCountsExact'
<1>1. tokenTable' = [s \in Slots |->
          IF s \in slots THEN (IF s = p THEN added ELSE NoToken) ELSE tokenTable[s]]
      /\ refs' = [k \in Tokens |-> Left(slots, k) + (IF k = added THEN 1 ELSE 0)]
      /\ (p \in slots \/ added = NoToken) /\ NoToken \notin Tokens
  BY TokenAssumptions DEF Redeclare, Recount
<1>2. tokenTable' \in [Slots -> Tokens \cup {NoToken}]
  BY <1>1 DEF WorkerTyped
<1>3. ASSUME NEW k \in Tokens
      PROVE  refs'[k] = Cardinality({s \in Slots : tokenTable'[s] = k}) /\ refs'[k] \in Nat
  <2> DEFINE rest == {s \in Slots \ slots : tokenTable[s] = k}
             after == {s \in Slots : tokenTable'[s] = k}
  <2>1. Left(slots, k) = Cardinality(rest) /\ Left(slots, k) \in Nat
    BY LeftCounts
  <2>2. ASSUME k = added PROVE refs'[k] = Cardinality(after) /\ refs'[k] \in Nat
    <3>1. after = rest \cup {p} /\ p \notin rest
      BY <1>1, <2>2
    <3>2. IsFiniteSet(rest)
      BY SlotsFinite, FS_Subset
    <3>3. Cardinality(rest \cup {p}) = Cardinality(rest) + 1
      <4>1. p \notin rest
        BY <3>1
      <4> HIDE DEF rest
      <4> QED
        BY <3>2, <4>1, FS_AddElement
    <3>4. after = rest \cup {p}
      BY <3>1
    <3>5. refs'[k] = Left(slots, k) + 1
      BY <1>1, <2>2
    <3> HIDE DEF after, rest
    <3> QED
      BY <2>1, <3>3, <3>4, <3>5
  <2>3. ASSUME k # added PROVE refs'[k] = Cardinality(after) /\ refs'[k] \in Nat
    <3>1. after = rest
      BY <1>1, <2>3
    <3>2. refs'[k] = Left(slots, k)
      BY <1>1, <2>1, <2>3
    <3> HIDE DEF after, rest
    <3> QED
      BY <2>1, <3>1, <3>2
  <2>4. refs'[k] = Cardinality(after) /\ refs'[k] \in Nat
    BY <2>2, <2>3
  <2> QED
    BY <2>4
<1> QED
  BY <1>1, <1>2, <1>3 DEF RefCountsExact

\* Only listed directions keep declarations.
LEMMA ReorderBounded ==
    ASSUME WorkerTyped, FlowStateBounded, UNCHANGED limits,
           NEW d \in Directions, NEW slots \in SUBSET Slots, NEW id,
           NEW added \in Tokens \cup {NoToken},
           Redeclare(slots, <<d, id>>, added), Reorder(d, slots, added)
    PROVE  flowOrder' \in Seq(Directions) /\ FlowStateBounded'
<1>a. /\ flowOrder \in Seq(Directions) /\ Distinct(flowOrder) /\ Len(flowOrder) <= Capacity
      /\ \A s \in Slots : tokenTable[s] # NoToken => Listed(s[1], flowOrder)
  BY DEF WorkerTyped, FlowStateBounded, Distinct, Listed, Tracked
<1>b. tokenTable' = [s \in Slots |->
          IF s \in slots THEN (IF s = <<d, id>> THEN added ELSE NoToken) ELSE tokenTable[s]]
  BY DEF Redeclare
<1> DEFINE t == Track(d)
<1>c. /\ t \in Seq(Directions) /\ Distinct(t) /\ Len(t) <= Capacity
      /\ \A e \in Directions : Listed(e, t) <=>
             \/ e = d
             \/ Listed(e, flowOrder) /\ ~(MustEvict(d) /\ e = Head(flowOrder))
  BY <1>a, TrackAdds DEF WorkerTyped
<1>d. \A s \in Slots : s[1] \in Directions /\ s[2] \in Ids /\ s = <<s[1], s[2]>>
  BY DEF Slots
<1>e. Len(flowOrder) \in Nat /\ Len(t) \in Nat /\ Capacity \in Nat
  BY <1>a, <1>c, LenProperties, TokenAssumptions DEF Capacity, WorkerTyped
<1> HIDE DEF t
\* It suffices that the new order lists every direction that keeps one.
<1>1. ASSUME flowOrder' \in Seq(Directions), Distinct(flowOrder'), Len(flowOrder') <= Capacity,
             \A s \in Slots : tokenTable'[s] # NoToken => Listed(s[1], flowOrder')
      PROVE  FlowStateBounded'
  BY <1>1 DEF FlowStateBounded, Distinct, Listed, Tracked, Capacity
<1>2. CASE flowOrder' = Track(d) /\ EvictedSlots(d) \subseteq slots
  <2>1. ASSUME NEW s \in Slots, tokenTable'[s] # NoToken PROVE Listed(s[1], flowOrder')
    <3>1. CASE s \in slots
      <4>1. s = <<d, id>>
        BY <1>b, <2>1, <3>1
      <4>2. s[1] = d
        BY <4>1
      <4>3. Listed(d, t)
        BY <1>c
      <4>4. flowOrder' = t
        BY <1>2 DEF t
      <4> QED
        BY <4>2, <4>3, <4>4
    <3>2. CASE s \notin slots
      <4>1. Listed(s[1], flowOrder) /\ s \notin EvictedSlots(d)
        BY <1>2, <1>a, <1>b, <2>1, <3>2
      <4>2. ~(MustEvict(d) /\ s[1] = Head(flowOrder))
        BY <1>d, <4>1 DEF EvictedSlots, SlotsOf
      <4> QED
        BY <1>2, <1>c, <1>d, <4>1, <4>2 DEF t
    <3> QED
      BY <3>1, <3>2
  <2> QED
    BY <1>1, <1>2, <1>c, <2>1 DEF t
<1>3. CASE /\ flowOrder' = Untrack(d, Track(d)) /\ added = NoToken
           /\ EvictedSlots(d) \cup SlotsOf(d) \subseteq slots
  <2>1. /\ flowOrder' \in Seq(Directions) /\ Distinct(flowOrder') /\ Len(flowOrder') <= Len(t)
        /\ \A e \in Directions : Listed(e, flowOrder') <=> Listed(e, t) /\ e # d
    <3>1. flowOrder' = Untrack(d, t)
      BY <1>3 DEF t
    <3> QED
      BY <1>c, <3>1, UntrackDrops
  <2>2. ASSUME NEW s \in Slots, tokenTable'[s] # NoToken PROVE Listed(s[1], flowOrder')
    <3>1. s \notin slots /\ tokenTable[s] # NoToken
      BY <1>3, <1>b, <2>2
    <3>2. s[1] # d /\ ~(MustEvict(d) /\ s[1] = Head(flowOrder))
      BY <1>3, <1>d, <3>1 DEF EvictedSlots, SlotsOf
    <3> QED
      BY <1>a, <1>c, <1>d, <2>1, <3>1, <3>2
  <2>3. Len(flowOrder') <= Capacity
    BY <1>c, <1>e, <2>1, LenProperties
  <2> QED
    BY <1>1, <2>1, <2>2, <2>3
<1>4. CASE flowOrder' = Untrack(d, flowOrder) /\ added = NoToken /\ SlotsOf(d) \subseteq slots
  <2>1. /\ flowOrder' \in Seq(Directions) /\ Distinct(flowOrder')
        /\ Len(flowOrder') <= Len(flowOrder)
        /\ \A e \in Directions : Listed(e, flowOrder') <=> Listed(e, flowOrder) /\ e # d
    BY <1>4, <1>a, UntrackDrops
  <2>2. ASSUME NEW s \in Slots, tokenTable'[s] # NoToken PROVE Listed(s[1], flowOrder')
    <3>1. s \notin slots /\ tokenTable[s] # NoToken
      BY <1>4, <1>b, <2>2
    <3>2. s[1] # d
      BY <1>4, <1>d, <3>1 DEF SlotsOf
    <3> QED
      BY <1>a, <1>d, <2>1, <3>1, <3>2
  <2>3. Len(flowOrder') <= Capacity
    BY <1>a, <1>e, <2>1, LenProperties
  <2> QED
    BY <1>1, <2>1, <2>2, <2>3
<1> QED
  BY <1>2, <1>3, <1>4, <1>c, <1>a, UntrackDrops DEF Reorder, t

\* The worker keeps its counts and its bounded table.
LEMMA WorkerKeepsExact ==
    ASSUME WorkerTyped, WorkerExact, Worker PROVE WorkerTyped' /\ WorkerExact'
<1>1. PICK d \in Directions, slots \in SUBSET Slots, id \in Ids \cup {NoToken},
           added \in Tokens \cup {NoToken} :
               /\ Redeclare(slots, <<d, id>>, added)
               /\ Reorder(d, slots, added)
               /\ UNCHANGED limits
  BY WorkerForm DEF WorkerExact
<1>2. /\ tokenTable' \in [Slots -> Tokens \cup {NoToken}] /\ refs' \in [Tokens -> Nat]
      /\ RefCountsExact'
  BY <1>1, RedeclareExact DEF WorkerExact
<1>3. flowOrder' \in Seq(Directions) /\ FlowStateBounded'
  BY <1>1, ReorderBounded DEF WorkerExact
<1> QED
  BY <1>1, <1>2, <1>3 DEF WorkerTyped, WorkerExact

----------------------------------------------------------------------------
(* The graph's operations.                                                 *)

\* The tokens that some flow holds.
Held(G) == {k \in Tokens : G.entities[k] # {}}

\* MirrorExact, NodesExact and TablesExact for any graph.
Mirrored(G) ==
    /\ \A f \in Flows, k \in Tokens : k \in G.flowEntities[f] <=> f \in G.entities[k]
    /\ \A f \in Flows : G.lastSeen[f] = NoTime <=> G.flowEntities[f] = {}

NodesHeld(G) ==
    /\ \A n \in Nodes : n \in G.nodes <=> \E k \in Held(G) : NodeOf[k] = n
    /\ \A n \in Nodes : n \in G.alive <=> \E k \in Held(G) \cap NodeTokens : NodeOf[k] = n
    /\ \A n \in Nodes, k \in Endpoints : k \in G.ends[n] <=> k \in Held(G) /\ NodeOf[k] = n

TablesHeld(G) ==
    /\ G.participants = G.nodes /\ G.inTable = G.nodes
    /\ \A n \in G.nodes : G.nodeTable[n] = G.ends[n]
    /\ \A k \in Endpoints : G.deadline[k] # NoTime <=> G.entities[k] # {}

Exact(G) == G \in Graph /\ Mirrored(G) /\ NodesHeld(G) /\ TablesHeld(G)

\* The properties of the runs are those of the graph of the state.
LEMMA ExactProperties ==
    ASSUME g \in Graph
    PROVE  Exact(g) <=> MirrorExact /\ NodesExact /\ TablesExact
<1>1. Mirrored(g) <=> MirrorExact
  BY DEF Mirrored, MirrorExact, Graph
<1>2. NodesHeld(g) <=> NodesExact
  <2>1. /\ g.nodes \subseteq Nodes /\ g.alive \subseteq Nodes
        /\ g.ends \in [Nodes -> SUBSET Endpoints]
        /\ \A k \in Tokens : NodeOf[k] \in Nodes
    BY GraphAssumptions DEF Graph
  <2>2. g.nodes = NodesOf(Held(g)) <=>
            \A n \in Nodes : n \in g.nodes <=> \E k \in Held(g) : NodeOf[k] = n
    BY <2>1 DEF NodesOf, Held
  <2>3. g.alive = NodesOf(Held(g) \cap NodeTokens) <=>
            \A n \in Nodes : n \in g.alive <=> \E k \in Held(g) \cap NodeTokens : NodeOf[k] = n
    BY <2>1 DEF NodesOf, Held
  <2>4. (\A n \in Nodes : g.ends[n] = {k \in Held(g) \cap Endpoints : NodeOf[k] = n}) <=>
            \A n \in Nodes, k \in Endpoints : k \in g.ends[n] <=> k \in Held(g) /\ NodeOf[k] = n
    BY <2>1
  <2>5. NodesExact <=> /\ g.nodes = NodesOf(Held(g))
                       /\ g.alive = NodesOf(Held(g) \cap NodeTokens)
                       /\ \A n \in Nodes : g.ends[n] = {k \in Held(g) \cap Endpoints : NodeOf[k] = n}
    BY DEF NodesExact, Held
  <2> QED
    BY <2>2, <2>3, <2>4, <2>5 DEF NodesHeld
<1>3. TablesHeld(g) <=> TablesExact
  BY DEF TablesHeld, TablesExact
<1> QED
  BY <1>1, <1>2, <1>3 DEF Exact

\* What the constants are.
LEMMA Sorts ==
    /\ Endpoints = Tokens \ NodeTokens /\ NodeTokens \subseteq Tokens
    /\ \A k \in Tokens : NodeOf[k] \in Nodes
    /\ Active \in Flows /\ Directions \subseteq Flows /\ Active \notin Directions
    /\ NoTime \notin Times /\ NoTime \notin 0 .. MaxTime + Ttl
    /\ \A at \in Times : at + Ttl \in 0 .. MaxTime + Ttl /\ at + Ttl # NoTime
BY GraphAssumptions, TokenAssumptions DEF Endpoints, Flows, Times

\* What upsert_zenoh_node_sample leaves alone.
LEMMA UpsertNodesFields ==
    ASSUME NEW G \in Graph, NEW ns \in SUBSET Nodes
    PROVE  LET R == UpsertNodes(G, ns) IN
           /\ R \in Graph
           /\ R.entities = G.entities /\ R.flowEntities = G.flowEntities
           /\ R.lastSeen = G.lastSeen /\ R.nodes = G.nodes /\ R.alive = G.alive
           /\ R.ends = G.ends /\ R.participants = G.participants
           /\ R.deadline = G.deadline
           /\ \A n \in Nodes : R.nodeTable[n] = IF n \in ns THEN G.ends[n] ELSE G.nodeTable[n]
           /\ R.inTable = G.inTable \cup ns
BY DEF Graph, UpsertNodes

\* A sign of life of a flow changes only its time.
LEMMA TouchFlowExact ==
    ASSUME NEW G, Exact(G), NEW f \in Flows, NEW at \in Times
    PROVE  Exact(TouchFlow(G, f, at)) /\ TouchFlow(G, f, at).entities = G.entities
<1> DEFINE R == TouchFlow(G, f, at)
<1>1. CASE G.flowEntities[f] = {}
  BY <1>1 DEF TouchFlow
<1>2. CASE G.flowEntities[f] # {}
  <2>1. R = [G EXCEPT !.lastSeen = [G.lastSeen EXCEPT ![f] = at]] /\ G \in Graph
    BY <1>2 DEF TouchFlow, Exact
  <2>2. /\ R \in Graph /\ R.lastSeen = [G.lastSeen EXCEPT ![f] = at]
        /\ R.entities = G.entities /\ R.flowEntities = G.flowEntities
        /\ R.nodes = G.nodes /\ R.alive = G.alive /\ R.ends = G.ends
        /\ R.participants = G.participants /\ R.deadline = G.deadline
        /\ R.nodeTable = G.nodeTable /\ R.inTable = G.inTable
    <3> DEFINE seen == [G.lastSeen EXCEPT ![f] = at]
    <3>1. seen \in [Flows -> Times \cup {NoTime}]
      BY <2>1 DEF Graph
    <3>2. R = [G EXCEPT !.lastSeen = seen]
      BY <2>1
    <3> HIDE DEF seen, R
    <3>3. /\ R \in Graph /\ R.lastSeen = seen
          /\ R.entities = G.entities /\ R.flowEntities = G.flowEntities
          /\ R.nodes = G.nodes /\ R.alive = G.alive /\ R.ends = G.ends
          /\ R.participants = G.participants /\ R.deadline = G.deadline
          /\ R.nodeTable = G.nodeTable /\ R.inTable = G.inTable
      BY <2>1, <3>1, <3>2 DEF Graph
    <3> QED
      BY <3>3 DEF seen
  <2> HIDE DEF R
  <2>3. \A e \in Flows : R.lastSeen[e] = IF e = f THEN at ELSE G.lastSeen[e]
    BY <2>1, <2>2 DEF Graph
  <2>4. Mirrored(R)
    BY <1>2, <2>2, <2>3, Sorts DEF Mirrored, Exact
  <2>5. NodesHeld(R) /\ TablesHeld(R)
    BY <2>2 DEF NodesHeld, TablesHeld, Held, Exact
  <2> QED
    BY <2>2, <2>4, <2>5 DEF Exact, R
<1> QED
  BY <1>1, <1>2

\* The flows F of the token k when the flow f gives up, or announces, the
\* tokens ks.
Without(F, k, f, ks) == IF k \in ks THEN F \ {f} ELSE F
With(F, k, f, ks) == IF k \in ks THEN F \cup {f} ELSE F

\* A flow announces tokens that it may have announced before.
LEMMA InsertEntitiesExact ==
    ASSUME NEW G, Exact(G), NEW f \in Flows, NEW ks \in SUBSET Tokens, NEW at \in Times
    PROVE  /\ Exact(InsertEntities(G, f, ks, at))
           /\ \A k \in Tokens : InsertEntities(G, f, ks, at).entities[k] =
                  With(G.entities[k], k, f, ks)
<1> DEFINE R == InsertEntities(G, f, ks, at)
<1>1. CASE ks = {}
  BY <1>1 DEF InsertEntities, With
<1>2. CASE ks # {}
  <2> DEFINE new == {k \in ks : f \notin G.entities[k]}
             first == {k \in new : G.entities[k] = {}}
             ends == [n \in Nodes |-> G.ends[n] \cup {k \in new \cap Endpoints : NodeOf[k] = n}]
             changed == {n \in Nodes : ends[n] # G.ends[n]}
                           \cup (NodesOf(new \cap NodeTokens) \ G.alive)
             ents == [k \in Tokens |-> IF k \in ks THEN G.entities[k] \cup {f}
                                                   ELSE G.entities[k]]
             due == [k \in Endpoints |->
                       IF \/ k \in first \/ (k \in new /\ G.deadline[k] = NoTime)
                          \/ G.deadline[k] # NoTime /\ NodeOf[k] \in NodesOf(first)
                       THEN at + Ttl ELSE G.deadline[k]]
             H == [G EXCEPT
                     !.entities = ents,
                     !.flowEntities = [G.flowEntities EXCEPT ![f] = G.flowEntities[f] \cup ks],
                     !.lastSeen = [G.lastSeen EXCEPT ![f] = at],
                     !.nodes = G.nodes \cup NodesOf(new),
                     !.alive = G.alive \cup NodesOf(new \cap NodeTokens),
                     !.ends = ends,
                     !.participants = G.participants \cup NodesOf(first),
                     !.deadline = due]
  <2>a. G \in Graph /\ Mirrored(G) /\ NodesHeld(G) /\ TablesHeld(G)
    BY DEF Exact
  <2>b. \A n \in Nodes, S \in SUBSET Tokens : n \in NodesOf(S) <=> \E k \in S : NodeOf[k] = n
    BY DEF NodesOf
  <2>c. /\ new \in SUBSET Tokens /\ first \in SUBSET Tokens
        /\ new \cap NodeTokens \in SUBSET Tokens
        /\ \A S \in SUBSET Tokens : NodesOf(S) \in SUBSET Nodes
    BY Sorts DEF NodesOf
  <2>1. R = UpsertNodes(H, changed)
    BY <1>2, <2>a DEF InsertEntities, Graph
  <2>2. /\ ents \in [Tokens -> SUBSET Flows] /\ ends \in [Nodes -> SUBSET Endpoints]
        /\ due \in [Endpoints -> (0 .. MaxTime + Ttl) \cup {NoTime}]
    <3>1. ents \in [Tokens -> SUBSET Flows]
      BY <2>a DEF Graph
    <3>2. ends \in [Nodes -> SUBSET Endpoints]
      BY <2>a DEF Graph
    <3>3. due \in [Endpoints -> (0 .. MaxTime + Ttl) \cup {NoTime}]
      BY <2>a, Sorts DEF Graph
    <3> QED
      BY <3>1, <3>2, <3>3
  <2>3. changed \in SUBSET Nodes
    BY <2>c
  <2>d. /\ \A k \in Tokens : k \in new <=> k \in ks /\ f \notin G.entities[k]
        /\ \A k \in Tokens : k \in first <=> k \in new /\ G.entities[k] = {}
        /\ \A n \in Nodes : n \in changed <=>
               ends[n] # G.ends[n] \/ (n \in NodesOf(new \cap NodeTokens) /\ n \notin G.alive)
        /\ \A k \in Tokens : ents[k] = IF k \in ks THEN G.entities[k] \cup {f} ELSE G.entities[k]
        /\ \A n \in Nodes, k \in Endpoints :
               k \in ends[n] <=> k \in G.ends[n] \/ (k \in new /\ NodeOf[k] = n)
        /\ \A k \in Endpoints :
               due[k] = IF \/ k \in first \/ (k \in new /\ G.deadline[k] = NoTime)
                           \/ G.deadline[k] # NoTime /\ NodeOf[k] \in NodesOf(first)
                        THEN at + Ttl ELSE G.deadline[k]
    BY <2>a, <2>c, <2>3 DEF Graph
  <2> HIDE DEF new, first, ends, changed, ents, due
  <2>4. /\ H \in Graph
        /\ H.entities = ents /\ H.nodes = G.nodes \cup NodesOf(new)
        /\ H.flowEntities = [G.flowEntities EXCEPT ![f] = G.flowEntities[f] \cup ks]
        /\ H.lastSeen = [G.lastSeen EXCEPT ![f] = at]
        /\ H.alive = G.alive \cup NodesOf(new \cap NodeTokens) /\ H.ends = ends
        /\ H.participants = G.participants \cup NodesOf(first) /\ H.deadline = due
        /\ H.nodeTable = G.nodeTable /\ H.inTable = G.inTable
    BY <2>a, <2>c, <2>2 DEF Graph
  <2> HIDE DEF H
  <2>5. /\ R \in Graph
        /\ R.entities = ents /\ R.nodes = G.nodes \cup NodesOf(new)
        /\ \A e \in Flows : R.flowEntities[e] = IF e = f THEN G.flowEntities[f] \cup ks
                                                         ELSE G.flowEntities[e]
        /\ \A e \in Flows : R.lastSeen[e] = IF e = f THEN at ELSE G.lastSeen[e]
        /\ R.alive = G.alive \cup NodesOf(new \cap NodeTokens) /\ R.ends = ends
        /\ R.participants = G.participants \cup NodesOf(first) /\ R.deadline = due
        /\ \A n \in Nodes : R.nodeTable[n] = IF n \in changed THEN ends[n] ELSE G.nodeTable[n]
        /\ R.inTable = G.inTable \cup changed
    <3> HIDE DEF R
    <3>1. /\ R \in Graph
          /\ R.entities = H.entities /\ R.flowEntities = H.flowEntities
          /\ R.lastSeen = H.lastSeen /\ R.nodes = H.nodes /\ R.alive = H.alive
          /\ R.ends = H.ends /\ R.participants = H.participants
          /\ R.deadline = H.deadline
          /\ \A n \in Nodes : R.nodeTable[n] = IF n \in changed THEN H.ends[n] ELSE H.nodeTable[n]
          /\ R.inTable = H.inTable \cup changed
      <4>1. H \in Graph
        BY <2>4
      <4> QED
        BY <2>1, <2>3, <4>1, UpsertNodesFields
    <3>2. /\ G.flowEntities \in [Flows -> SUBSET Tokens]
          /\ G.lastSeen \in [Flows -> Times \cup {NoTime}]
      BY <2>a DEF Graph
    <3> QED
      BY <2>4, <3>1, <3>2
  <2> HIDE DEF R
  <2>e. /\ \A k \in Tokens : k \in Held(R) <=> k \in Held(G) \/ k \in ks
        /\ \A k \in Tokens : k \in ks => k \in new \/ k \in Held(G)
        /\ \A k \in new : k \in Tokens /\ k \in ks
    <3>1. \A k \in Tokens : R.entities[k] = IF k \in ks THEN G.entities[k] \cup {f} ELSE G.entities[k]
      BY <2>d, <2>5
    <3>2. \A k \in Tokens : k \in new <=> k \in ks /\ f \notin G.entities[k]
      BY <2>d
    <3> QED
      BY <2>c, <3>1, <3>2 DEF Held
  <2>6. Mirrored(R)
    <3>1. ASSUME NEW e \in Flows, NEW k \in Tokens
          PROVE  k \in R.flowEntities[e] <=> e \in R.entities[k]
      <4>1. R.entities[k] = IF k \in ks THEN G.entities[k] \cup {f} ELSE G.entities[k]
        BY <2>d, <2>5
      <4>2. R.flowEntities[e] = IF e = f THEN G.flowEntities[f] \cup ks ELSE G.flowEntities[e]
        BY <2>5
      <4> QED
        BY <2>a, <4>1, <4>2 DEF Mirrored
    <3>2. \A e \in Flows : R.lastSeen[e] = NoTime <=> R.flowEntities[e] = {}
      BY <1>2, <2>a, <2>5, Sorts DEF Mirrored
    <3> QED
      BY <3>1, <3>2 DEF Mirrored
  <2>7. NodesHeld(R)
    <3>1. \A n \in Nodes : n \in R.nodes <=> \E k \in Held(R) : NodeOf[k] = n
      BY <2>a, <2>b, <2>c, <2>e, <2>5 DEF NodesHeld, Held
    <3>2. \A n \in Nodes : n \in R.alive <=> \E k \in Held(R) \cap NodeTokens : NodeOf[k] = n
      BY <2>a, <2>b, <2>c, <2>e, <2>5 DEF NodesHeld, Held
    <3>3. \A n \in Nodes, k \in Endpoints : k \in R.ends[n] <=> k \in Held(R) /\ NodeOf[k] = n
      BY <2>a, <2>d, <2>e, <2>5, Sorts DEF NodesHeld, Held
    <3> QED
      BY <3>1, <3>2, <3>3 DEF NodesHeld
  <2>8. TablesHeld(R)
    <3>a. G.nodes \in SUBSET Nodes /\ G.alive \in SUBSET Nodes /\ G.participants = G.nodes
          /\ G.inTable = G.nodes
      BY <2>a DEF Graph, TablesHeld
    <3>b. \A n \in Nodes : (\E k \in Held(G) : NodeOf[k] = n) => n \in G.nodes
      BY <2>a DEF NodesHeld
    <3>1. R.participants = R.nodes
      <4>1. \A n \in Nodes : n \in NodesOf(first) => n \in NodesOf(new)
        BY <2>b, <2>c, <2>d
      <4>2. \A n \in Nodes : n \in NodesOf(new) => n \in NodesOf(first) \/ n \in G.nodes
        BY <2>b, <2>c, <2>d, <3>b DEF Held
      <4>3. NodesOf(first) \in SUBSET Nodes /\ NodesOf(new) \in SUBSET Nodes
        BY <2>c
      <4> QED
        BY <2>5, <3>a, <4>1, <4>2, <4>3
    <3>2. R.inTable = R.nodes
      <4>1. ASSUME NEW n \in Nodes, n \in changed PROVE n \in G.nodes \cup NodesOf(new)
        <5>1. CASE ends[n] # G.ends[n]
          <6>1. ends[n] \in SUBSET Endpoints /\ G.ends[n] \in SUBSET Endpoints
            BY <2>a, <2>2 DEF Graph
          <6>2. \A k \in Endpoints : k \in ends[n] <=> k \in G.ends[n] \/ (k \in new /\ NodeOf[k] = n)
            BY <2>d
          <6>3. \E k \in Endpoints : k \in new /\ NodeOf[k] = n
            BY <5>1, <6>1, <6>2
          <6> QED
            BY <2>b, <2>c, <6>3
        <5>2. CASE n \in NodesOf(new \cap NodeTokens)
          BY <2>b, <2>c, <5>2
        <5> QED
          BY <2>d, <4>1, <5>1, <5>2
      <4>2. ASSUME NEW n \in Nodes, n \in NodesOf(new), n \notin G.nodes PROVE n \in changed
        <5>1. PICK k \in new : NodeOf[k] = n
          BY <2>b, <2>c, <4>2
        <5>2. k \in Tokens /\ k \notin Held(G)
          BY <2>e, <3>b, <4>2, <5>1
        <5>3. CASE k \in NodeTokens
          <6>1. n \in NodesOf(new \cap NodeTokens)
            BY <2>b, <2>c, <5>1, <5>3
          <6>2. n \notin G.alive
            BY <2>a, <4>2 DEF NodesHeld
          <6> QED
            BY <2>d, <6>1, <6>2
        <5>4. CASE k \in Endpoints
          <6>1. k \in ends[n] /\ k \notin G.ends[n]
            BY <2>a, <2>d, <5>1, <5>2, <5>4 DEF NodesHeld
          <6> QED
            BY <2>d, <6>1
        <5> QED
          BY <5>2, <5>3, <5>4, Sorts
      <4>3. changed \in SUBSET Nodes /\ NodesOf(new) \in SUBSET Nodes
        BY <2>3, <2>c
      <4> QED
        BY <2>5, <3>a, <4>1, <4>2, <4>3
    <3>3. \A n \in R.nodes : R.nodeTable[n] = R.ends[n]
      <4>1. R.nodes \in SUBSET Nodes
        BY <2>c, <2>5, <3>a
      <4>2. ASSUME NEW n \in R.nodes, n \notin changed PROVE n \in G.nodes
        BY <2>5, <3>2, <3>a, <4>2
      <4>3. \A n \in G.nodes : G.nodeTable[n] = G.ends[n]
        BY <2>a DEF TablesHeld
      <4>4. \A n \in Nodes : n \notin changed => ends[n] = G.ends[n]
        BY <2>d
      <4> QED
        BY <2>5, <4>1, <4>2, <4>3, <4>4
    <3>4. ASSUME NEW k \in Endpoints PROVE R.deadline[k] # NoTime <=> R.entities[k] # {}
      <4>1. R.deadline[k] = IF \/ k \in first \/ (k \in new /\ G.deadline[k] = NoTime)
                               \/ G.deadline[k] # NoTime /\ NodeOf[k] \in NodesOf(first)
                            THEN at + Ttl ELSE G.deadline[k]
        BY <2>d, <2>5
      <4>2. k \in Tokens /\ at + Ttl # NoTime /\ (G.deadline[k] # NoTime <=> G.entities[k] # {})
        BY <2>a, Sorts DEF TablesHeld
      <4>3. k \in Held(R) <=> k \in Held(G) \/ k \in ks
        BY <2>e, <4>2
      <4>4. /\ k \in new <=> k \in ks /\ f \notin G.entities[k]
            /\ k \in first <=> k \in new /\ G.entities[k] = {}
        BY <2>d, <4>2
      <4> QED
        BY <4>1, <4>2, <4>3, <4>4 DEF Held
    <3> QED
      BY <3>1, <3>2, <3>3, <3>4 DEF TablesHeld
  <2> QED
    BY <2>d, <2>5, <2>6, <2>7, <2>8 DEF Exact, With, R
<1> QED
  BY <1>1, <1>2

\* References go from a graph whose flows may already have forgotten them.
LEMMA RemoveRefsExact ==
    ASSUME NEW G \in Graph, NodesHeld(G), TablesHeld(G), NEW pairs \in SUBSET (Flows \X Tokens),
           \A f \in Flows, k \in Tokens :
               /\ k \in G.flowEntities[f] => f \in G.entities[k]
               /\ f \in G.entities[k] /\ <<f, k>> \notin pairs => k \in G.flowEntities[f],
           \A f \in Flows : G.lastSeen[f] = NoTime <=> G.flowEntities[f] = {}
    PROVE  /\ Exact(RemoveRefs(G, pairs))
           /\ \A k \in Tokens : RemoveRefs(G, pairs).entities[k] =
                  {f \in G.entities[k] : <<f, k>> \notin pairs}
<1> DEFINE R == RemoveRefs(G, pairs)
           hit == {p \in pairs : p[1] \in G.entities[p[2]]}
           left == [k \in Tokens |-> {f \in G.entities[k] : <<f, k>> \notin hit}]
           final == {k \in Tokens : G.entities[k] # {} /\ left[k] = {}}
           alive == G.alive \ NodesOf(final \cap NodeTokens)
           ends == [n \in Nodes |-> G.ends[n] \ final]
           touched == NodesOf(final) \cap G.nodes
           empty == EmptyNodes(touched, alive, ends)
           doomed == {k \in Endpoints : k \in final \/ NodeOf[k] \in empty}
           stay == [f \in Flows |-> {k \in G.flowEntities[f] : <<f, k>> \notin hit}]
           seen == [f \in Flows |-> IF G.flowEntities[f] # {} /\ stay[f] = {}
                                    THEN NoTime ELSE G.lastSeen[f]]
           due == [k \in Endpoints |-> IF k \in doomed THEN NoTime ELSE G.deadline[k]]
           H == [G EXCEPT !.flowEntities = stay, !.lastSeen = seen,
                          !.entities = left, !.alive = alive, !.ends = ends,
                          !.nodes = G.nodes \ empty, !.participants = G.participants \ empty,
                          !.deadline = due]
           U == UpsertNodes(H, touched \ empty)
<1>a. /\ G.entities \in [Tokens -> SUBSET Flows]
      /\ G.flowEntities \in [Flows -> SUBSET Tokens]
      /\ G.lastSeen \in [Flows -> Times \cup {NoTime}]
      /\ G.nodes \in SUBSET Nodes /\ G.alive \in SUBSET Nodes
      /\ G.ends \in [Nodes -> SUBSET Endpoints]
      /\ G.deadline \in [Endpoints -> (0 .. MaxTime + Ttl) \cup {NoTime}]
      /\ G.participants = G.nodes /\ G.inTable = G.nodes
  BY DEF Graph, TablesHeld
<1>b. \A n \in Nodes, S \in SUBSET Tokens : n \in NodesOf(S) <=> \E k \in S : NodeOf[k] = n
  BY DEF NodesOf
<1>c. /\ final \in SUBSET Tokens /\ final \cap NodeTokens \in SUBSET Tokens
      /\ empty \in SUBSET Nodes /\ touched \in SUBSET Nodes /\ alive \in SUBSET Nodes
  BY <1>a DEF EmptyNodes
<1>1. R = [U EXCEPT !.inTable = U.inTable \ empty]
  <2>1. H = [RemoveFlowEntities(G, hit) EXCEPT
                !.entities = left, !.alive = alive, !.ends = ends,
                !.nodes = G.nodes \ empty, !.participants = G.participants \ empty,
                !.deadline = due]
    BY DEF RemoveFlowEntities, Graph
  <2>2. RemoveFlowEntities(G, hit).nodes = G.nodes
        /\ RemoveFlowEntities(G, hit).participants = G.participants
        /\ RemoveFlowEntities(G, hit).deadline = G.deadline
    BY DEF RemoveFlowEntities, Graph
  <2> DEFINE J == [RemoveFlowEntities(G, hit) EXCEPT
                     !.entities = left, !.alive = alive, !.ends = ends,
                     !.nodes = @ \ empty, !.participants = @ \ empty,
                     !.deadline = [k \in Endpoints |-> IF k \in doomed THEN NoTime ELSE @[k]]]
  <2>3. R = [UpsertNodes(J, touched \ empty) EXCEPT !.inTable = @ \ empty]
    BY DEF RemoveRefs
  <2>4. J = H
    <3> HIDE DEF hit, left, final, alive, ends, touched, empty, doomed, H
    <3> QED
      BY <2>1, <2>2
  <2> HIDE DEF J, H, R, touched, empty
  <2> QED
    BY <2>3, <2>4
<1>d1. \A f \in Flows, k \in Tokens : <<f, k>> \in hit <=> <<f, k>> \in pairs /\ f \in G.entities[k]
  OBVIOUS
<1>d2. \A k \in Tokens : left[k] = {f \in G.entities[k] : <<f, k>> \notin hit}
  OBVIOUS
<1>d3. \A k \in Tokens : k \in final <=> G.entities[k] # {} /\ left[k] = {}
  OBVIOUS
<1>d4. \A n \in Nodes : n \in alive <=> n \in G.alive /\ n \notin NodesOf(final \cap NodeTokens)
  BY <1>a
<1>d5. \A n \in Nodes : ends[n] = G.ends[n] \ final
  OBVIOUS
<1>d6. \A n \in Nodes : n \in touched <=> n \in NodesOf(final) /\ n \in G.nodes
  OBVIOUS
<1>d7. \A n \in Nodes : n \in empty <=> n \in touched /\ n \notin alive /\ ends[n] = {}
  BY DEF EmptyNodes
<1>d8. \A k \in Endpoints : due[k] = IF k \in final \/ NodeOf[k] \in empty THEN NoTime
                                                                          ELSE G.deadline[k]
  OBVIOUS
<1>d9. \A f \in Flows : /\ stay[f] = {k \in G.flowEntities[f] : <<f, k>> \notin hit}
                        /\ seen[f] = IF G.flowEntities[f] # {} /\ stay[f] = {}
                                     THEN NoTime ELSE G.lastSeen[f]
  OBVIOUS
<1>2. /\ left \in [Tokens -> SUBSET Flows] /\ ends \in [Nodes -> SUBSET Endpoints]
      /\ stay \in [Flows -> SUBSET Tokens] /\ seen \in [Flows -> Times \cup {NoTime}]
      /\ due \in [Endpoints -> (0 .. MaxTime + Ttl) \cup {NoTime}]
  <2>1. left \in [Tokens -> SUBSET Flows]
    BY <1>a
  <2>2. ends \in [Nodes -> SUBSET Endpoints]
    BY <1>a
  <2>3. stay \in [Flows -> SUBSET Tokens]
    BY <1>a
  <2>4. seen \in [Flows -> Times \cup {NoTime}]
    BY <1>a
  <2>5. due \in [Endpoints -> (0 .. MaxTime + Ttl) \cup {NoTime}]
    BY <1>a
  <2> QED
    BY <2>1, <2>2, <2>3, <2>4, <2>5
<1> HIDE DEF hit, left, final, alive, ends, touched, empty, doomed, stay, seen, due
<1>3. /\ H \in Graph
      /\ H.entities = left /\ H.flowEntities = stay /\ H.lastSeen = seen
      /\ H.nodes = G.nodes \ empty /\ H.alive = alive /\ H.ends = ends
      /\ H.participants = G.participants \ empty /\ H.deadline = due
      /\ H.nodeTable = G.nodeTable /\ H.inTable = G.inTable
  BY <1>a, <1>c, <1>2 DEF Graph
<1> HIDE DEF H
<1>4. /\ U \in Graph
      /\ U.entities = left /\ U.flowEntities = stay /\ U.lastSeen = seen
      /\ U.nodes = G.nodes \ empty /\ U.alive = alive /\ U.ends = ends
      /\ U.participants = G.participants \ empty /\ U.deadline = due
      /\ \A n \in Nodes : U.nodeTable[n] = IF n \in touched \ empty THEN ends[n] ELSE G.nodeTable[n]
      /\ U.inTable = G.inTable \cup (touched \ empty)
  <2>1. touched \ empty \in SUBSET Nodes
    BY <1>c
  <2>2. /\ U \in Graph
        /\ U.entities = H.entities /\ U.flowEntities = H.flowEntities
        /\ U.lastSeen = H.lastSeen /\ U.nodes = H.nodes /\ U.alive = H.alive
        /\ U.ends = H.ends /\ U.participants = H.participants
        /\ U.deadline = H.deadline
        /\ \A n \in Nodes : U.nodeTable[n] = IF n \in touched \ empty THEN H.ends[n] ELSE H.nodeTable[n]
        /\ U.inTable = H.inTable \cup (touched \ empty)
    BY <1>3, <2>1, UpsertNodesFields
  <2> HIDE DEF U
  <2> QED
    BY <1>3, <2>2
<1> HIDE DEF U, R
<1>5. /\ R \in Graph
      /\ R.entities = left /\ R.flowEntities = stay /\ R.lastSeen = seen
      /\ R.nodes = G.nodes \ empty /\ R.alive = alive /\ R.ends = ends
      /\ R.participants = G.nodes \ empty /\ R.deadline = due
      /\ R.nodeTable = U.nodeTable
      /\ R.inTable = G.nodes \ empty
  <2>1. touched \subseteq G.nodes
    BY DEF touched
  <2>2. U.inTable \ empty = G.nodes \ empty
    BY <1>4, <1>a, <2>1
  <2> QED
    BY <1>1, <1>4, <1>a, <2>2 DEF Graph
<1>e. \A k \in Tokens : k \in Held(R) <=> k \in Held(G) /\ k \notin final
  <2> SUFFICES ASSUME NEW k \in Tokens PROVE k \in Held(R) <=> k \in Held(G) /\ k \notin final
    OBVIOUS
  <2>a. left[k] \subseteq G.entities[k]
    BY <1>d2
  <2>b. R.entities[k] = left[k]
    BY <1>5
  <2>1. left[k] \subseteq G.entities[k] /\ R.entities[k] = left[k]
    BY <2>a, <2>b
  <2> QED
    BY <1>d3, <2>1 DEF Held
<1>6. Mirrored(R)
  <2>1. ASSUME NEW f \in Flows, NEW k \in Tokens
        PROVE  k \in R.flowEntities[f] <=> f \in R.entities[k]
    <3>1. k \in R.flowEntities[f] <=> k \in G.flowEntities[f] /\ <<f, k>> \notin hit
      BY <1>5, <1>d9
    <3>2. f \in R.entities[k] <=> f \in G.entities[k] /\ <<f, k>> \notin hit
      BY <1>5, <1>d2
    <3> QED
      BY <1>d1, <3>1, <3>2
  <2>2. ASSUME NEW f \in Flows PROVE R.lastSeen[f] = NoTime <=> R.flowEntities[f] = {}
    <3>1. stay[f] \subseteq G.flowEntities[f]
      BY <1>d9
    <3> QED
      BY <1>5, <1>d9, <3>1
  <2> QED
    BY <2>1, <2>2 DEF Mirrored
\* A node that goes has no token left; one with a token left stays.
<1>7. \A n \in Nodes : n \in G.nodes /\ n \notin empty <=> \E k \in Held(R) : NodeOf[k] = n
  <2>1. ASSUME NEW n \in Nodes, n \in G.nodes, n \notin empty PROVE \E k \in Held(R) : NodeOf[k] = n
    <3>1. PICK k0 \in Held(G) : NodeOf[k0] = n
      BY <2>1 DEF NodesHeld
    <3>2. k0 \in Tokens
      BY <3>1 DEF Held
    <3>3. CASE n \notin touched
      <4>1. k0 \notin final
        BY <1>b, <1>c, <1>d6, <2>1, <3>1, <3>3
      <4> QED
        BY <1>e, <3>1, <3>2, <4>1
    <3>4. CASE n \in alive
      <4>1. PICK k \in Held(G) \cap NodeTokens : NodeOf[k] = n
        BY <1>d4, <3>4 DEF NodesHeld
      <4>2. k \notin final
        BY <1>b, <1>c, <1>d4, <3>4, <4>1
      <4> QED
        BY <1>e, <4>1, <4>2 DEF Held
    <3>5. CASE ends[n] # {}
      <4>1. PICK k \in ends[n] : TRUE
        BY <3>5
      <4>2. k \in G.ends[n] /\ k \notin final /\ k \in Endpoints
        BY <1>a, <1>d5, <4>1
      <4>3. k \in Held(G) /\ NodeOf[k] = n
        BY <4>2 DEF NodesHeld
      <4> QED
        BY <1>e, <4>2, <4>3 DEF Held
    <3> QED
      BY <1>d7, <2>1, <3>3, <3>4, <3>5
  <2>2. ASSUME NEW n \in Nodes, NEW k \in Held(R), NodeOf[k] = n
        PROVE  n \in G.nodes /\ n \notin empty
    <3>1. k \in Tokens /\ k \in Held(G) /\ k \notin final
      BY <1>e DEF Held
    <3>2. n \in G.nodes
      BY <2>2, <3>1 DEF NodesHeld
    <3>3. CASE k \in NodeTokens
      <4>1. n \in G.alive
        BY <2>2, <3>1, <3>3 DEF NodesHeld
      <4>2. n \notin NodesOf(final \cap NodeTokens)
        BY <1>b, <1>c, <2>2, <3>1, <3>3, GraphAssumptions
      <4> QED
        BY <1>d4, <1>d7, <3>2, <4>1, <4>2
    <3>4. CASE k \in Endpoints
      <4>1. k \in G.ends[n] /\ k \in ends[n]
        BY <1>d5, <2>2, <3>1, <3>4 DEF NodesHeld
      <4> QED
        BY <1>d7, <3>2, <4>1
    <3> QED
      BY <3>1, <3>3, <3>4, Sorts
  <2> QED
    BY <2>1, <2>2
<1>8. NodesHeld(R)
  <2>1. \A n \in Nodes : n \in R.nodes <=> \E k \in Held(R) : NodeOf[k] = n
    BY <1>5, <1>7
  <2>2. ASSUME NEW n \in Nodes
        PROVE  n \in R.alive <=> \E k \in Held(R) \cap NodeTokens : NodeOf[k] = n
    <3>1. n \in R.alive <=> n \in G.alive /\ n \notin NodesOf(final \cap NodeTokens)
      BY <1>5, <1>d4
    <3>2. n \in G.alive <=> \E k \in Held(G) \cap NodeTokens : NodeOf[k] = n
      BY DEF NodesHeld
    <3>3. n \in NodesOf(final \cap NodeTokens) <=> \E k \in final \cap NodeTokens : NodeOf[k] = n
      BY <1>b, <1>c
    <3>4. \A k \in NodeTokens : k \in Held(R) <=> k \in Held(G) /\ k \notin final
      BY <1>e, Sorts
    <3>5. \A k \in final : k \in Tokens
      BY <1>c
    <3> QED
      BY <3>1, <3>2, <3>3, <3>4, <3>5, GraphAssumptions
  <2>3. ASSUME NEW n \in Nodes, NEW k \in Endpoints
        PROVE  k \in R.ends[n] <=> k \in Held(R) /\ NodeOf[k] = n
    BY <1>5, <1>d5, <1>e, Sorts DEF NodesHeld
  <2> QED
    BY <2>1, <2>2, <2>3 DEF NodesHeld
<1>9. TablesHeld(R)
  <2>1. R.participants = R.nodes /\ R.inTable = R.nodes
    BY <1>5
  <2>2. ASSUME NEW n \in R.nodes PROVE R.nodeTable[n] = R.ends[n]
    <3>1. n \in G.nodes /\ n \notin empty /\ n \in Nodes
      BY <1>5, <1>a
    <3>2. R.nodeTable[n] = IF n \in touched THEN ends[n] ELSE G.nodeTable[n]
      BY <1>4, <1>5, <3>1
    <3>3. CASE n \notin touched
      <4>1. n \notin NodesOf(final)
        BY <1>d6, <3>1, <3>3
      <4>2. \A k \in G.ends[n] : k \notin final
        <5> SUFFICES ASSUME NEW k \in G.ends[n], k \in final PROVE FALSE
          OBVIOUS
        <5>1. k \in Endpoints /\ NodeOf[k] = n
          BY <1>a, <3>1 DEF NodesHeld
        <5> QED
          BY <1>b, <1>c, <3>1, <4>1, <5>1
      <4>3. ends[n] = G.ends[n]
        BY <1>d5, <3>1, <4>2
      <4>4. G.nodeTable[n] = G.ends[n]
        BY <3>1 DEF TablesHeld
      <4> QED
        BY <1>5, <3>2, <3>3, <4>3, <4>4
    <3> QED
      BY <1>5, <3>2, <3>3
  <2>3. ASSUME NEW k \in Endpoints PROVE R.deadline[k] # NoTime <=> R.entities[k] # {}
    <3>1. R.deadline[k] = IF k \in final \/ NodeOf[k] \in empty THEN NoTime ELSE G.deadline[k]
      BY <1>5, <1>d8
    <3>2. k \in Tokens /\ NodeOf[k] \in Nodes /\ (G.deadline[k] # NoTime <=> k \in Held(G))
      BY Sorts DEF TablesHeld, Held
    <3>3. k \in Held(R) <=> k \in Held(G) /\ k \notin final
      BY <1>e, <3>2
    <3>4. k \in Held(R) => NodeOf[k] \notin empty
      BY <1>7, <3>2
    <3> QED
      BY <3>1, <3>2, <3>3, <3>4 DEF Held
  <2> QED
    BY <2>1, <2>2, <2>3 DEF TablesHeld
<1>10. \A k \in Tokens : R.entities[k] = {f \in G.entities[k] : <<f, k>> \notin pairs}
  <2> SUFFICES ASSUME NEW k \in Tokens
               PROVE  R.entities[k] = {f \in G.entities[k] : <<f, k>> \notin pairs}
    OBVIOUS
  <2>1. \A f \in G.entities[k] : f \in Flows
    BY <1>a
  <2> QED
    BY <1>5, <1>d1, <1>d2, <2>1
<1> QED
  BY <1>5, <1>6, <1>8, <1>9, <1>10 DEF Exact, R

\* A silent flow loses its references.
LEMMA ExpireInactiveFlowsExact ==
    ASSUME NEW G, Exact(G), NEW now \in Times
    PROVE  Exact(ExpireInactiveFlows(G, now))
<1> DEFINE silent == {f \in Directions : G.lastSeen[f] # NoTime /\ now - G.lastSeen[f] > Timeout}
           seen == [f \in Flows |-> IF f \in silent THEN NoTime ELSE G.lastSeen[f]]
           kept == [f \in Flows |-> IF f \in silent THEN {} ELSE G.flowEntities[f]]
           H == [G EXCEPT !.lastSeen = seen, !.flowEntities = kept]
           pairs == {p \in silent \X Tokens : p[2] \in G.flowEntities[p[1]]}
<1>a. /\ G \in Graph /\ Mirrored(G) /\ NodesHeld(G) /\ TablesHeld(G)
      /\ G.lastSeen \in [Flows -> Times \cup {NoTime}]
      /\ G.flowEntities \in [Flows -> SUBSET Tokens]
  BY DEF Exact, Graph
<1>1. ExpireInactiveFlows(G, now) = RemoveRefs(H, pairs)
  BY <1>a DEF ExpireInactiveFlows, Graph
<1>2. /\ pairs \in SUBSET (Flows \X Tokens)
      /\ \A f \in Flows, k \in Tokens :
             <<f, k>> \in pairs <=> f \in silent /\ k \in G.flowEntities[f]
  BY Sorts
<1>3. /\ seen \in [Flows -> Times \cup {NoTime}] /\ kept \in [Flows -> SUBSET Tokens]
      /\ \A f \in Flows : /\ seen[f] = IF f \in silent THEN NoTime ELSE G.lastSeen[f]
                          /\ kept[f] = IF f \in silent THEN {} ELSE G.flowEntities[f]
  BY <1>a
<1> HIDE DEF silent, seen, kept, pairs
<1>4. /\ H \in Graph /\ H.lastSeen = seen /\ H.flowEntities = kept
      /\ H.entities = G.entities /\ H.nodes = G.nodes /\ H.alive = G.alive
      /\ H.ends = G.ends /\ H.participants = G.participants /\ H.deadline = G.deadline
      /\ H.nodeTable = G.nodeTable /\ H.inTable = G.inTable
  BY <1>a, <1>3 DEF Graph
<1> HIDE DEF H
<1>5. NodesHeld(H) /\ TablesHeld(H)
  BY <1>a, <1>4 DEF NodesHeld, TablesHeld, Held
<1>6. ASSUME NEW f \in Flows, NEW k \in Tokens
      PROVE  /\ k \in H.flowEntities[f] => f \in H.entities[k]
             /\ f \in H.entities[k] /\ <<f, k>> \notin pairs => k \in H.flowEntities[f]
  BY <1>a, <1>2, <1>3, <1>4 DEF Mirrored
<1>7. \A f \in Flows : H.lastSeen[f] = NoTime <=> H.flowEntities[f] = {}
  BY <1>a, <1>3, <1>4 DEF Mirrored
<1>8. Exact(RemoveRefs(H, pairs))
  BY <1>2, <1>4, <1>5, <1>6, <1>7, RemoveRefsExact
<1> QED
  BY <1>1, <1>8

\* Announcing again what is held gives it a new deadline, and nothing else
\* has one: the expiry of the tables finds nothing.
LEMMA RefreshDiscoveryExact ==
    ASSUME NEW G, Exact(G), NEW at \in Times
    PROVE  /\ Exact(RefreshDiscovery(G, at))
           /\ RefreshDiscovery(G, at).entities = G.entities
           /\ ExpireStale(RefreshDiscovery(G, at), at) = RefreshDiscovery(G, at)
<1> DEFINE R == RefreshDiscovery(G, at)
           due == [k \in Endpoints |-> IF G.entities[k] # {} THEN at + Ttl ELSE G.deadline[k]]
           H == [G EXCEPT !.participants = G.participants \cup G.nodes, !.deadline = due]
<1>a. /\ G \in Graph /\ Mirrored(G) /\ NodesHeld(G) /\ TablesHeld(G)
      /\ G.nodes \in SUBSET Nodes
      /\ G.deadline \in [Endpoints -> (0 .. MaxTime + Ttl) \cup {NoTime}]
  BY DEF Exact, Graph
<1>1. R = UpsertNodes(H, G.nodes)
  BY <1>a DEF RefreshDiscovery, Graph
<1>2. /\ due \in [Endpoints -> (0 .. MaxTime + Ttl) \cup {NoTime}]
      /\ \A k \in Endpoints : due[k] = IF G.entities[k] # {} THEN at + Ttl ELSE NoTime
  BY <1>a, Sorts DEF TablesHeld
<1> HIDE DEF due
<1>3. /\ H \in Graph
      /\ H.entities = G.entities /\ H.flowEntities = G.flowEntities
      /\ H.lastSeen = G.lastSeen /\ H.nodes = G.nodes /\ H.alive = G.alive
      /\ H.ends = G.ends /\ H.participants = G.nodes /\ H.deadline = due
      /\ H.nodeTable = G.nodeTable /\ H.inTable = G.nodes
  <2>1. G.participants \cup G.nodes = G.nodes /\ G.inTable = G.nodes
    BY <1>a DEF TablesHeld
  <2> QED
    BY <1>a, <1>2, <2>1 DEF Graph
<1> HIDE DEF H, R
<1>4. /\ R \in Graph
      /\ R.entities = G.entities /\ R.flowEntities = G.flowEntities
      /\ R.lastSeen = G.lastSeen /\ R.nodes = G.nodes /\ R.alive = G.alive
      /\ R.ends = G.ends /\ R.participants = G.nodes /\ R.deadline = due
      /\ \A n \in Nodes : R.nodeTable[n] = IF n \in G.nodes THEN G.ends[n] ELSE G.nodeTable[n]
      /\ R.inTable = G.nodes
  <2>1. /\ R \in Graph
        /\ R.entities = H.entities /\ R.flowEntities = H.flowEntities
        /\ R.lastSeen = H.lastSeen /\ R.nodes = H.nodes /\ R.alive = H.alive
        /\ R.ends = H.ends /\ R.participants = H.participants
        /\ R.deadline = H.deadline
        /\ \A n \in Nodes : R.nodeTable[n] = IF n \in G.nodes THEN H.ends[n] ELSE H.nodeTable[n]
        /\ R.inTable = H.inTable \cup G.nodes
    BY <1>1, <1>a, <1>3, UpsertNodesFields
  <2> QED
    BY <1>3, <2>1
<1>5. Mirrored(R) /\ NodesHeld(R)
  BY <1>a, <1>4 DEF Mirrored, NodesHeld, Held
<1>6. TablesHeld(R)
  BY <1>a, <1>2, <1>4, Sorts DEF TablesHeld
<1>7. ExpireStale(R, at) = R
  <2>1. [k \in Endpoints |-> IF R.deadline[k] # NoTime /\ R.deadline[k] <= at
                             THEN NoTime ELSE R.deadline[k]] = due
    <3>1. ASSUME NEW k \in Endpoints, due[k] # NoTime PROVE ~(due[k] <= at)
      <4>1. due[k] = at + Ttl
        BY <1>2, <3>1
      <4> QED
        BY <4>1, GraphAssumptions, TokenAssumptions DEF Times
    <3> QED
      BY <1>2, <1>4, <3>1
  <2>2. ExpireStale(R, at) = [R EXCEPT !.deadline = due]
    BY <1>4, <2>1 DEF ExpireStale, Graph
  <2> QED
    BY <1>4, <2>2 DEF Graph
<1> QED
  BY <1>4, <1>5, <1>6, <1>7 DEF Exact, R

\* The empty graph.
LEMMA EmptyGraphExact == Exact(EmptyGraph)
<1> DEFINE G == EmptyGraph
<1>1. G \in Graph
  BY DEF EmptyGraph, Graph
<1>2. /\ \A k \in Tokens : G.entities[k] = {}
      /\ \A f \in Flows : G.flowEntities[f] = {} /\ G.lastSeen[f] = NoTime
      /\ G.nodes = {} /\ G.alive = {} /\ \A n \in Nodes : G.ends[n] = {}
      /\ G.participants = {} /\ \A k \in Endpoints : G.deadline[k] = NoTime
      /\ G.inTable = {}
  BY DEF EmptyGraph
<1> HIDE DEF G
<1>3. Held(G) = {}
  BY <1>2 DEF Held
<1>4. Mirrored(G) /\ NodesHeld(G)
  BY <1>2, <1>3 DEF Mirrored, NodesHeld
<1>5. TablesHeld(G)
  BY <1>2, Sorts DEF TablesHeld
<1> QED
  BY <1>1, <1>4, <1>5 DEF Exact, G

\* One flow gives up some tokens.
LEMMA RemoveOfFlow ==
    ASSUME NEW G, Exact(G), NEW f \in Flows, NEW ks \in SUBSET Tokens
    PROVE  /\ Exact(RemoveRefs(G, {f} \X ks))
           /\ \A k \in Tokens : RemoveRefs(G, {f} \X ks).entities[k] = Without(G.entities[k], k, f, ks)
<1> DEFINE pairs == {f} \X ks
<1>1. /\ pairs \in SUBSET (Flows \X Tokens)
      /\ \A e \in Flows, k \in Tokens : <<e, k>> \in pairs <=> e = f /\ k \in ks
  OBVIOUS
<1>2. /\ G \in Graph /\ NodesHeld(G) /\ TablesHeld(G) /\ Mirrored(G)
      /\ \A k \in Tokens : G.entities[k] \subseteq Flows
  BY DEF Exact, Graph
<1> HIDE DEF pairs
<1>3. /\ Exact(RemoveRefs(G, pairs))
      /\ \A k \in Tokens : RemoveRefs(G, pairs).entities[k] =
             {e \in G.entities[k] : <<e, k>> \notin pairs}
  BY <1>1, <1>2, RemoveRefsExact DEF Mirrored
<1>4. ASSUME NEW k \in Tokens
      PROVE  {e \in G.entities[k] : <<e, k>> \notin pairs} =
                 Without(G.entities[k], k, f, ks)
  BY <1>1, <1>2 DEF Without
<1> QED
  BY <1>3, <1>4 DEF pairs

\* What a batch of the channel does to the flows that hold a token.
Handled(G, b) ==
    InsertEntities(RemoveRefs(TouchFlow(G, b.flow, b.at), {b.flow} \X b.gone),
                   b.flow, b.found, b.at)

After(b, k, F) ==
    With(Without(F, k, b.flow, b.gone), k, b.flow, b.found)

\* A batch keeps the story exact, and each token's flows are those it tells.
LEMMA HandledExact ==
    ASSUME NEW G, Exact(G), NEW b \in Batch
    PROVE  /\ Exact(Handled(G, b))
           /\ \A k \in Tokens : Handled(G, b).entities[k] = After(b, k, G.entities[k])
<1> DEFINE f == b.flow
           T == TouchFlow(G, f, b.at)
           R == RemoveRefs(T, {f} \X b.gone)
           I == InsertEntities(R, f, b.found, b.at)
<1>1. f \in Flows /\ b.at \in Times /\ b.gone \in SUBSET Tokens /\ b.found \in SUBSET Tokens
  BY Sorts DEF Batch
<1> HIDE DEF f
<1>2. Exact(T) /\ T.entities = G.entities
  BY <1>1, TouchFlowExact
<1> HIDE DEF T
<1>3. /\ Exact(R)
      /\ \A k \in Tokens : R.entities[k] = Without(T.entities[k], k, f, b.gone)
  BY <1>1, <1>2, RemoveOfFlow
<1> HIDE DEF R
<1>4. /\ Exact(I)
      /\ \A k \in Tokens : I.entities[k] = With(R.entities[k], k, f, b.found)
  BY <1>1, <1>3, InsertEntitiesExact
<1> HIDE DEF I
<1>5. Handled(G, b) = I
  BY DEF Handled, I, R, T, f
<1> QED
  BY <1>2, <1>3, <1>4, <1>5 DEF After, f

\* What `rp discover` does to the graph.
Discovered(G, answer, at) ==
    LET stale == G.flowEntities[Active] \ answer
        R == RemoveRefs(TouchFlow(G, Active, at), {Active} \X stale)
    IN  RefreshDiscovery(InsertEntities(R, Active, answer, at), at)

\* A query keeps the story exact and concerns active discovery only.
LEMMA DiscoveredExact ==
    ASSUME NEW G, Exact(G), NEW answer \in SUBSET Tokens, NEW at \in Times
    PROVE  /\ Exact(Discovered(G, answer, at))
           /\ \A k \in Tokens :
                  Discovered(G, answer, at).entities[k] \ {Active} = G.entities[k] \ {Active}
<1> DEFINE stale == G.flowEntities[Active] \ answer
           T == TouchFlow(G, Active, at)
           R == RemoveRefs(T, {Active} \X stale)
           I == InsertEntities(R, Active, answer, at)
<1>1. Active \in Flows /\ stale \in SUBSET Tokens
  BY Sorts DEF Exact, Graph
<1> HIDE DEF stale
<1>2. Exact(T) /\ T.entities = G.entities
  BY <1>1, TouchFlowExact
<1> HIDE DEF T
<1>3. /\ Exact(R)
      /\ \A k \in Tokens : R.entities[k] = Without(T.entities[k], k, Active, stale)
  BY <1>1, <1>2, RemoveOfFlow
<1> HIDE DEF R
<1>4. /\ Exact(I)
      /\ \A k \in Tokens : I.entities[k] = With(R.entities[k], k, Active, answer)
  BY <1>1, <1>3, InsertEntitiesExact
<1> HIDE DEF I
<1>5. Exact(RefreshDiscovery(I, at)) /\ RefreshDiscovery(I, at).entities = I.entities
  BY <1>4, RefreshDiscoveryExact
<1>6. Discovered(G, answer, at) = RefreshDiscovery(I, at)
  BY DEF Discovered, I, R, T, stale
<1> QED
  BY <1>2, <1>3, <1>4, <1>5, <1>6 DEF With, Without

----------------------------------------------------------------------------
(* The runtime.                                                            *)

\* The types of the state, the worker's counts and the graph's story: the
\* inductive invariant.
GraphInv == TypeOK /\ WorkerExact /\ Exact(g)

\* A worker step delivers at most one typed batch.
LEMMA WorkerDelivers ==
    ASSUME GraphInv, Worker
    PROVE  /\ UNCHANGED clock
           /\ channel' \in Seq(Batch) /\ Len(channel') <= ChannelCapacity
<1>1. PICK d \in Directions, slots \in SUBSET Slots, id \in Ids \cup {NoToken},
           added \in Tokens \cup {NoToken} :
               /\ channel' = channel \/ Deliver(Report(d, slots, added))
               /\ UNCHANGED <<limits, clock>>
  BY WorkerForm DEF GraphInv, TypeOK, WorkerTyped, WorkerExact
<1>2. Report(d, slots, added) \in Batch
  BY DEF GraphInv, TypeOK, Report, Batch
<1>3. channel \in Seq(Batch) /\ Len(channel) <= ChannelCapacity
  BY DEF GraphInv, TypeOK
<1>4. ASSUME Deliver(Report(d, slots, added))
      PROVE  channel' \in Seq(Batch) /\ Len(channel') <= ChannelCapacity
  <2>1. Len(channel) < ChannelCapacity /\ channel' = Append(channel, Report(d, slots, added))
    BY <1>4 DEF Deliver
  <2>2. channel' \in Seq(Batch) /\ Len(channel') = Len(channel) + 1
    BY <1>2, <1>3, <2>1, AppendProperties
  <2> QED
    BY <1>3, <2>1, <2>2, LenProperties, TokenAssumptions
<1> QED
  BY <1>1, <1>3, <1>4

\* The invariant holds at the start.
LEMMA GraphInvInit == Init => GraphInv
<1> SUFFICES ASSUME Init PROVE GraphInv
  OBVIOUS
<1>1. g \in Graph /\ Exact(g)
  BY EmptyGraphExact DEF Init, Exact
<1>2. TypeOK
  BY <1>1, EmptySeq, TokenAssumptions DEF Init, TokensInit, TypeOK, Times
<1>3. RefCountsExact
  <2>1. ASSUME NEW k \in Tokens PROVE {s \in Slots : tokenTable[s] = k} = {}
    BY TokenAssumptions DEF Init, TokensInit
  <2> QED
    BY <2>1, FS_EmptySet DEF Init, TokensInit, RefCountsExact
<1>4. FlowStateBounded
  BY EmptySeq, TokenAssumptions DEF Init, TokensInit, FlowStateBounded, Capacity
<1> QED
  BY <1>1, <1>2, <1>3, <1>4 DEF GraphInv, WorkerExact

\* Every step keeps it.
LEMMA GraphInvStep == GraphInv /\ [Next]_vars => GraphInv'
<1> SUFFICES ASSUME GraphInv, [Next]_vars PROVE GraphInv'
  OBVIOUS
<1>a. /\ channel \in Seq(Batch) /\ Len(channel) <= ChannelCapacity /\ clock \in Times
      /\ astray \subseteq Tokens /\ WorkerTyped /\ WorkerExact /\ Exact(g)
  BY DEF GraphInv, TypeOK, WorkerTyped
\* What it suffices to show of a step that is not the worker's.
<1>b. ASSUME UNCHANGED workerVars, channel' \in Seq(Batch), Len(channel') <= ChannelCapacity,
             clock' \in Times, astray' \subseteq Tokens, Exact(g')
      PROVE  GraphInv'
  <2>1. TypeOK'
    BY <1>b DEF GraphInv, TypeOK, workerVars, Exact
  <2>2. RefCountsExact'
    BY <1>a, <1>b DEF WorkerExact, RefCountsExact, workerVars
  <2>3. FlowStateBounded'
    BY <1>a, <1>b DEF WorkerExact, FlowStateBounded, Tracked, Capacity, workerVars
  <2> QED
    BY <1>b, <2>1, <2>2, <2>3 DEF GraphInv, WorkerExact
<1>1. CASE WorkerStep
  <2>1. WorkerTyped' /\ WorkerExact'
    BY <1>1, <1>a, WorkerKeepsExact DEF WorkerStep
  <2>2. channel' \in Seq(Batch) /\ Len(channel') <= ChannelCapacity /\ clock' = clock
    BY <1>1, WorkerDelivers DEF WorkerStep
  <2>3. g' = g /\ astray' \subseteq Tokens
    BY <1>1, <1>a DEF WorkerStep
  <2> QED
    BY <1>a, <2>1, <2>2, <2>3 DEF GraphInv, TypeOK, WorkerTyped, Exact
<1>2. CASE HandleZenohEvent
  <2>1. channel # <<>> /\ g' = Handled(g, Head(channel)) /\ channel' = Tail(channel)
        /\ UNCHANGED <<workerVars, clock, astray>>
    BY <1>2 DEF HandleZenohEvent, Handled
  <2>2. Head(channel) \in Batch /\ Tail(channel) \in Seq(Batch)
        /\ Len(Tail(channel)) = Len(channel) - 1
    BY <1>a, <2>1, HeadTailProperties
  <2>3. Exact(g')
    BY <1>a, <2>1, <2>2, HandledExact
  <2>4. Len(channel') <= ChannelCapacity
    BY <1>a, <2>1, <2>2, LenProperties, TokenAssumptions
  <2> QED
    BY <1>a, <1>b, <2>1, <2>2, <2>3, <2>4
<1>3. CASE Sweep
  <2> DEFINE G == ExpireInactiveFlows(g, clock)
  <2>1. Exact(G)
    BY <1>a, ExpireInactiveFlowsExact
  <2>2. g' = ExpireStale(RefreshDiscovery(G, clock), clock)
    BY <1>3 DEF Sweep
  <2>3. astray' \subseteq Tokens /\ UNCHANGED <<workerVars, channel, clock>>
    BY <1>3, <1>a DEF Sweep
  <2> HIDE DEF G
  <2>4. Exact(g')
    BY <1>a, <2>1, <2>2, RefreshDiscoveryExact
  <2> QED
    BY <1>a, <1>b, <2>3, <2>4
<1>4. CASE Tick
  <2>1. clock' \in Times
    BY <1>4, <1>a, TokenAssumptions DEF Tick, Times
  <2> QED
    BY <1>4, <1>a, <1>b, <2>1 DEF Tick
<1>5. ASSUME NEW answer \in SUBSET Tokens, NEW at \in clock - QueryTime .. clock,
             at >= 0, Discover(answer, at)
      PROVE  GraphInv'
  <2>1. at \in Times
    BY <1>5, <1>a, TokenAssumptions, GraphAssumptions DEF Times
  <2>2. g' = Discovered(g, answer, at) /\ UNCHANGED <<workerVars, channel, clock, astray>>
    BY <1>5 DEF Discover, Discovered
  <2>3. Exact(g')
    BY <1>a, <2>1, <2>2, DiscoveredExact
  <2> QED
    BY <1>a, <1>b, <2>2, <2>3
<1>6. CASE UNCHANGED vars
  BY <1>6, <1>a, <1>b DEF vars
<1> QED
  BY <1>1, <1>2, <1>3, <1>4, <1>5, <1>6 DEF Next

\* It holds throughout.
LEMMA GraphInvariant == Spec => []GraphInv
<1> QED
  BY GraphInvInit, GraphInvStep, PTL DEF Spec

\* Whatever the worker reads, each count of the processor is the number of
\* declarations behind it, and its tables stay within their bounds.
THEOREM WorkerCountsExact == Spec => []WorkerExact
<1>1. GraphInv => WorkerExact
  BY DEF GraphInv
<1> QED
  BY <1>1, GraphInvariant, PTL

\* Flows, entities, nodes and tables of the runtime agree after every batch,
\* query, timeout and sweep, for any number of each.
THEOREM GraphTellsOneStory == Spec => []GraphExact
<1>1. GraphInv => GraphExact
  BY ExactProperties DEF GraphInv, TypeOK, GraphExact
<1> QED
  BY <1>1, GraphInvariant, PTL

----------------------------------------------------------------------------
(* The runtime follows the worker.                                         *)

\* The batches s turn the flows F of the token k into the flows T.
Leads(k, s, F, T) ==
    \E h \in [0 .. Len(s) -> SUBSET Directions] :
        /\ h[0] = F /\ h[Len(s)] = T
        /\ \A i \in 1 .. Len(s) : h[i] = After(s[i], k, h[i - 1])

\* A batch names a flow of the worker.
LEMMA AfterDirections ==
    ASSUME NEW b \in Batch, NEW k, NEW F \in SUBSET Directions
    PROVE  After(b, k, F) \in SUBSET Directions
BY DEF After, With, Without, Batch

\* Nothing to handle, nothing to learn.
LEMMA LeadsNowhere ==
    ASSUME NEW k, NEW F \in SUBSET Directions, NEW T
    PROVE  Leads(k, <<>>, F, T) <=> F = T
<1>1. Len(<<>>) = 0
  BY EmptySeq
<1>2. ASSUME F = T PROVE Leads(k, <<>>, F, T)
  <2> DEFINE h == [i \in 0 .. 0 |-> F]
  <2>1. h \in [0 .. 0 -> SUBSET Directions] /\ h[0] = F
    OBVIOUS
  <2> HIDE DEF h
  <2> QED
    BY <1>1, <1>2, <2>1 DEF Leads
<1> QED
  BY <1>1, <1>2 DEF Leads

\* The runtime handles the first batch.
LEMMA LeadsFromHead ==
    ASSUME NEW k, NEW s \in Seq(Batch), s # <<>>, NEW F, NEW T, Leads(k, s, F, T)
    PROVE  Leads(k, Tail(s), After(Head(s), k, F), T)
<1> DEFINE n == Len(s)
<1>1. n \in Nat \ {0} /\ Len(Tail(s)) = n - 1 /\ Head(s) = s[1]
      /\ \A i \in 1 .. n - 1 : Tail(s)[i] = s[i + 1]
  BY EmptySeq, HeadTailProperties
<1>2. PICK h \in [0 .. n -> SUBSET Directions] :
          /\ h[0] = F /\ h[n] = T
          /\ \A i \in 1 .. n : h[i] = After(s[i], k, h[i - 1])
  BY DEF Leads
<1> HIDE DEF n
<1> DEFINE e == [i \in 0 .. n - 1 |-> h[i + 1]]
<1>3. e \in [0 .. n - 1 -> SUBSET Directions]
  <2>1. \A i \in 0 .. n - 1 : i + 1 \in 0 .. n
    BY <1>1
  <2> QED
    BY <2>1
<1>4. \A i \in 0 .. n - 1 : e[i] = h[i + 1]
  OBVIOUS
<1> HIDE DEF e
<1>5. e[0] = After(Head(s), k, F)
  <2>1. 0 \in 0 .. n - 1 /\ 1 \in 1 .. n
    BY <1>1
  <2>2. h[1] = After(s[1], k, h[1 - 1]) /\ 1 - 1 = 0
    BY <1>2, <2>1
  <2>3. e[0] = h[0 + 1] /\ 0 + 1 = 1
    BY <1>4, <2>1
  <2> QED
    BY <1>1, <1>2, <2>2, <2>3
<1>6. e[n - 1] = T
  <2>1. n - 1 \in 0 .. n - 1 /\ (n - 1) + 1 = n
    BY <1>1
  <2> QED
    BY <1>2, <1>4, <2>1
<1>7. ASSUME NEW i \in 1 .. n - 1 PROVE e[i] = After(Tail(s)[i], k, e[i - 1])
  <2>1. i + 1 \in 1 .. n /\ (i + 1) - 1 = i /\ i \in 0 .. n - 1 /\ i - 1 \in 0 .. n - 1
        /\ (i - 1) + 1 = i
    BY <1>1
  <2>2. e[i] = h[i + 1] /\ e[i - 1] = h[i]
    BY <1>4, <2>1
  <2>3. h[i + 1] = After(s[i + 1], k, h[i])
    BY <1>2, <2>1
  <2> QED
    BY <1>1, <2>2, <2>3
<1> QED
  BY <1>1, <1>3, <1>5, <1>6, <1>7 DEF Leads

\* The worker delivers another one.
LEMMA LeadsThenBatch ==
    ASSUME NEW k, NEW s \in Seq(Batch), NEW b \in Batch, NEW F, NEW T, Leads(k, s, F, T)
    PROVE  Leads(k, Append(s, b), F, After(b, k, T))
<1> DEFINE n == Len(s)
           t == Append(s, b)
<1>1. n \in Nat /\ Len(t) = n + 1 /\ t[n + 1] = b /\ \A i \in 1 .. n : t[i] = s[i]
  BY AppendProperties, LenProperties
<1>2. PICK h \in [0 .. n -> SUBSET Directions] :
          /\ h[0] = F /\ h[n] = T
          /\ \A i \in 1 .. n : h[i] = After(s[i], k, h[i - 1])
  BY DEF Leads
<1>3. After(b, k, T) \in SUBSET Directions
  <2>1. T \in SUBSET Directions
    BY <1>1, <1>2
  <2> QED
    BY <2>1, AfterDirections
<1> HIDE DEF n, t
<1> DEFINE e == [i \in 0 .. n + 1 |-> IF i = n + 1 THEN After(b, k, T) ELSE h[i]]
<1>4. e \in [0 .. n + 1 -> SUBSET Directions]
  <2>1. \A i \in 0 .. n + 1 : i # n + 1 => i \in 0 .. n
    BY <1>1
  <2> QED
    BY <1>3, <2>1
<1>5. e[n + 1] = After(b, k, T) /\ \A i \in 0 .. n : e[i] = h[i]
  <2>1. n + 1 \in 0 .. n + 1 /\ \A i \in 0 .. n : i \in 0 .. n + 1 /\ i # n + 1
    BY <1>1
  <2> QED
    BY <2>1
<1> HIDE DEF e
<1>6. e[0] = F
  <2>1. 0 \in 0 .. n
    BY <1>1
  <2> QED
    BY <1>2, <1>5, <2>1
<1>7. ASSUME NEW i \in 1 .. n + 1 PROVE e[i] = After(t[i], k, e[i - 1])
  <2>1. CASE i = n + 1
    <3>1. i - 1 = n /\ n \in 0 .. n
      BY <1>1, <2>1
    <3> QED
      BY <1>1, <1>2, <1>5, <2>1, <3>1
  <2>2. CASE i # n + 1
    <3>1. i \in 1 .. n /\ i \in 0 .. n /\ i - 1 \in 0 .. n
      BY <1>1, <2>2
    <3>2. h[i] = After(s[i], k, h[i - 1])
      BY <1>2, <3>1
    <3> QED
      BY <1>1, <1>5, <3>1, <3>2
  <2> QED
    BY <2>1, <2>2
<1>8. Leads(k, t, F, After(b, k, T))
  BY <1>1, <1>4, <1>5, <1>6, <1>7 DEF Leads
<1> QED
  BY <1>8 DEF t

\* The flows that declare the token k in a table.
FlowsOf(table, k) == {s[1] : s \in {s \in Slots : table[s] = k}}

\* One flow at most is what the history of a worker step counts.
LEMMA Declared ==
    ASSUME NEW table, NEW k
    PROVE  /\ \A e : e \in FlowsOf(table, k) <=> \E s \in Slots : table[s] = k /\ s[1] = e
           /\ FlowsOf(table, k) \in SUBSET Directions
           /\ Cardinality(FlowsOf(table, k)) <= 1 => \A d, e \in FlowsOf(table, k) : d = e
<1>1. \A e : e \in FlowsOf(table, k) <=> \E s \in Slots : table[s] = k /\ s[1] = e
  BY DEF FlowsOf
<1>2. FlowsOf(table, k) \in SUBSET Directions
  BY <1>1 DEF Slots
<1>3. ASSUME NEW d \in FlowsOf(table, k), NEW e \in FlowsOf(table, k), d # e
      PROVE  ~(Cardinality(FlowsOf(table, k)) <= 1)
  <2> DEFINE D == FlowsOf(table, k)
  <2>1. IsFiniteSet(D)
    BY <1>2, TokenAssumptions, FS_Subset
  <2>2. IsFiniteSet({d}) /\ Cardinality({d}) = 1
    BY FS_Singleton
  <2>3. Cardinality({d} \cup {e}) = 2
    <3>1. Cardinality({d} \cup {e}) = Cardinality({d}) + 1
      <4>1. e \notin {d}
        BY <1>3
      <4> DEFINE S == {d}
      <4> HIDE DEF S
      <4>2. IsFiniteSet(S) /\ e \notin S
        BY <2>2, <4>1 DEF S
      <4>3. Cardinality(S \cup {e}) = Cardinality(S) + 1
        BY <4>2, FS_AddElement
      <4> QED
        BY <4>3 DEF S
    <3> QED
      BY <2>2, <3>1
  <2>4. {d} \cup {e} \in SUBSET D
    OBVIOUS
  <2> HIDE DEF D
  <2> DEFINE P == {d} \cup {e}
  <2>5. P \in SUBSET D /\ Cardinality(P) = 2
    BY <2>3, <2>4
  <2> HIDE DEF P
  <2>6. Cardinality(P) <= Cardinality(D) /\ Cardinality(D) \in Nat
    BY <2>1, <2>5, FS_Subset, FS_CardinalityType
  <2>7. ~(Cardinality(D) <= 1)
    BY <2>5, <2>6
  <2> QED
    BY <2>7 DEF D
<1> QED
  BY <1>1, <1>2, <1>3

\* A token that is not astray is declared on one flow at most, and the batches
\* in the channel turn the flows that the runtime knows of into those that
\* declare it.
FollowInv ==
    \A k \in Tokens \ astray :
        /\ \A d, e \in DeclaredOn(k) : d = e
        /\ Leads(k, channel, g.entities[k] \ {Active}, DeclaredOn(k))

\* A step of the worker reports what it does to a token, or strays.
LEMMA WorkerReports ==
    ASSUME GraphInv, WorkerStep, NEW k \in Tokens, k \notin astray',
           \A d, e \in DeclaredOn(k) : d = e
    PROVE  /\ \A d, e \in DeclaredOn(k)' : d = e
           /\ \/ channel' = channel /\ DeclaredOn(k)' = DeclaredOn(k)
              \/ \E b \in Batch : /\ channel' = Append(channel, b)
                                  /\ DeclaredOn(k)' = After(b, k, DeclaredOn(k))
<1>a. /\ WorkerTyped /\ WorkerExact /\ channel \in Seq(Batch) /\ NoToken \notin Tokens
      /\ clock \in Times
  BY TokenAssumptions DEF GraphInv, TypeOK, WorkerTyped
<1>1. PICK d \in Directions, slots \in SUBSET Slots, id \in Ids \cup {NoToken},
           added \in Tokens \cup {NoToken} :
               /\ Redeclare(slots, <<d, id>>, added)
               /\ (UNCHANGED channel /\ added = NoToken) \/ Deliver(Report(d, slots, added))
  BY <1>a, WorkerForm DEF WorkerExact, WorkerStep
<1> DEFINE p == <<d, id>>
           new == tokenTable'
<1>2. /\ p \in slots \/ added = NoToken
      /\ added # NoToken => tokenTable[p] # added
      /\ \A s \in Slots : new[s] = IF s \in slots THEN (IF s = p THEN added ELSE NoToken)
                                                 ELSE tokenTable[s]
      /\ p[1] = d
  BY <1>1 DEF Redeclare
<1>3. /\ Cardinality(FlowsOf(new, k)) <= 1
      /\ \A s \in Slots : tokenTable[s] = k /\ new[s] # k => s[1] \in Told
  <2>1. k \notin {j \in Tokens : Cardinality(DeclaredOn(j)') > 1}
        /\ k \notin {j \in Tokens : \E s \in Slots : /\ tokenTable[s] = j /\ new[s] # j
                                                     /\ s[1] \notin Told}
    BY DEF WorkerStep
  <2>2. DeclaredOn(k)' = FlowsOf(new, k)
    BY DEF DeclaredOn, FlowsOf
  <2>3. ~(Cardinality(FlowsOf(new, k)) > 1)
    BY <2>1, <2>2
  <2>4. Cardinality(FlowsOf(new, k)) \in Nat
    <3>1. FlowsOf(new, k) \in SUBSET Directions
      BY DEF FlowsOf, Slots
    <3>2. IsFiniteSet(FlowsOf(new, k))
      BY <3>1, TokenAssumptions, FS_Subset
    <3> QED
      BY <3>2, FS_CardinalityType
  <2> QED
    BY <2>1, <2>3, <2>4
<1> HIDE DEF p, new
<1> DEFINE D == DeclaredOn(k)
           E == FlowsOf(new, k)
<1>4. \A e : e \in D <=> \E s \in Slots : tokenTable[s] = k /\ s[1] = e
  BY DEF DeclaredOn
<1>5. \A e : e \in E <=> \E s \in Slots : new[s] = k /\ s[1] = e
  BY DEF FlowsOf
<1>6. \A x, y \in E : x = y
  BY <1>3, Declared
<1>7. DeclaredOn(k)' = E
  BY DEF DeclaredOn, FlowsOf, new
<1> HIDE DEF D, E
\* Every declaration of k in `slots` goes.
<1>8. \A s \in slots : tokenTable[s] = k => new[s] # k
  BY <1>2, <1>a
<1>9. ASSUME UNCHANGED channel, added = NoToken PROVE E = D
  <2>1. Told = {}
    BY <1>9 DEF Told
  <2>2. \A s \in Slots : new[s] = k <=> tokenTable[s] = k
    BY <1>2, <1>3, <1>9, <1>a, <2>1
  <2> QED
    BY <1>4, <1>5, <2>2
<1>10. ASSUME Deliver(Report(d, slots, added))
       PROVE  \E b \in Batch : channel' = Append(channel, b) /\ E = After(b, k, D)
  <2> DEFINE b == Report(d, slots, added)
  <2>1. channel' = Append(channel, b)
    BY <1>10 DEF Deliver
  <2>2. b \in Batch /\ b.flow = d
    BY <1>a DEF Report, Batch
  <2>3. Left(slots, k) = 0 <=> \A s \in Slots \ slots : tokenTable[s] # k
    BY <1>a, LeftCounts DEF WorkerExact
  <2>4. /\ k \in b.gone <=> Left(slots, k) = 0 /\ \E s \in slots : tokenTable[s] = k
        /\ k \in b.found <=> k = added /\ Left(slots, k) = 0
    BY DEF Report
  <2> HIDE DEF b
  <2>5. Told = {d}
    <3>1. channel' # channel /\ channel'[Len(channel')] = b
      <4>1. Len(channel') = Len(channel) + 1 /\ channel'[Len(channel) + 1] = b
            /\ Len(channel) \in Nat
        BY <1>a, <2>1, <2>2, AppendProperties, LenProperties
      <4> QED
        BY <4>1
    <3> QED
      BY <2>2, <3>1 DEF Told
  <2>6. \A s \in slots : tokenTable[s] = k => s[1] = d
    BY <1>3, <1>8, <2>5
  <2>7. CASE Left(slots, k) = 0
    <3>1. \A e \in D : e = d
      BY <1>4, <2>3, <2>6, <2>7
    <3>2. D # {} => \E s \in slots : tokenTable[s] = k
      BY <1>4, <2>3, <2>7
    <3>3. \A e : e \in E <=> k = added /\ e = d
      <4>1. ASSUME NEW e, e \in E PROVE k = added /\ e = d
        BY <1>2, <1>5, <1>a, <2>3, <2>7, <4>1
      <4>2. ASSUME k = added PROVE d \in E
        BY <1>2, <1>5, <1>a, <4>2
      <4> QED
        BY <4>1, <4>2
    <3> QED
      <4>1. ASSUME k = added PROVE E = After(b, k, D)
        BY <2>2, <2>4, <2>7, <3>1, <3>2, <3>3, <4>1 DEF After, With, Without
      <4>2. ASSUME k # added PROVE E = After(b, k, D)
        BY <2>2, <2>4, <2>7, <3>1, <3>2, <3>3, <4>2 DEF After, With, Without
      <4> QED
        BY <2>1, <2>2, <4>1, <4>2
  <2>8. CASE Left(slots, k) # 0
    <3>1. PICK s \in Slots \ slots : tokenTable[s] = k
      BY <2>3, <2>8
    <3>2. s[1] \in D /\ s[1] \in E
      BY <1>2, <1>4, <1>5, <3>1
    <3>3. \A x, y \in D : x = y
      BY DEF D
    <3>4. E = D
      BY <1>6, <3>2, <3>3
    <3>5. After(b, k, D) = D
      BY <2>4, <2>8 DEF After, With, Without
    <3> QED
      BY <2>1, <2>2, <3>4, <3>5
  <2> QED
    BY <2>7, <2>8
<1>11. \/ channel' = channel /\ E = D
       \/ \E b \in Batch : channel' = Append(channel, b) /\ E = After(b, k, D)
  BY <1>1, <1>9, <1>10
<1> QED
  BY <1>6, <1>7, <1>11 DEF D

\* At the start nothing is declared and nothing known.
LEMMA FollowInit == Init => FollowInv
<1> SUFFICES ASSUME Init, NEW k \in Tokens
             PROVE  /\ \A d, e \in DeclaredOn(k) : d = e
                    /\ Leads(k, channel, g.entities[k] \ {Active}, DeclaredOn(k))
  BY DEF FollowInv
<1>1. DeclaredOn(k) = {} /\ g.entities[k] \ {Active} = {} /\ channel = <<>>
  BY TokenAssumptions DEF Init, TokensInit, DeclaredOn, EmptyGraph
<1>2. Leads(k, <<>>, {}, {})
  BY LeadsNowhere
<1> QED
  BY <1>1, <1>2

\* Every step of the worker, the runtime and the clock keeps it.
LEMMA FollowStep == GraphInv /\ FollowInv /\ [Next]_vars => FollowInv'
<1> SUFFICES ASSUME GraphInv, FollowInv, [Next]_vars,
                    NEW k \in Tokens, k \notin astray'
             PROVE  /\ \A d, e \in DeclaredOn(k)' : d = e
                    /\ Leads(k, channel', g'.entities[k] \ {Active}, DeclaredOn(k)')
  BY DEF FollowInv, Leads
<1> DEFINE F == g.entities[k] \ {Active}
           D == DeclaredOn(k)
<1>a. channel \in Seq(Batch) /\ clock \in Times /\ Exact(g) /\ F \in SUBSET Directions
  BY DEF GraphInv, TypeOK, Graph, Flows
<1>b. k \notin astray => /\ \A d, e \in DeclaredOn(k) : d = e
                         /\ Leads(k, channel, F, D)
  BY DEF FollowInv
\* A step that leaves the declarations alone, and what the runtime knows too.
<1>c. ASSUME UNCHANGED <<workerVars, channel>>, k \notin astray, g'.entities[k] \ {Active} = F
      PROVE  /\ \A d, e \in DeclaredOn(k)' : d = e
             /\ Leads(k, channel', g'.entities[k] \ {Active}, DeclaredOn(k)')
  <2>1. DeclaredOn(k)' = D
    BY <1>c DEF workerVars, DeclaredOn
  <2> HIDE DEF F
  <2> QED
    BY <1>b, <1>c, <2>1
<1>1. CASE WorkerStep
  <2>1. k \notin astray /\ g' = g
    BY <1>1 DEF WorkerStep
  <2>2. /\ \A d, e \in DeclaredOn(k)' : d = e
        /\ \/ channel' = channel /\ DeclaredOn(k)' = D
           \/ \E b \in Batch : channel' = Append(channel, b) /\ DeclaredOn(k)' = After(b, k, D)
    BY <1>1, <1>b, <2>1, WorkerReports
  <2> HIDE DEF D, F
  <2>3. Leads(k, channel', F, DeclaredOn(k)')
    BY <1>a, <1>b, <2>1, <2>2, LeadsThenBatch
  <2>4. g'.entities[k] \ {Active} = F
    BY <2>1 DEF F
  <2> QED
    BY <2>2, <2>3, <2>4
<1>2. CASE HandleZenohEvent
  <2> DEFINE b == Head(channel)
  <2>1. channel # <<>> /\ g' = Handled(g, b) /\ channel' = Tail(channel)
        /\ UNCHANGED <<workerVars, astray>>
    BY <1>2 DEF HandleZenohEvent, Handled
  <2>2. b \in Batch
    BY <1>a, <2>1, HeadTailProperties
  <2>3. DeclaredOn(k)' = D /\ k \notin astray
    BY <2>1 DEF workerVars, DeclaredOn
  <2> HIDE DEF D
  <2>4. Leads(k, channel', After(b, k, F), D)
    BY <1>a, <1>b, <2>1, <2>3, LeadsFromHead
  <2>5. g'.entities[k] = After(b, k, g.entities[k])
    BY <1>a, <2>1, <2>2, HandledExact
  <2>6. b.flow # Active
    BY <2>2, Sorts DEF Batch
  <2> HIDE DEF b
  <2>7. After(b, k, g.entities[k]) \ {Active} = After(b, k, F)
    BY <2>6 DEF After, With, Without
  <2> HIDE DEF F
  <2> QED
    BY <1>b, <2>3, <2>4, <2>5, <2>7 DEF D
<1>3. CASE Sweep
  <2> DEFINE G == ExpireInactiveFlows(g, clock)
  <2>1. k \notin astray /\ G.entities[k] = g.entities[k] /\ UNCHANGED <<workerVars, channel>>
        /\ g' = ExpireStale(RefreshDiscovery(G, clock), clock)
    BY <1>3 DEF Sweep
  <2>2. Exact(G)
    BY <1>a, ExpireInactiveFlowsExact
  <2> HIDE DEF G
  <2>3. g'.entities = G.entities
    BY <1>a, <2>1, <2>2, RefreshDiscoveryExact
  <2>4. g'.entities[k] \ {Active} = F
    BY <2>1, <2>3
  <2> QED
    BY <1>c, <2>1, <2>4
<1>4. CASE Tick
  BY <1>4, <1>c DEF Tick
<1>5. ASSUME NEW answer \in SUBSET Tokens, NEW at \in clock - QueryTime .. clock,
             at >= 0, Discover(answer, at)
      PROVE  /\ \A d, e \in DeclaredOn(k)' : d = e
             /\ Leads(k, channel', g'.entities[k] \ {Active}, DeclaredOn(k)')
  <2>1. at \in Times
    BY <1>5, <1>a, TokenAssumptions, GraphAssumptions DEF Times
  <2>2. g' = Discovered(g, answer, at) /\ UNCHANGED <<workerVars, channel, astray>>
    BY <1>5 DEF Discover, Discovered
  <2>3. g'.entities[k] \ {Active} = F
    BY <1>a, <2>1, <2>2, DiscoveredExact
  <2> QED
    BY <1>c, <2>2, <2>3
<1>6. CASE UNCHANGED vars
  BY <1>6, <1>c DEF vars
<1> QED
  BY <1>1, <1>2, <1>3, <1>4, <1>5, <1>6 DEF Next

\* When the runtime has handled every batch it knows a token exactly by the
\* flow that declares it: no sequence of declarations, replacements, closes,
\* resets and evictions of any number of flows leaves one behind, except for
\* the tokens gone astray.
THEOREM RuntimeFollowsWorker == Spec => []TokensFollowed
<1>1. Init => GraphInv /\ FollowInv
  BY GraphInvInit, FollowInit
<1>2. GraphInv /\ FollowInv /\ [Next]_vars => (GraphInv /\ FollowInv)'
  BY GraphInvStep, FollowStep
<1>3. GraphInv /\ FollowInv => TokensFollowed
  <2> SUFFICES ASSUME GraphInv, FollowInv, channel = <<>>, NEW k \in Tokens \ astray
               PROVE  g.entities[k] \ {Active} = DeclaredOn(k)
    BY DEF TokensFollowed
  <2>1. Leads(k, <<>>, g.entities[k] \ {Active}, DeclaredOn(k))
    BY DEF FollowInv
  <2>2. g.entities[k] \ {Active} \in SUBSET Directions
    BY DEF GraphInv, TypeOK, Graph, Flows
  <2> QED
    BY <2>1, <2>2, LeadsNowhere
<1> QED
  BY <1>1, <1>2, <1>3, PTL DEF Spec

----------------------------------------------------------------------------
(* The topic filter and its copies in the kernel.                           *)

Modes == [all : BOOLEAN, topics : SUBSET Topics]

\* Every mode that is ever configured is a GidMapMode.
LEMMA ModesTyped ==
    /\ ModeNone \in Modes
    /\ \A t \in SUBSET Topics : BuildMode(t) \in Modes
    /\ \A rec \in BOOLEAN, t \in SUBSET Topics,
          obs \in [Observers -> Topics \cup {NoTopic}] :
              WantedMode(rec, t, obs) \in Modes
<1>1. ModeNone \in Modes
  BY DEF ModeNone, Mode, Modes
<1>2. \A t \in SUBSET Topics : BuildMode(t) \in Modes
  BY DEF BuildMode, Mode, Modes
<1>3. ASSUME NEW rec \in BOOLEAN, NEW t \in SUBSET Topics,
             NEW obs \in [Observers -> Topics \cup {NoTopic}]
      PROVE  WantedMode(rec, t, obs) \in Modes
  <2>1. Observed(obs) \in SUBSET Topics
    BY <1>3 DEF Observed
  <2> QED
    BY <1>1, <1>2, <1>3, <2>1 DEF WantedMode
<1> QED
  BY <1>1, <1>2, <1>3

\* select_from_table returns GIDs of the table.
LEMMA SelectTyped ==
    ASSUME NEW m, NEW gids \in SUBSET Gids
    PROVE  Select(m, gids) \in SUBSET Gids
BY DEF Select, Gids

\* The handlers keep the sessions, both copies of the map and the progress of
\* a rebuild well-formed.
THEOREM FilterTypeCorrect == FilterSpec => []FilterTypeOK
<1>1. FilterInit => FilterTypeOK
  <2>1. ModeNone \in Modes
    BY ModesTyped
  <2> SUFFICES ASSUME FilterInit PROVE FilterTypeOK
    OBVIOUS
  <2>2. mode \in Modes /\ previousMode \in Modes
    BY <2>1 DEF FilterInit
  <2>3. observing \in [Observers -> Topics \cup {NoTopic}]
    BY DEF FilterInit
  <2> QED
    BY <2>2, <2>3 DEF FilterInit, FilterTypeOK, Modes, Phases, Callers
<1>2. FilterTypeOK /\ [FilterNext]_filterVars => FilterTypeOK'
  <2> SUFFICES ASSUME FilterTypeOK, [FilterNext]_filterVars PROVE FilterTypeOK'
    OBVIOUS
  <2> USE FilterAssumptions DEF FilterTypeOK, Phases, Callers, Modes
  <2>0. /\ ModeNone \in Modes
        /\ Wanted \in Modes
        /\ WantedMode(FALSE, {}, observing) \in Modes
        /\ Select(mode, published) \in SUBSET Gids
    BY ModesTyped, SelectTyped DEF Wanted
  <2>1. CASE SelectFromTable
    BY <2>0, <2>1 DEF SelectFromTable, Abort, EndHandler, Rebuild, sessionVars
  <2>a. ASSUME Abort
        PROVE  /\ mode' \in Modes /\ previousMode' \in Modes /\ pc' \in Phases
               /\ cont' \in Callers /\ next' \subseteq Gids /\ synced' \in BOOLEAN
    BY <2>0, <2>a DEF Abort, EndHandler, Rebuild
  <2>2. ASSUME NEW gid \in Gids, SyncRemove(gid) PROVE FilterTypeOK'
    <3>1. /\ mode' \in Modes /\ previousMode' \in Modes /\ pc' \in Phases
          /\ cont' \in Callers /\ next' \subseteq Gids /\ synced' \in BOOLEAN
      BY <2>2, <2>a DEF SyncRemove
    <3>2. kernel' \subseteq Gids /\ current' \subseteq Gids /\ faults' \in Nat
      BY <2>2 DEF SyncRemove
    <3>3. outdated' \subseteq current'
      BY <2>2 DEF SyncRemove
    <3> QED
      BY <2>2, <3>1, <3>2, <3>3 DEF SyncRemove, sessionVars
  <2>3. ASSUME NEW gid \in Gids, SyncInsert(gid) PROVE FilterTypeOK'
    <3>1. /\ mode' \in Modes /\ previousMode' \in Modes /\ pc' \in Phases
          /\ cont' \in Callers /\ next' \subseteq Gids /\ synced' \in BOOLEAN
      BY <2>3, <2>a DEF SyncInsert
    <3>2. kernel' \subseteq Gids /\ current' \subseteq Gids /\ faults' \in Nat
      BY <2>3 DEF SyncInsert
    <3>3. outdated' \subseteq current' /\ lost' \subseteq Gids
      BY <2>3 DEF SyncInsert
    <3> QED
      BY <2>3, <3>1, <3>2, <3>3 DEF SyncInsert, sessionVars
  <2>4. CASE SyncDone
    BY <2>0, <2>4 DEF SyncDone, EndHandler, sessionVars
  <2>5. ASSUME NEW topics \in SUBSET Topics, BagRecord(topics) PROVE FilterTypeOK'
    BY <2>0, <2>5, ModesTyped DEF BagRecord, Rebuild, sessionVars, histVars
  <2>6. ASSUME NEW noDisc \in BOOLEAN, StartRecorder(noDisc) PROVE FilterTypeOK'
    <3>1. mode.topics \in SUBSET Topics
      OBVIOUS
    <3>2. WantedMode(TRUE, mode.topics, observing) \in Modes
      BY <3>1, ModesTyped
    <3> QED
      BY <2>0, <2>6, <3>1, <3>2 DEF StartRecorder, Rebuild, histVars
  <2>7. CASE BagStop
    BY <2>0, <2>7 DEF BagStop, Rebuild
  <2>8. ASSUME NEW gid \in Gids, ClearRemove(gid) PROVE FilterTypeOK'
    <3>1. /\ mode' \in Modes /\ pc' \in Phases /\ cont' \in Callers
          /\ next' \subseteq Gids /\ lost' \subseteq Gids
      BY <2>0, <2>8 DEF ClearRemove, Rebuild, Wanted
    <3>2. kernel' \subseteq Gids /\ faults' \in Nat
      BY <2>8 DEF ClearRemove
    <3> QED
      BY <2>8, <3>1, <3>2 DEF ClearRemove, sessionVars
  <2>9. CASE ClearDone
    BY <2>0, <2>9 DEF ClearDone, Rebuild, Wanted, sessionVars, histVars
  <2>10. ASSUME NEW o \in Observers, NEW t \in Topics, ObserverStart(o, t)
         PROVE FilterTypeOK'
    <3>1. observing' \in [Observers -> Topics \cup {NoTopic}]
      BY <2>10 DEF ObserverStart
    <3>2. WantedMode(recording, recTopics, observing') \in Modes
      BY <3>1, ModesTyped
    <3> QED
      BY <2>0, <2>10, <3>1, <3>2 DEF ObserverStart, Rebuild, histVars
  <2>11. ASSUME NEW o \in Observers, ObserverStop(o) PROVE FilterTypeOK'
    <3>1. observing' \in [Observers -> Topics \cup {NoTopic}]
      BY <2>11 DEF ObserverStop
    <3>2. WantedMode(recording, recTopics, observing') \in Modes
      BY <3>1, ModesTyped
    <3> QED
      BY <2>0, <2>11, <3>1, <3>2 DEF ObserverStop, Rebuild, histVars
  <2>12. CASE \E gid \in Gids : SedpInserted(gid)
    BY <2>0, <2>12 DEF SedpInserted, Rebuild, Wanted, sessionVars, histVars
  <2>17. CASE \E gid \in Gids : SedpUpdated(gid)
    BY <2>17 DEF SedpUpdated, sessionVars, histVars
  <2>13. CASE \E gone \in SUBSET Gids : Removed(gone)
    BY <2>0, <2>13 DEF Removed, Rebuild, Wanted, sessionVars, histVars
  <2>14. CASE \E p \in Packets : KernelAccept(p)
    BY <2>14 DEF KernelAccept, sessionVars, mapVars, histVars
  <2>15. ASSUME NEW p \in Packets, HandleData(p) PROVE FilterTypeOK'
    <3>1. MatchedTopics(p) \in SUBSET Topics
      BY <2>15 DEF MatchedTopics, Packet
    <3>2. recorded' \in SUBSET Topics
      BY <2>15, <3>1 DEF HandleData
    <3> QED
      BY <2>15, <3>2 DEF HandleData, sessionVars, mapVars
  <2>16. CASE UNCHANGED filterVars
    BY <2>16 DEF filterVars, sessionVars, mapVars, histVars
  <2> QED
    BY <2>1, <2>2, <2>3, <2>4, <2>5, <2>6, <2>7, <2>8, <2>9, <2>10, <2>11,
       <2>12, <2>13, <2>14, <2>15, <2>16, <2>17 DEF FilterNext, MapStep, Dead
<1> QED
  BY <1>1, <1>2, PTL DEF FilterSpec

----------------------------------------------------------------------------
(* The inductive invariant.  FilterExact speaks of the moments between two *)
(* handlers; what carries it through a handler is which mode is configured *)
(* for whom (ModeInv) and what the rebuild under way is about to establish *)
(* (SelectionInv).                                                         *)

MapInv ==
    /\ lost \subseteq current
    /\ KernelMirrorsCurrent
    /\ pc = "clear" => lost \subseteq next /\ next \subseteq current /\ kernel = next \ lost

ModeInv ==
    /\ pc \in {"idle", "dead"} => mode = Wanted
    /\ pc \in {"rebuild", "sync"} /\ cont # "record" => mode = Wanted
    /\ pc \in {"rebuild", "sync", "start"} /\ cont = "record" => previousMode = Wanted
    /\ pc = "start" => cont = "record"

SelectionInv ==
    /\ pc = "sync" => next = Select(mode, published)
    /\ pc = "idle" /\ synced => current = Select(mode, published)

FaultInv ==
    /\ lost # {} => faults > 0
    /\ DiesOnlyOnFilterError

FilterInv == MapInv /\ ModeInv /\ SelectionInv /\ FaultInv

\* Every step of a handler preserves the inductive invariant.
LEMMA FilterInvStep == FilterTypeOK /\ FilterInv /\ [FilterNext]_filterVars => FilterInv'
<1> SUFFICES ASSUME FilterTypeOK, FilterInv, [FilterNext]_filterVars PROVE FilterInv'
  OBVIOUS
<1> USE FilterAssumptions
    DEF FilterInv, MapInv, ModeInv, SelectionInv, FaultInv, KernelMirrorsCurrent,
        DiesOnlyOnFilterError, Wanted
<1>1. CASE SelectFromTable
  BY <1>1 DEF SelectFromTable, Abort, EndHandler, Rebuild, sessionVars
<1>2. ASSUME NEW gid \in Gids, SyncRemove(gid) PROVE FilterInv'
  <2>1. CASE gid \in kernel /\ kernel' = kernel \ {gid} /\ current' = current \ {gid}
             /\ outdated' = outdated \ {gid}
             /\ UNCHANGED <<mode, previousMode, pc, cont, next, synced, faults>>
    BY <1>2, <2>1 DEF SyncRemove, sessionVars
  <2>2. CASE (gid \in kernel => faults < MaxFaults)
             /\ faults' = (IF gid \in kernel THEN faults + 1 ELSE faults)
             /\ Abort /\ UNCHANGED <<kernel, current, outdated>>
    <3>1. faults' > 0
      BY <1>2, <2>2 DEF SyncRemove, FilterTypeOK
    <3> QED
      BY <1>2, <2>2, <3>1 DEF SyncRemove, Abort, EndHandler, Rebuild, sessionVars
  <2> QED
    BY <1>2, <2>1, <2>2 DEF SyncRemove
<1>3. ASSUME NEW gid \in Gids, SyncInsert(gid) PROVE FilterInv'
  <2>1. CASE kernel' = kernel \cup {gid} /\ current' = current \cup {gid}
             /\ outdated' = outdated \ {gid} /\ lost' = lost \ {gid}
             /\ UNCHANGED <<mode, previousMode, pc, cont, next, synced, faults>>
    BY <1>3, <2>1 DEF SyncInsert, sessionVars
  <2>2. CASE faults < MaxFaults /\ faults' = faults + 1
             /\ Abort /\ UNCHANGED <<kernel, current, outdated, lost>>
    <3>1. faults' > 0
      BY <2>2 DEF FilterTypeOK
    <3> QED
      BY <1>3, <2>2, <3>1 DEF SyncInsert, Abort, EndHandler, Rebuild, sessionVars
  <2> QED
    BY <1>3, <2>1, <2>2 DEF SyncInsert
<1>4. CASE SyncDone
  BY <1>4 DEF SyncDone, EndHandler, sessionVars, FilterTypeOK, Callers
<1>5. ASSUME NEW topics \in SUBSET Topics, BagRecord(topics) PROVE FilterInv'
  BY <1>5 DEF BagRecord, Rebuild, sessionVars, histVars
<1>6. ASSUME NEW noDisc \in BOOLEAN, StartRecorder(noDisc) PROVE FilterInv'
  BY <1>6 DEF StartRecorder, Rebuild, histVars
<1>7. CASE BagStop
  BY <1>7 DEF BagStop, Rebuild
<1>8. ASSUME NEW gid \in Gids, ClearRemove(gid) PROVE FilterInv'
  <2>1. CASE gid \in kernel /\ kernel' = kernel \ {gid} /\ next' = next \ {gid}
             /\ UNCHANGED <<mode, pc, cont, lost, faults>>
    BY <1>8, <2>1 DEF ClearRemove, sessionVars
  <2>2. CASE lost' = lost \cup (current \ next) /\ UNCHANGED kernel
             /\ faults' = (IF gid \in kernel THEN faults + 1 ELSE faults)
             /\ Rebuild(WantedMode(recording, recTopics, observing), "command")
    <3>1. faults' > 0
      BY <1>8, <2>2 DEF ClearRemove, FilterTypeOK
    <3> QED
      BY <1>8, <2>2, <3>1 DEF ClearRemove, Rebuild, sessionVars
  <2> QED
    BY <1>8, <2>1, <2>2 DEF ClearRemove
<1>9. CASE ClearDone
  BY <1>9 DEF ClearDone, Rebuild, sessionVars, histVars
<1>10. ASSUME NEW o \in Observers, NEW t \in Topics, ObserverStart(o, t)
       PROVE FilterInv'
  BY <1>10 DEF ObserverStart, Rebuild, histVars
<1>11. ASSUME NEW o \in Observers, ObserverStop(o) PROVE FilterInv'
  BY <1>11 DEF ObserverStop, Rebuild, histVars
<1>12. CASE \E gid \in Gids : SedpInserted(gid)
  BY <1>12 DEF SedpInserted, Rebuild, sessionVars, histVars
<1>17. CASE \E gid \in Gids : SedpUpdated(gid)
  BY <1>17 DEF SedpUpdated, sessionVars, histVars
<1>13. CASE \E gone \in SUBSET Gids : Removed(gone)
  BY <1>13 DEF Removed, Rebuild, sessionVars, histVars
<1>14. CASE \E p \in Packets : KernelAccept(p)
  BY <1>14 DEF KernelAccept, sessionVars, mapVars, histVars
<1>15. CASE \E p \in Packets : HandleData(p)
  BY <1>15 DEF HandleData, sessionVars, mapVars
<1>16. CASE UNCHANGED filterVars
  BY <1>16 DEF filterVars, sessionVars, mapVars, histVars
<1> QED
  BY <1>1, <1>2, <1>3, <1>4, <1>5, <1>6, <1>7, <1>8, <1>9, <1>10, <1>11,
     <1>12, <1>13, <1>14, <1>15, <1>16, <1>17 DEF FilterNext, MapStep, Dead

\* The inductive invariant holds in every reachable state.
LEMMA FilterInvariant == FilterSpec => []FilterInv
<1>1. FilterInit => FilterInv
  <2> SUFFICES ASSUME FilterInit PROVE FilterInv
    OBVIOUS
  <2>1. Observed(observing) = {}
    BY DEF FilterInit, Observed
  <2>2. mode = Wanted
    BY <2>1 DEF FilterInit, Wanted, WantedMode
  <2>3. Select(mode, published) = {}
    BY DEF FilterInit, Select
  <2> QED
    BY <2>2, <2>3 DEF FilterInit, FilterInv, MapInv, ModeInv, SelectionInv, FaultInv,
       KernelMirrorsCurrent, DiesOnlyOnFilterError
<1> QED
  BY <1>1, FilterTypeCorrect, FilterInvStep, PTL DEF FilterSpec

\* Between two handlers, and unless the last rebuild failed, the runtime's copy
\* is exactly what the sessions and the discovery table call for, and the
\* kernel map is that without the GIDs that a clear cut short had removed.
THEOREM FilterIsExact == FilterSpec => []FilterExact
<1>1. FilterInv => FilterExact
  BY DEF FilterInv, MapInv, KernelMirrorsCurrent, ModeInv, SelectionInv, FilterExact
<1> QED
  BY <1>1, FilterInvariant, PTL

\* The kernel never passes a GID that the runtime does not know.
THEOREM KernelNeverAhead == FilterSpec => []KernelWithinCurrent
<1>1. FilterInv => KernelWithinCurrent
  BY DEF FilterInv, MapInv, KernelMirrorsCurrent, KernelWithinCurrent
<1> QED
  BY <1>1, FilterInvariant, PTL

\* Outside of a clear the kernel has the runtime's copy without what clears cut
\* short had removed; a system call that fails in a rebuild changes nothing
\* about that.
THEOREM CopiesStayEqual == FilterSpec => []KernelMirrorsCurrent
<1>1. FilterInv => KernelMirrorsCurrent
  BY DEF FilterInv, MapInv
<1> QED
  BY <1>1, FilterInvariant, PTL

\* The filter ends the runtime only after a failed system call or when more
\* than MAX_TOPIC_GIDS endpoints are selected.
THEOREM DeathIsExplained == FilterSpec => []DiesOnlyOnFilterError
<1>1. FilterInv => DiesOnlyOnFilterError
  BY DEF FilterInv, FaultInv
<1> QED
  BY <1>1, FilterInvariant, PTL

\* After every rebuild that succeeds the kernel passes what the sessions need
\* and nothing else, but for the GIDs that clears cut short had removed, and the
\* runtime ends only for a failed system call or a full map.
THEOREM FilterIsSound == FilterSpec => []FilterSound
BY FilterIsExact, DeathIsExplained, PTL DEF FilterSound

\* The runtime's copy of the map is never behind the kernel's, and outside of a
\* clear ahead of it only by what clears cut short had removed.
THEOREM CopiesAlwaysAgree == FilterSpec => []CopiesAgree
BY KernelNeverAhead, CopiesStayEqual, PTL DEF CopiesAgree
=============================================================================
