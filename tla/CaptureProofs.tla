--------------------------- MODULE CaptureProofs ----------------------------
(***************************************************************************)
(* Proofs about the way from the wire to the parsers (IpCapture): the      *)
(* tables and queues stay exact and within their bounds, what leaves a     *)
(* reassembler is one datagram whole, and a wanted datagram leaves at least *)
(* one of them.  About the table of the endpoints that the captured        *)
(* discovery samples announce (DiscoveryTable), for any participants,      *)
(* endpoints, GIDs, leases, TTL, delay and clock.  And about the transport *)
(* of the captured zenoh traffic (ZenohTransport): the workers stay within *)
(* their bounds, TCP streams and fragmented messages stay whole, for any   *)
(* flows, workers, limits and any traffic that keeps the assumptions.      *)
(***************************************************************************)
EXTENDS IpCapture, DiscoveryTable, ZenohTransport, CommonLemmas

----------------------------------------------------------------------------
(* Datagrams and their fragments.                                          *)

\* The fragments of a datagram: their number, lengths and offsets.
LEMMA FragmentForm ==
    ASSUME NEW d \in Datagrams
    PROVE  /\ Frags(d) \in Nat \ {0}
           /\ \A k \in 1 .. Frags(d) : Of[d].lens[k] \in Nat \ {0}
           /\ Offset[d] \in [1 .. Frags(d) + 1 -> Int]
           /\ Offset[d][1] = 0
           /\ \A k \in 1 .. Frags(d) : Offset[d][k + 1] = Offset[d][k] + Of[d].lens[k]
<1> DEFINE L == Of[d].lens
           N == Frags(d)
           u == CHOOSE g : g = [k \in 0 .. N |-> IF k = 0 THEN 0 ELSE g[k - 1] + L[k]]
<1>1. L \in Seq(Nat \ {0}) /\ L # <<>>
  BY OfAssumption
<1>2. N \in Nat \ {0} /\ \A k \in 1 .. N : L[k] \in Nat \ {0}
  <2>1. Len(L) \in Nat /\ Len(L) # 0 /\ \A k \in 1 .. Len(L) : L[k] \in Nat \ {0}
    <3> HIDE DEF L
    <3> QED
      BY <1>1, EmptySeq
  <2> QED
    BY <2>1 DEF Frags
<1>3. Offset[d] = [k \in 1 .. N + 1 |-> u[k - 1]]
  BY DEF Offset
<1> HIDE DEF L, N
<1>4. /\ u \in [0 .. N -> Int] /\ u[0] = 0
      /\ \A n \in 1 .. N : u[n] = u[n - 1] + L[n]
  <2>1. \A n \in 1 .. N : L[n] \in Int
    BY <1>2
  <2> QED
    BY <1>2, <2>1, RunningSum
<1> HIDE DEF u
<1>5. Offset[d] \in [1 .. N + 1 -> Int]
  BY <1>2, <1>3, <1>4
<1>6. Offset[d][1] = 0
  BY <1>2, <1>3, <1>4
<1>7. ASSUME NEW k \in 1 .. N PROVE Offset[d][k + 1] = Offset[d][k] + L[k]
  <2>1. k + 1 \in 1 .. N + 1 /\ k \in 1 .. N + 1 /\ (k + 1) - 1 = k
    BY <1>2
  <2>2. Offset[d][k + 1] = u[k] /\ Offset[d][k] = u[k - 1]
    BY <1>3, <2>1
  <2> QED
    BY <1>4, <2>2
<1> QED
  BY <1>2, <1>5, <1>6, <1>7 DEF L, N

\* Offsets grow from fragment to fragment, so that no two are the same.
LEMMA OffsetsGrow ==
    ASSUME NEW d \in Datagrams
    PROVE  /\ \A k \in 1 .. Frags(d) + 1 : Offset[d][k] \in Nat
           /\ \A j, k \in 1 .. Frags(d) + 1 : j < k => Offset[d][j] < Offset[d][k]
<1> DEFINE N == Frags(d)
           f == Offset[d]
<1>1. /\ N \in Nat \ {0} /\ f \in [1 .. N + 1 -> Int] /\ f[1] = 0
      /\ \A k \in 1 .. N : f[k] < f[k + 1]
  <2>1. ASSUME NEW k \in 1 .. N PROVE f[k] < f[k + 1]
    <3>1. f[k + 1] = f[k] + Of[d].lens[k] /\ Of[d].lens[k] \in Nat \ {0}
      BY FragmentForm
    <3>2. N \in Nat \ {0} /\ f \in [1 .. N + 1 -> Int]
      BY FragmentForm
    <3>3. f[k] \in Int
      <4>1. k \in 1 .. N + 1
        BY <3>2
      <4> HIDE DEF N, f
      <4> QED
        BY <3>2, <4>1
    <3> HIDE DEF N, f
    <3> QED
      BY <3>1, <3>3
  <2> QED
    BY <2>1, FragmentForm
<1> HIDE DEF N, f
<1> DEFINE T == {n \in 0 .. N : \A j \in 1 .. n + 1 : j # n + 1 => f[j] < f[n + 1]}
<1>2. 0 \in T
  BY <1>1
<1>3. ASSUME NEW n \in 0 .. N, n < N, n \in T PROVE n + 1 \in T
  <2>1. n + 1 \in 1 .. N /\ n + 1 \in 0 .. N
    BY <1>1, <1>3
  <2>2. f[n + 1] < f[(n + 1) + 1]
    BY <1>1, <2>1
  <2>3. ASSUME NEW j \in 1 .. (n + 1) + 1, j # (n + 1) + 1 PROVE f[j] < f[(n + 1) + 1]
    <3>1. CASE j = n + 1
      BY <2>2, <3>1
    <3>2. CASE j # n + 1
      <4>1. j \in 1 .. n + 1
        BY <2>3, <3>2
      <4>2. f[j] < f[n + 1]
        BY <1>3, <3>2, <4>1
      <4>3. f[j] \in Int /\ f[n + 1] \in Int /\ f[(n + 1) + 1] \in Int
        BY <1>1, <2>1, <4>1
      <4> QED
        BY <2>2, <4>2, <4>3
    <3> QED
      BY <3>1, <3>2
  <2> QED
    BY <2>1, <2>3
<1> HIDE DEF T
<1>4. 0 .. N \subseteq T
  BY <1>1, <1>2, <1>3, BoundedInduction
<1>5. ASSUME NEW j \in 1 .. N + 1, NEW k \in 1 .. N + 1, j < k PROVE f[j] < f[k]
  <2>1. k - 1 \in 0 .. N /\ (k - 1) + 1 = k
    BY <1>1
  <2>2. k - 1 \in T
    BY <1>4, <2>1
  <2> QED
    BY <1>5, <2>1, <2>2 DEF T
<1>6. ASSUME NEW k \in 1 .. N + 1 PROVE f[k] \in Nat
  <2>1. 1 \in 1 .. N + 1 /\ f[k] \in Int
    BY <1>1
  <2>2. CASE k = 1
    BY <1>1, <2>2
  <2>3. CASE k # 1
    <3>1. 1 < k
      BY <2>3
    <3>2. f[1] < f[k]
      BY <1>5, <2>1, <3>1
    <3> QED
      BY <1>1, <2>1, <3>2
  <2> QED
    BY <2>2, <2>3
<1> QED
  BY <1>5, <1>6 DEF N, f

\* What the proofs use of a fragment: it is not empty, it ends where the next
\* one starts, at the latest at the datagram's end, and its offset names it.
LEMMA FragmentOf ==
    ASSUME NEW d \in Datagrams, NEW k \in 1 .. Frags(d)
    PROVE  /\ Offset[d][k] \in Nat /\ Of[d].lens[k] \in Nat \ {0}
           /\ Offset[d][k + 1] = Offset[d][k] + Of[d].lens[k]
           /\ Offset[d][k + 1] \in Nat \ {0}
           /\ Offset[d][1] = 0 /\ Size(d) = Offset[d][Frags(d) + 1]
           /\ k < Frags(d) => Offset[d][k + 1] < Size(d)
           /\ Size(d) \in Nat \ {0}
           /\ \A j \in 1 .. Frags(d) : Offset[d][j] = Offset[d][k] => j = k
<1>1. /\ Frags(d) \in Nat \ {0} /\ Of[d].lens[k] \in Nat \ {0} /\ Offset[d][1] = 0
      /\ Offset[d][k + 1] = Offset[d][k] + Of[d].lens[k]
  BY FragmentForm
<1>2. /\ k + 1 \in 1 .. Frags(d) + 1 /\ k \in 1 .. Frags(d) + 1 /\ 1 < Frags(d) + 1
      /\ 1 \in 1 .. Frags(d) + 1 /\ Frags(d) + 1 \in 1 .. Frags(d) + 1
  BY <1>1
<1> DEFINE f == Offset[d]
<1>3. /\ \A j \in 1 .. Frags(d) + 1 : f[j] \in Nat
      /\ \A i, j \in 1 .. Frags(d) + 1 : i < j => f[i] < f[j]
  BY OffsetsGrow
<1>4. f[k] \in Nat /\ f[k + 1] \in Nat /\ f[Frags(d) + 1] \in Nat
  BY <1>2, <1>3
<1>5. f[k + 1] \in Nat \ {0}
  BY <1>1, <1>4
<1>6. f[Frags(d) + 1] \in Nat \ {0}
  <2>1. f[1] < f[Frags(d) + 1]
    BY <1>2, <1>3
  <2> QED
    BY <1>1, <1>4, <2>1
<1>7. k < Frags(d) => f[k + 1] < f[Frags(d) + 1]
  <2>1. k < Frags(d) => k + 1 < Frags(d) + 1
    BY <1>1
  <2> QED
    BY <1>2, <1>3, <2>1
<1>8. ASSUME NEW j \in 1 .. Frags(d), f[j] = f[k] PROVE j = k
  <2>1. j \in 1 .. Frags(d) + 1
    BY <1>1
  <2>2. ~(j < k) /\ ~(k < j)
    BY <1>2, <1>3, <1>4, <1>8, <2>1
  <2> QED
    BY <1>1, <2>2
<1> QED
  BY <1>1, <1>4, <1>5, <1>6, <1>7, <1>8 DEF Size

----------------------------------------------------------------------------
(* Flows: what a reassembler keeps of a datagram, and what it makes of it. *)

\* What a flow is, whatever its fragments were: a total only from a last
\* fragment, ranges sorted and apart, and chunks inside them.
FlowTyped(st) ==
  /\ st.total \in (Nat \ {0}) \cup {-1}
  /\ st.ranges \in Ranges /\ Separated(st.ranges)
  /\ DOMAIN st.chunks \subseteq Nat
  /\ \A o \in DOMAIN st.chunks :
       /\ st.chunks[o].len \in Nat \ {0} /\ st.chunks[o].of \in Datagrams
       /\ o .. o + st.chunks[o].len - 1 \subseteq Covered(st.ranges)

\* A flow in which only the fragments of d were written, each at its place.
Pure(st, d) ==
  /\ st.total \in {-1, Size(d)}
  /\ \A o \in DOMAIN st.chunks : \E k \in 1 .. Frags(d) :
       o = Offset[d][k] /\ st.chunks[o].len = Of[d].lens[k] /\ st.chunks[o].of = d
  /\ \A x \in Covered(st.ranges) :
       \E o \in DOMAIN st.chunks : o <= x /\ x < o + st.chunks[o].len

\* A flow that holds the first n fragments of d, and those only.
Upto(st, d, n) ==
  /\ Pure(st, d)
  /\ Covered(st.ranges) = 0 .. Offset[d][n + 1] - 1
  /\ st.total = IF n = Frags(d) THEN Size(d) ELSE -1

\* A flow without a fragment.
LEMMA NewFlowIs ==
    ASSUME NEW d \in Datagrams
    PROVE  FlowTyped(NewFlow) /\ Pure(NewFlow, d) /\ Covered(NewFlow.ranges) = {}
           /\ NewFlow.total = -1
<1>1. NewFlow.total = -1 /\ NewFlow.ranges = <<>> /\ NewFlow.chunks = <<>>
  BY DEF NewFlow
<1>2. <<>> \in Ranges /\ DOMAIN <<>> = {}
  BY DEF Ranges
<1>3. Covered(<<>>) = {} /\ Separated(<<>>)
  BY <1>2 DEF Covered, Separated
<1> QED
  BY <1>1, <1>2, <1>3 DEF FlowTyped, Pure

\* The parts of a flow after a fragment.
LEMMA WriteForm ==
    ASSUME NEW d \in Datagrams, NEW k \in 1 .. Frags(d), NEW st, FlowTyped(st)
    PROVE  LET new  == WriteFragment(st, d, k)
               from == Offset[d][k]
           IN  /\ new.total = IF k = Frags(d) THEN Size(d) ELSE st.total
               /\ new.ranges \in Ranges /\ Separated(new.ranges)
               /\ Covered(new.ranges) = Covered(st.ranges) \cup (from .. Offset[d][k + 1] - 1)
               /\ DOMAIN new.chunks = DOMAIN st.chunks \cup {from}
               /\ new.chunks[from].len = Of[d].lens[k] /\ new.chunks[from].of = d
               /\ \A o \in DOMAIN st.chunks : o # from => new.chunks[o] = st.chunks[o]
<1> DEFINE new  == WriteFragment(st, d, k)
           from == Offset[d][k]
           end  == Offset[d][k] + Of[d].lens[k]
<1>1. /\ new.total = IF k = Frags(d) THEN end ELSE st.total
      /\ new.ranges = InsertRange(st.ranges, from, end)
      /\ new.chunks = [o \in DOMAIN st.chunks \cup {from} |->
                         IF o = from THEN [len |-> Of[d].lens[k], of |-> d]
                         ELSE st.chunks[o]]
  BY DEF WriteFragment
<1>2. /\ from \in Nat /\ end \in Nat /\ end = Offset[d][k + 1]
      /\ Size(d) = Offset[d][Frags(d) + 1]
  BY FragmentOf
<1>3. st.ranges \in Ranges /\ Separated(st.ranges)
  BY DEF FlowTyped
<1> HIDE DEF new, from, end
<1>4. /\ new.ranges \in Ranges /\ Separated(new.ranges)
      /\ Covered(new.ranges) = Covered(st.ranges) \cup (from .. end - 1)
  BY <1>1, <1>2, <1>3, InsertRangeKeeps
<1>5. /\ DOMAIN new.chunks = DOMAIN st.chunks \cup {from}
      /\ new.chunks[from] = [len |-> Of[d].lens[k], of |-> d]
      /\ \A o \in DOMAIN st.chunks : o # from => new.chunks[o] = st.chunks[o]
  BY <1>1
<1>6. k = Frags(d) => end = Size(d)
  BY <1>2
<1> QED
  BY <1>1, <1>2, <1>4, <1>5, <1>6 DEF new, from, end

\* A fragment keeps a flow what it is.
LEMMA WriteKeepsType ==
    ASSUME NEW d \in Datagrams, NEW k \in 1 .. Frags(d), NEW st, FlowTyped(st)
    PROVE  FlowTyped(WriteFragment(st, d, k))
<1> DEFINE new  == WriteFragment(st, d, k)
           from == Offset[d][k]
<1>1. /\ new.total = IF k = Frags(d) THEN Size(d) ELSE st.total
      /\ new.ranges \in Ranges /\ Separated(new.ranges)
      /\ Covered(new.ranges) = Covered(st.ranges) \cup (from .. Offset[d][k + 1] - 1)
      /\ DOMAIN new.chunks = DOMAIN st.chunks \cup {from}
      /\ new.chunks[from].len = Of[d].lens[k] /\ new.chunks[from].of = d
      /\ \A o \in DOMAIN st.chunks : o # from => new.chunks[o] = st.chunks[o]
  BY WriteForm
<1>2. /\ from \in Nat /\ Of[d].lens[k] \in Nat \ {0}
      /\ Offset[d][k + 1] = from + Of[d].lens[k] /\ Size(d) \in Nat \ {0}
  BY FragmentOf
<1>3. /\ st.total \in (Nat \ {0}) \cup {-1}
      /\ DOMAIN st.chunks \subseteq Nat
      /\ \A o \in DOMAIN st.chunks :
           /\ st.chunks[o].len \in Nat \ {0} /\ st.chunks[o].of \in Datagrams
           /\ o .. o + st.chunks[o].len - 1 \subseteq Covered(st.ranges)
  BY DEF FlowTyped
<1> HIDE DEF new, from
<1>4. new.total \in (Nat \ {0}) \cup {-1}
  BY <1>1, <1>2, <1>3
<1>5. DOMAIN new.chunks \subseteq Nat
  BY <1>1, <1>2, <1>3
<1>6. ASSUME NEW o \in DOMAIN new.chunks
      PROVE  /\ new.chunks[o].len \in Nat \ {0} /\ new.chunks[o].of \in Datagrams
             /\ o .. o + new.chunks[o].len - 1 \subseteq Covered(new.ranges)
  <2>1. CASE o = from
    BY <1>1, <1>2, <2>1
  <2>2. CASE o # from
    <3>1. o \in DOMAIN st.chunks /\ new.chunks[o] = st.chunks[o]
      BY <1>1, <2>2
    <3> QED
      BY <1>1, <1>3, <3>1
  <2> QED
    BY <2>1, <2>2
<1> QED
  BY <1>1, <1>4, <1>5, <1>6 DEF FlowTyped, new

\* A fragment of d keeps d's flow pure.
LEMMA WriteKeepsPure ==
    ASSUME NEW d \in Datagrams, NEW k \in 1 .. Frags(d), NEW st, FlowTyped(st), Pure(st, d)
    PROVE  Pure(WriteFragment(st, d, k), d)
<1> DEFINE new  == WriteFragment(st, d, k)
           from == Offset[d][k]
<1>1. /\ new.total = IF k = Frags(d) THEN Size(d) ELSE st.total
      /\ Covered(new.ranges) = Covered(st.ranges) \cup (from .. Offset[d][k + 1] - 1)
      /\ DOMAIN new.chunks = DOMAIN st.chunks \cup {from}
      /\ new.chunks[from].len = Of[d].lens[k] /\ new.chunks[from].of = d
      /\ \A o \in DOMAIN st.chunks : o # from => new.chunks[o] = st.chunks[o]
  BY WriteForm
<1>2. /\ from \in Nat /\ Of[d].lens[k] \in Nat \ {0}
      /\ Offset[d][k + 1] = from + Of[d].lens[k]
      /\ \A j \in 1 .. Frags(d) : Offset[d][j] = from => j = k
  BY FragmentOf
<1>3. /\ st.total \in {-1, Size(d)}
      /\ \A o \in DOMAIN st.chunks : \E j \in 1 .. Frags(d) :
           o = Offset[d][j] /\ st.chunks[o].len = Of[d].lens[j] /\ st.chunks[o].of = d
      /\ \A x \in Covered(st.ranges) :
           \E o \in DOMAIN st.chunks : o <= x /\ x < o + st.chunks[o].len
  BY DEF Pure
<1>4. from = Offset[d][k]
  OBVIOUS
<1> HIDE DEF new, from
<1>5. new.total \in {-1, Size(d)}
  BY <1>1, <1>3
<1>6. ASSUME NEW o \in DOMAIN new.chunks
      PROVE  \E j \in 1 .. Frags(d) :
               o = Offset[d][j] /\ new.chunks[o].len = Of[d].lens[j] /\ new.chunks[o].of = d
  <2>1. CASE o = from
    BY <1>1, <1>4, <2>1
  <2>2. CASE o # from
    BY <1>1, <1>3, <2>2
  <2> QED
    BY <2>1, <2>2
<1>7. ASSUME NEW x \in Covered(new.ranges)
      PROVE  \E o \in DOMAIN new.chunks : o <= x /\ x < o + new.chunks[o].len
  <2>1. CASE x \in from .. Offset[d][k + 1] - 1
    <3>1. from <= x /\ x < from + new.chunks[from].len
      BY <1>1, <1>2, <2>1
    <3> QED
      BY <1>1, <3>1
  <2>2. CASE x \in Covered(st.ranges)
    <3>1. PICK o \in DOMAIN st.chunks : o <= x /\ x < o + st.chunks[o].len
      BY <1>3, <2>2
    <3>2. new.chunks[o].len = st.chunks[o].len /\ o \in DOMAIN new.chunks
      <4>1. PICK j \in 1 .. Frags(d) : o = Offset[d][j] /\ st.chunks[o].len = Of[d].lens[j]
        BY <1>3
      <4>2. o = from => j = k
        BY <1>2, <4>1
      <4> QED
        BY <1>1, <4>1, <4>2
    <3> QED
      BY <3>1, <3>2
  <2> QED
    BY <1>1, <2>1, <2>2
<1> QED
  BY <1>5, <1>6, <1>7 DEF Pure, new

\* Ranges that hold the first positions and no others are one range.
LEMMA OneRange ==
    ASSUME NEW rs \in Ranges, Separated(rs), NEW n \in Nat \ {0}, Covered(rs) = 0 .. n - 1
    PROVE  Len(rs) = 1 /\ rs[1][1] = 0 /\ rs[1][2] = n
<1>1. /\ Len(rs) \in Nat /\ DOMAIN rs = 1 .. Len(rs)
      /\ \A i \in 1 .. Len(rs) : rs[i][1] \in Nat /\ rs[i][2] \in Nat /\ rs[i][1] < rs[i][2]
      /\ \A i, j \in 1 .. Len(rs) : i < j => rs[i][2] < rs[j][1]
  BY RangeForm DEF Separated
<1>2. \A x \in Nat : x \in Covered(rs) <=> \E i \in 1 .. Len(rs) : rs[i][1] <= x /\ x < rs[i][2]
  BY CoveredIs
<1>3. \A x \in Nat : (\E i \in 1 .. Len(rs) : rs[i][1] <= x /\ x < rs[i][2]) <=> x < n
  BY <1>2
<1>4. PICK a \in 1 .. Len(rs) : rs[a][1] <= 0 /\ 0 < rs[a][2]
  BY <1>3
<1>5. rs[a][1] = 0
  BY <1>1, <1>4
<1>6. rs[a][2] <= n
  <2>1. rs[a][2] - 1 \in Nat /\ rs[a][1] <= rs[a][2] - 1 /\ rs[a][2] - 1 < rs[a][2]
    BY <1>1
  <2>2. rs[a][2] - 1 < n
    BY <1>3, <2>1
  <2> QED
    BY <1>1, <2>2
<1>7. ASSUME NEW i \in 1 .. Len(rs) PROVE i = a
  <2>1. rs[i][1] \in Nat /\ rs[i][1] < rs[i][2] /\ rs[a][2] \in Nat /\ rs[i][2] \in Nat
    BY <1>1
  <2>2. ~(i < a)
    BY <1>1, <1>5, <2>1
  <2>3. ~(a < i)
    <3> SUFFICES ASSUME a < i PROVE FALSE
      OBVIOUS
    <3>1. rs[a][2] < rs[i][1]
      BY <1>1
    <3>2. rs[i][1] < n
      BY <1>3, <2>1
    <3>3. PICK b \in 1 .. Len(rs) : rs[b][1] <= rs[a][2] /\ rs[a][2] < rs[b][2]
      <4>1. rs[a][2] \in Nat /\ rs[a][2] < n
        BY <2>1, <3>1, <3>2
      <4> QED
        BY <1>3, <4>1
    <3>4. rs[b][1] \in Nat /\ rs[b][2] \in Nat
      BY <1>1
    <3>5. ~(b < a) /\ b # a
      BY <1>1, <1>5, <3>3, <3>4
    <3>6. a < b
      BY <1>1, <3>5
    <3>7. rs[a][2] < rs[b][1]
      BY <1>1, <3>6
    <3> QED
      BY <2>1, <3>3, <3>4, <3>7
  <2> QED
    BY <1>1, <2>2, <2>3
<1>8. a = 1 /\ Len(rs) = 1
  <2>1. 1 \in 1 .. Len(rs) /\ Len(rs) \in 1 .. Len(rs)
    BY <1>1
  <2> QED
    BY <1>7, <2>1
<1>9. rs[a][2] = n
  <2>1. n - 1 \in Nat /\ n - 1 < n
    OBVIOUS
  <2>2. PICK i \in 1 .. Len(rs) : rs[i][1] <= n - 1 /\ n - 1 < rs[i][2]
    BY <1>3, <2>1
  <2>3. i = a
    BY <1>7
  <2> QED
    BY <1>1, <1>6, <2>2, <2>3
<1> QED
  BY <1>5, <1>8, <1>9

\* The next fragment in order, and with the last one the flow is complete.
LEMMA WriteNext ==
    ASSUME NEW d \in Datagrams, NEW k \in 1 .. Frags(d), NEW st, FlowTyped(st),
           IF k = 1 THEN st = NewFlow ELSE Upto(st, d, k - 1)
    PROVE  /\ Upto(WriteFragment(st, d, k), d, k)
           /\ FlowIsComplete(WriteFragment(st, d, k)) <=> k = Frags(d)
<1> DEFINE new == WriteFragment(st, d, k)
<1>1. /\ new.total = IF k = Frags(d) THEN Size(d) ELSE st.total
      /\ new.ranges \in Ranges /\ Separated(new.ranges)
      /\ Covered(new.ranges) = Covered(st.ranges) \cup (Offset[d][k] .. Offset[d][k + 1] - 1)
  BY WriteForm
<1>2. /\ Offset[d][k] \in Nat /\ Of[d].lens[k] \in Nat \ {0}
      /\ Offset[d][k + 1] = Offset[d][k] + Of[d].lens[k]
      /\ Offset[d][1] = 0 /\ Size(d) = Offset[d][Frags(d) + 1] /\ Size(d) \in Nat \ {0}
      /\ Frags(d) \in Nat
  BY FragmentOf, FragmentForm
<1>3. Pure(st, d) /\ st.total = -1 /\ Covered(st.ranges) = 0 .. Offset[d][k] - 1
  <2>1. CASE k = 1
    <3>1. st = NewFlow /\ Offset[d][k] = 0
      BY <1>2, <2>1
    <3>2. 0 .. 0 - 1 = {}
      OBVIOUS
    <3> QED
      BY <3>1, <3>2, NewFlowIs
  <2>2. CASE k # 1
    <3>1. (k - 1) + 1 = k /\ k - 1 # Frags(d)
      BY <1>2
    <3> QED
      BY <2>2, <3>1 DEF Upto
  <2> QED
    BY <2>1, <2>2
<1>4. Pure(new, d)
  BY <1>3, WriteKeepsPure
<1> HIDE DEF new
<1>5. Covered(new.ranges) = 0 .. Offset[d][k + 1] - 1
  <2> DEFINE m == Offset[d][k]
             n == Offset[d][k + 1]
  <2>1. m \in Nat /\ n \in Nat /\ m < n
    BY <1>2
  <2>2. Covered(new.ranges) = (0 .. m - 1) \cup (m .. n - 1)
    BY <1>1, <1>3
  <2> HIDE DEF m, n
  <2>3. (0 .. m - 1) \cup (m .. n - 1) = 0 .. n - 1
    BY <2>1
  <2> QED
    BY <2>2, <2>3 DEF n
<1>6. Upto(new, d, k)
  BY <1>1, <1>3, <1>4, <1>5 DEF Upto
<1>7. CASE k = Frags(d)
  <2>1. Covered(new.ranges) = 0 .. Size(d) - 1 /\ new.total = Size(d)
    BY <1>1, <1>2, <1>5, <1>7
  <2>2. Len(new.ranges) = 1 /\ new.ranges[1][1] = 0 /\ new.ranges[1][2] = Size(d)
    BY <1>1, <1>2, <2>1, OneRange
  <2>3. FlowIsComplete(new)
    BY <1>2, <2>1, <2>2 DEF FlowIsComplete, RangesComplete
  <2> QED
    BY <1>6, <1>7, <2>3 DEF new
<1>8. CASE k # Frags(d)
  <2>1. new.total = -1
    BY <1>1, <1>3, <1>8
  <2>2. ~FlowIsComplete(new)
    BY <2>1 DEF FlowIsComplete
  <2> QED
    BY <1>6, <1>8, <2>2 DEF new
<1> QED
  BY <1>7, <1>8

----------------------------------------------------------------------------
(* Packets: what is handed on of a flow that is complete.                  *)

\* The bytes of a datagram as a reassembler gives them, and a packet of them.
Contents == UNION {[0 .. n - 1 -> Datagrams \cup {Hole}] : n \in Nat \ {0}}
Payloads == UNION {[1 .. n -> Datagrams \cup {Hole}] : n \in Nat}
Packets == [head : Datagrams, payload : Payloads]

\* The last chunk that starts no later than a block.
LEMMA LastChunk ==
    ASSUME NEW b \in Nat, NEW over, over \subseteq 0 .. b, over # {}
    PROVE  (CHOOSE o \in over : \A p \in over : p <= o) \in over
<1>1. Max(over) \in over /\ \A y \in over : y <= Max(over)
  BY GreatestNumber
<1> QED
  BY <1>1

\* A complete flow is assembled to bytes, of the datagrams of its chunks.
LEMMA AssembleForm ==
    ASSUME NEW st, FlowTyped(st), FlowIsComplete(st)
    PROVE  /\ Assemble(st) \in Contents
           /\ \/ Assemble(st)[0] = Hole
              \/ \E o \in DOMAIN st.chunks : Assemble(st)[0] = st.chunks[o].of
<1> DEFINE total == st.total
           C == st.chunks
           over(b) == {o \in DOMAIN C : o <= b /\ b < o + C[o].len}
           last(b) == CHOOSE o \in over(b) : \A p \in over(b) : p <= o
<1>1. total \in Nat \ {0}
  BY DEF FlowTyped, FlowIsComplete
<1>2. /\ DOMAIN C \subseteq Nat
      /\ \A o \in DOMAIN C : C[o].of \in Datagrams
  BY DEF FlowTyped
<1>3. Assemble(st) = [b \in 0 .. total - 1 |-> IF over(b) = {} THEN Hole ELSE C[last(b)].of]
  BY DEF Assemble
<1>4. ASSUME NEW b \in 0 .. total - 1, over(b) # {} PROVE last(b) \in DOMAIN C
  <2>1. over(b) \subseteq 0 .. b /\ b \in Nat
    BY <1>1, <1>2
  <2>2. over(b) \subseteq DOMAIN C
    OBVIOUS
  <2> HIDE DEF over, C
  <2>3. last(b) \in over(b)
    BY <1>4, <2>1, LastChunk
  <2> QED
    BY <2>2, <2>3
<1> HIDE DEF total, C, over, last
<1>5. \A b \in 0 .. total - 1 : (IF over(b) = {} THEN Hole ELSE C[last(b)].of) \in Datagrams \cup {Hole}
  BY <1>2, <1>4
<1>6. Assemble(st) \in [0 .. total - 1 -> Datagrams \cup {Hole}]
  BY <1>3, <1>5
<1>7. Assemble(st) \in Contents
  BY <1>1, <1>6 DEF Contents
<1>8. 0 \in 0 .. total - 1
  BY <1>1
<1>9. \/ Assemble(st)[0] = Hole
      \/ \E o \in DOMAIN C : Assemble(st)[0] = C[o].of
  BY <1>3, <1>4, <1>8
<1> QED
  BY <1>7, <1>9 DEF C

\* A pure flow is assembled to the bytes of its datagram, all of them.
LEMMA PureAssembles ==
    ASSUME NEW d \in Datagrams, NEW st, FlowTyped(st), Pure(st, d), FlowIsComplete(st)
    PROVE  Assemble(st) = [b \in 0 .. Size(d) - 1 |-> d]
<1> DEFINE C == st.chunks
           over(b) == {o \in DOMAIN C : o <= b /\ b < o + C[o].len}
           last(b) == CHOOSE o \in over(b) : \A p \in over(b) : p <= o
<1>1. st.total = Size(d) /\ Size(d) \in Nat
  BY DEF FlowTyped, FlowIsComplete, Pure
<1>2. /\ DOMAIN C \subseteq Nat
      /\ \A o \in DOMAIN C : C[o].of = d
      /\ \A x \in Covered(st.ranges) : over(x) # {}
  BY DEF FlowTyped, Pure
<1>3. Assemble(st) = [b \in 0 .. Size(d) - 1 |-> IF over(b) = {} THEN Hole ELSE C[last(b)].of]
  BY <1>1 DEF Assemble
<1>4. ASSUME NEW b \in 0 .. Size(d) - 1
      PROVE  over(b) # {} /\ C[last(b)].of = d
  <2>1. b \in Covered(st.ranges)
    <3>1. /\ Len(st.ranges) = 1 /\ st.ranges[1][1] = 0 /\ st.ranges[1][2] >= Size(d)
          /\ st.ranges \in Ranges
      BY <1>1 DEF FlowIsComplete, RangesComplete, FlowTyped
    <3>2. /\ \A x \in Nat : x \in Covered(st.ranges) <=>
               \E i \in 1 .. Len(st.ranges) : st.ranges[i][1] <= x /\ x < st.ranges[i][2]
          /\ \A i \in 1 .. Len(st.ranges) : st.ranges[i][2] \in Nat
      BY <3>1, CoveredIs, RangeForm
    <3>3. b \in Nat /\ 1 \in 1 .. Len(st.ranges) /\ b < st.ranges[1][2] /\ st.ranges[1][1] <= b
      BY <1>1, <3>1, <3>2
    <3> QED
      BY <3>2, <3>3
  <2>2. over(b) # {}
    BY <1>2, <2>1
  <2>3. over(b) \subseteq 0 .. b /\ b \in Nat
    BY <1>1, <1>2
  <2>4. over(b) \subseteq DOMAIN C
    OBVIOUS
  <2> HIDE DEF over, C
  <2>5. last(b) \in over(b)
    BY <2>2, <2>3, LastChunk
  <2> QED
    BY <1>2, <2>2, <2>4, <2>5
<1> HIDE DEF C, over, last
<1> QED
  BY <1>3, <1>4

\* The packet made of some bytes, if their header can be read.
LEMMA TransportForm ==
    ASSUME NEW c \in Contents, NEW p \in TransportPayload(c)
    PROVE  /\ p \in Packets /\ p.head = c[0] /\ p.head # Hole
           /\ \A q \in TransportPayload(c) : q = p
<1> DEFINE head == c[0]
           len  == Cardinality(DOMAIN c)
           end  == IF Of[head].tcp \/ Size(head) >= len THEN len ELSE Size(head)
           r    == [head |-> head, payload |-> [b \in 1 .. end - 1 |-> c[b]]]
<1>1. PICK n \in Nat \ {0} : c \in [0 .. n - 1 -> Datagrams \cup {Hole}]
  BY DEF Contents
<1>2. DOMAIN c = 0 .. n - 1 /\ \A b \in 0 .. n - 1 : c[b] \in Datagrams \cup {Hole}
  BY <1>1
<1>3. len = n
  <2>1. Cardinality(0 .. n - 1) = n
    <3>1. 0 \in Int /\ n - 1 \in Int /\ ~(0 > n - 1) /\ (n - 1) - 0 + 1 = n
      OBVIOUS
    <3> QED
      BY <3>1, FS_Interval
  <2> QED
    BY <1>2, <2>1
<1>4. TransportPayload(c) = IF head = Hole THEN {} ELSE {r}
  BY DEF TransportPayload
<1>5. p = r /\ head # Hole /\ \A q \in TransportPayload(c) : q = p
  <2> HIDE DEF r, head
  <2> QED
    BY <1>4
<1> HIDE DEF len
<1>6. head \in Datagrams
  BY <1>2, <1>5
<1>7. end \in Nat \ {0} /\ end <= n
  <2>1. 1 \in 1 .. Frags(head) /\ Size(head) \in Nat \ {0}
    <3>1. 1 \in 1 .. Frags(head)
      BY <1>6, FragmentForm
    <3> QED
      BY <1>6, <3>1, FragmentOf
  <2> HIDE DEF head
  <2> QED
    BY <1>3, <2>1
<1> HIDE DEF head, end
<1>8. [b \in 1 .. end - 1 |-> c[b]] \in [1 .. end - 1 -> Datagrams \cup {Hole}]
  BY <1>1, <1>2, <1>7
<1>9. [b \in 1 .. end - 1 |-> c[b]] \in Payloads
  <2>1. end - 1 \in Nat
    BY <1>7
  <2> QED
    BY <1>8, <2>1 DEF Payloads
<1>10. p \in Packets /\ p.head = head
  BY <1>5, <1>6, <1>9 DEF Packets
<1> QED
  BY <1>5, <1>10 DEF head

\* The bytes of a datagram, all of them, make one packet, and that is whole.
LEMMA WholeTransport ==
    ASSUME NEW d \in Datagrams
    PROVE  LET c == [b \in 0 .. Size(d) - 1 |-> d]
               p == [head |-> d, payload |-> [b \in 1 .. Size(d) - 1 |-> d]]
           IN  /\ c \in Contents /\ TransportPayload(c) = {p}
               /\ p \in Packets /\ p.head = d /\ Whole(p)
<1> DEFINE n == Size(d)
           c == [b \in 0 .. n - 1 |-> d]
           p == [head |-> d, payload |-> [b \in 1 .. n - 1 |-> d]]
<1>1. n \in Nat \ {0}
  <2>1. 1 \in 1 .. Frags(d)
    BY FragmentForm
  <2> QED
    BY <2>1, FragmentOf
<1>2. c \in Contents
  <2> HIDE DEF n
  <2>1. c \in [0 .. n - 1 -> Datagrams \cup {Hole}]
    OBVIOUS
  <2> QED
    BY <1>1, <2>1 DEF Contents
<1>3. c[0] = d /\ DOMAIN c = 0 .. n - 1
  <2> HIDE DEF n
  <2> QED
    BY <1>1
<1>4. Cardinality(DOMAIN c) = n
  <2>1. Cardinality(0 .. n - 1) = n
    <3> HIDE DEF n
    <3>1. 0 \in Int /\ n - 1 \in Int /\ ~(0 > n - 1) /\ (n - 1) - 0 + 1 = n
      BY <1>1
    <3> QED
      BY <3>1, FS_Interval
  <2> QED
    BY <1>3, <2>1
<1>5. d # Hole
  BY HoleAssumption
<1> DEFINE end == IF Of[d].tcp \/ Size(d) >= Cardinality(DOMAIN c) THEN Cardinality(DOMAIN c) ELSE Size(d)
<1>6. end = n
  BY <1>4
<1>7. TransportPayload(c) = {[head |-> d, payload |-> [b \in 1 .. end - 1 |-> c[b]]]}
  <2> HIDE DEF c
  <2> QED
    BY <1>3, <1>5 DEF TransportPayload
<1>8. [b \in 1 .. end - 1 |-> c[b]] = [b \in 1 .. n - 1 |-> d]
  <2> HIDE DEF n, end
  <2>1. \A b \in 1 .. n - 1 : c[b] = d
    BY <1>1
  <2> HIDE DEF c
  <2> QED
    BY <1>6, <2>1
<1>9. TransportPayload(c) = {p}
  BY <1>7, <1>8
<1>10. p.head = d /\ p.payload = [b \in 1 .. n - 1 |-> d]
  OBVIOUS
<1>11. Whole(p)
  BY <1>10 DEF Whole
<1>12. p \in Packets
  BY <1>2, <1>9, TransportForm
<1> QED
  BY <1>2, <1>9, <1>10, <1>11, <1>12

----------------------------------------------------------------------------
(* Buffers.                                                                *)

\* A buffered packet, the places of one of the two queues in a buffer, and a
\* buffer with both queues within their depth.
Queues == {"rtps", "zenoh"}
Queued == [to : Queues, packet : Packets]
Places(b, to) == {n \in DOMAIN b : b[n].to = to}
BufferExact(b) ==
  b \in Seq(Queued) /\ \A to \in Queues : Cardinality(Places(b, to)) <= BufferDepth

\* The places of a queue are finitely many.
LEMMA PlacesFinite ==
    ASSUME NEW b \in Seq(Queued), NEW to
    PROVE  /\ Len(b) \in Nat /\ DOMAIN b = 1 .. Len(b)
           /\ IsFiniteSet(Places(b, to)) /\ Cardinality(Places(b, to)) \in Nat
<1>1. Len(b) \in Nat /\ DOMAIN b = 1 .. Len(b)
  OBVIOUS
<1>2. IsFiniteSet(1 .. Len(b))
  BY <1>1, FS_Interval
<1>3. Places(b, to) \in SUBSET (1 .. Len(b))
  BY <1>1 DEF Places
<1>4. IsFiniteSet(Places(b, to))
  BY <1>2, <1>3, FS_Subset
<1> QED
  BY <1>1, <1>4, FS_CardinalityType

\* A packet more in a queue.
LEMMA PlacesAppend ==
    ASSUME NEW b \in Seq(Queued), NEW q \in Queued, NEW to
    PROVE  /\ Append(b, q) \in Seq(Queued)
           /\ Cardinality(Places(Append(b, q), to)) =
                IF q.to = to THEN Cardinality(Places(b, to)) + 1 ELSE Cardinality(Places(b, to))
           /\ ToSet(Append(b, q)) = ToSet(b) \cup {q}
<1> DEFINE new == Append(b, q)
           n   == Len(b) + 1
<1>1. Len(b) \in Nat /\ DOMAIN b = 1 .. Len(b) /\ IsFiniteSet(Places(b, to))
  BY PlacesFinite
<1>2. /\ new \in Seq(Queued) /\ Len(new) = n /\ DOMAIN new = 1 .. n
      /\ \A i \in 1 .. Len(b) : new[i] = b[i]
      /\ new[n] = q
  BY <1>1
<1> HIDE DEF new
<1>3. n \notin Places(b, to) /\ n \in 1 .. n
  BY <1>1 DEF Places
<1>4. Places(new, to) = IF q.to = to THEN Places(b, to) \cup {n} ELSE Places(b, to)
  <2>1. 1 .. n = (1 .. Len(b)) \cup {n} /\ n \notin 1 .. Len(b)
    BY <1>1
  <2> HIDE DEF n
  <2> QED
    BY <1>1, <1>2, <2>1 DEF Places
<1>5. Cardinality(Places(b, to) \cup {n}) = Cardinality(Places(b, to)) + 1
  <2> HIDE DEF n
  <2> QED
    BY <1>1, <1>3, FS_AddElement
<1>6. ToSet(new) = ToSet(b) \cup {q}
  <2>1. 1 .. n = (1 .. Len(b)) \cup {n} /\ n \notin 1 .. Len(b)
    BY <1>1
  <2> HIDE DEF n
  <2> QED
    BY <1>1, <1>2, <2>1 DEF ToSet
<1> QED
  BY <1>2, <1>4, <1>5, <1>6 DEF new

\* A packet less in a queue.
LEMMA PlacesRemove ==
    ASSUME NEW b \in Seq(Queued), NEW p \in 1 .. Len(b), NEW to
    PROVE  LET r == RemoveAt(b, p) IN
           /\ r \in Seq(Queued)
           /\ Cardinality(Places(r, to)) <=
                IF b[p].to = to THEN Cardinality(Places(b, to)) - 1 ELSE Cardinality(Places(b, to))
           /\ ToSet(r) \subseteq ToSet(b)
           /\ \A q \in ToSet(b) : q \in ToSet(r) \/ q = b[p]
<1> DEFINE r == RemoveAt(b, p)
           old(i) == IF i < p THEN i ELSE i + 1
           new(j) == IF j < p THEN j ELSE j - 1
<1>1. /\ r \in Seq(Queued) /\ Len(b) \in Nat /\ Len(r) = Len(b) - 1
      /\ \A i \in 1 .. Len(r) : old(i) \in 1 .. Len(b) /\ old(i) # p /\ r[i] = b[old(i)]
      /\ \A j \in 1 .. Len(b) : j # p => new(j) \in 1 .. Len(r) /\ r[new(j)] = b[j]
  <2> DEFINE S == Queued
  <2>1. b \in Seq(S) /\ p \in 1 .. Len(b)
    OBVIOUS
  <2> HIDE DEF S
  <2>2. /\ r \in Seq(S) /\ Len(b) \in Nat /\ Len(r) = Len(b) - 1
        /\ \A i \in 1 .. Len(r) : old(i) \in 1 .. Len(b) /\ old(i) # p /\ r[i] = b[old(i)]
        /\ \A j \in 1 .. Len(b) : j # p => new(j) \in 1 .. Len(r) /\ r[new(j)] = b[j]
    BY <2>1, RemoveAtForm
  <2> QED
    BY <2>2 DEF S
<1>2. \A i, j \in 1 .. Len(r) : old(i) = old(j) => i = j
  BY <1>1
<1>3. DOMAIN r = 1 .. Len(r) /\ DOMAIN b = 1 .. Len(b) /\ IsFiniteSet(Places(b, to))
  <2>1. r \in Seq(Queued)
    BY <1>1
  <2> HIDE DEF r
  <2> QED
    BY <2>1, PlacesFinite
<1> DEFINE S == Places(r, to)
           T == Places(b, to) \ {p}
           f == [i \in S |-> old(i)]
<1> HIDE DEF r, old, new
<1>4. f \in Injection(S, T)
  <2>1. ASSUME NEW i \in S PROVE i \in 1 .. Len(r) /\ old(i) \in T
    <3>1. i \in 1 .. Len(r) /\ r[i].to = to
      BY <1>3 DEF Places
    <3>2. old(i) \in 1 .. Len(b) /\ old(i) # p /\ b[old(i)].to = to
      BY <1>1, <3>1
    <3> QED
      BY <1>3, <3>1, <3>2 DEF Places
  <2>2. f \in [S -> T]
    BY <2>1
  <2>3. \A i, j \in S : f[i] = f[j] => i = j
    BY <1>2, <2>1
  <2> HIDE DEF f, S, T
  <2> QED
    BY <2>2, <2>3 DEF Injection, IsInjective
<1>5. IsFiniteSet(T) /\ Cardinality(T) = IF b[p].to = to THEN Cardinality(Places(b, to)) - 1
                                         ELSE Cardinality(Places(b, to))
  <2>1. p \in Places(b, to) <=> b[p].to = to
    BY <1>3 DEF Places
  <2> QED
    BY <1>3, <2>1, FS_RemoveElement
<1>6. Cardinality(S) <= Cardinality(T)
  <2> HIDE DEF S, T, f
  <2> QED
    BY <1>4, <1>5, FS_Injection
<1>7. ToSet(r) \subseteq ToSet(b)
  BY <1>1, <1>3 DEF ToSet
<1>8. ASSUME NEW q \in ToSet(b) PROVE q \in ToSet(r) \/ q = b[p]
  <2>1. PICK j \in 1 .. Len(b) : q = b[j]
    BY <1>3 DEF ToSet
  <2> QED
    BY <1>1, <1>3, <2>1 DEF ToSet
<1>9. r \in Seq(Queued)
  BY <1>1
<1> QED
  BY <1>5, <1>6, <1>7, <1>8, <1>9 DEF r

\* push_bounded puts the packet in its queue, keeps both queues within their
\* depth and loses at most the packet that Overflow names.
LEMMA PushKeeps ==
    ASSUME NEW b, BufferExact(b), NEW to \in Queues, NEW p \in Packets
    PROVE  LET new == PushBounded(b, to, p)
               q   == [to |-> to, packet |-> p]
           IN  /\ BufferExact(new)
               /\ q \in ToSet(new) /\ ToSet(new) \subseteq ToSet(b) \cup {q}
               /\ \A x \in ToSet(b) : x \in ToSet(new) \/ \E n \in Overflow(b, to) : b[n] = x
<1> DEFINE over == Overflow(b, to)
           gone == CHOOSE n \in over : TRUE
           kept == IF over = {} THEN b ELSE RemoveAt(b, gone)
           q    == [to |-> to, packet |-> p]
           same == Places(b, to)
<1>1. b \in Seq(Queued) /\ \A t \in Queues : Cardinality(Places(b, t)) <= BufferDepth
  BY DEF BufferExact
<1>2. BufferDepth \in Nat \ {0}
  BY BoundAssumption
<1>3. /\ Len(b) \in Nat /\ DOMAIN b = 1 .. Len(b)
      /\ \A t : IsFiniteSet(Places(b, t)) /\ Cardinality(Places(b, t)) \in Nat
  BY <1>1, PlacesFinite
<1>4. over = IF Cardinality(same) >= BufferDepth THEN {n \in same : \A m \in same : n <= m} ELSE {}
  BY DEF Overflow, Places
<1>5. same \subseteq 1 .. Len(b) /\ \A n \in same : b[n].to = to
  BY <1>3 DEF Places
<1>6. q \in Queued /\ q.to = to
  BY DEF Queued
<1>7. /\ kept \in Seq(Queued)
      /\ \A t \in Queues : Cardinality(Places(kept, t)) <=
                             IF t = to THEN BufferDepth - 1 ELSE BufferDepth
      /\ ToSet(kept) \subseteq ToSet(b)
      /\ \A x \in ToSet(b) : x \in ToSet(kept) \/ \E n \in over : b[n] = x
  <2>1. CASE over = {}
    <3>1. ~(Cardinality(same) >= BufferDepth)
      <4> SUFFICES ASSUME Cardinality(same) >= BufferDepth PROVE FALSE
        OBVIOUS
      <4>1. same # {}
        BY <1>2, FS_EmptySet
      <4>2. same \subseteq Nat
        BY <1>5
      <4> HIDE DEF same
      <4>3. PICK n \in same : \A m \in same : ~(m < n)
        BY <4>1, <4>2, LeastNumber
      <4>4. \A m \in same : n <= m
        BY <4>2, <4>3
      <4> QED
        BY <1>4, <2>1, <4>3, <4>4
    <3>2. \A t \in Queues : Cardinality(Places(b, t)) \in Nat
      BY <1>3
    <3>3. kept = b
      BY <2>1
    <3> HIDE DEF kept, over
    <3>4. ASSUME NEW t \in Queues
          PROVE  Cardinality(Places(kept, t)) <= IF t = to THEN BufferDepth - 1 ELSE BufferDepth
      <4>1. Cardinality(Places(b, t)) \in Nat /\ Cardinality(Places(b, t)) <= BufferDepth
        BY <1>1, <3>2
      <4>2. t = to => ~(Cardinality(Places(b, t)) >= BufferDepth)
        BY <3>1
      <4> QED
        BY <1>2, <3>3, <4>1, <4>2
    <3> QED
      BY <1>1, <3>3, <3>4
  <2>2. CASE over # {}
    <3>1. gone \in over /\ over \subseteq same
      BY <1>4, <2>2
    <3>2. kept = RemoveAt(b, gone)
      BY <2>2
    <3> HIDE DEF kept, over, gone, same
    <3>3. gone \in 1 .. Len(b) /\ b[gone].to = to
      BY <1>5, <3>1
    <3>4. /\ kept \in Seq(Queued)
          /\ \A t : Cardinality(Places(kept, t)) <=
               IF b[gone].to = t THEN Cardinality(Places(b, t)) - 1 ELSE Cardinality(Places(b, t))
          /\ ToSet(kept) \subseteq ToSet(b)
          /\ \A x \in ToSet(b) : x \in ToSet(kept) \/ x = b[gone]
      BY <1>1, <3>2, <3>3, PlacesRemove
    <3>5. \A t : Cardinality(Places(kept, t)) \in Nat
      BY <3>4, PlacesFinite
    <3>6. ASSUME NEW t \in Queues
          PROVE  Cardinality(Places(kept, t)) <= IF t = to THEN BufferDepth - 1 ELSE BufferDepth
      <4>1. Cardinality(Places(b, t)) \in Nat /\ Cardinality(Places(b, t)) <= BufferDepth
            /\ Cardinality(Places(kept, t)) \in Nat
        BY <1>1, <1>3, <3>5
      <4> QED
        BY <1>2, <3>3, <3>4, <4>1
    <3> QED
      BY <3>1, <3>4, <3>6
  <2> QED
    BY <2>1, <2>2
<1>8. PushBounded(b, to, p) = Append(kept, q)
  BY DEF PushBounded
<1> HIDE DEF over, gone, kept, q, same
<1> DEFINE new == Append(kept, q)
<1>9. /\ new \in Seq(Queued)
      /\ \A t : Cardinality(Places(new, t)) =
           IF q.to = t THEN Cardinality(Places(kept, t)) + 1 ELSE Cardinality(Places(kept, t))
      /\ ToSet(new) = ToSet(kept) \cup {q}
  BY <1>6, <1>7, PlacesAppend
<1> HIDE DEF new
<1>10. BufferExact(new)
  <2>1. ASSUME NEW t \in Queues PROVE Cardinality(Places(new, t)) <= BufferDepth
    <3>1. Cardinality(Places(kept, t)) \in Nat
      BY <1>7, PlacesFinite
    <3> QED
      BY <1>2, <1>6, <1>7, <1>9, <3>1
  <2> QED
    BY <1>9, <2>1 DEF BufferExact
<1>11. /\ q \in ToSet(new) /\ ToSet(new) \subseteq ToSet(b) \cup {q}
       /\ \A x \in ToSet(b) : x \in ToSet(new) \/ \E n \in over : b[n] = x
  BY <1>7, <1>9
<1> QED
  BY <1>8, <1>10, <1>11 DEF new, q, over

\* A buffer with both queues within their depth is at most twice as long.
LEMMA BufferBounded ==
    ASSUME NEW b, BufferExact(b)
    PROVE  Len(b) <= 2 * BufferDepth
<1> DEFINE A == Places(b, "rtps")
           Z == Places(b, "zenoh")
<1>1. b \in Seq(Queued) /\ Cardinality(A) <= BufferDepth /\ Cardinality(Z) <= BufferDepth
  BY DEF BufferExact, Queues
<1>2. /\ Len(b) \in Nat /\ DOMAIN b = 1 .. Len(b)
      /\ IsFiniteSet(A) /\ Cardinality(A) \in Nat /\ IsFiniteSet(Z) /\ Cardinality(Z) \in Nat
  BY <1>1, PlacesFinite
<1>3. 1 .. Len(b) = A \cup Z
  <2>1. ASSUME NEW n \in 1 .. Len(b) PROVE b[n].to \in {"rtps", "zenoh"}
    <3>1. b[n] \in Queued
      BY <1>1
    <3> QED
      BY <3>1 DEF Queued, Queues
  <2> QED
    BY <1>2, <2>1 DEF Places
<1>4. Cardinality(1 .. Len(b)) = Len(b)
  <2>1. /\ 1 \in Int /\ Len(b) \in Int
        /\ (IF 1 > Len(b) THEN 0 ELSE Len(b) - 1 + 1) = Len(b)
    BY <1>2
  <2> QED
    BY <2>1, FS_Interval
<1>5. /\ Cardinality(A \cup Z) = Cardinality(A) + Cardinality(Z) - Cardinality(A \cap Z)
      /\ Cardinality(A \cap Z) \in Nat
  <2>1. Cardinality(A \cup Z) = Cardinality(A) + Cardinality(Z) - Cardinality(A \cap Z)
    BY <1>2, FS_Union
  <2>2. IsFiniteSet(A \cap Z)
    BY <1>2, FS_Intersection
  <2> QED
    BY <2>1, <2>2, FS_CardinalityType
<1>6. BufferDepth \in Nat
  BY BoundAssumption
<1>7. Cardinality(A \cup Z) = Len(b)
  BY <1>3, <1>4
<1> HIDE DEF A, Z
<1> QED
  BY <1>1, <1>2, <1>5, <1>6, <1>7

----------------------------------------------------------------------------
(* The inductive invariant of the tables, the queues and the counters.     *)

\* A reassembler: its queue names each of its flows once, and they are at
\* most as many as it may keep.
StoreExact(F, q) ==
  /\ DOMAIN F \subseteq Keys /\ q \in Seq(Keys) /\ QueueExact(q, DOMAIN F)
  /\ Cardinality(DOMAIN F) <= FlowCapacity
  /\ \A key \in DOMAIN F : FlowTyped(F[key])

NextInv ==
  /\ next \in [Interfaces -> [Datagrams -> Nat]]
  /\ \A i \in Interfaces, d \in Datagrams : next[i][d] \in 1 .. Frags(d) + 1
KernelInv ==
  approved \subseteq Keys /\ IsFiniteSet(approved) /\ Cardinality(approved) <= ApprovalCapacity
StoreInv ==
  /\ DOMAIN flows = Interfaces /\ DOMAIN order = Interfaces
  /\ \A i \in Interfaces : StoreExact(flows[i], order[i])
BufferInv == DOMAIN buffer = Interfaces /\ \A i \in Interfaces : BufferExact(buffer[i])
CountInv == out \subseteq Datagrams /\ faults \in 0 .. MaxFaults
TypeInv == NextInv /\ KernelInv /\ StoreInv /\ BufferInv /\ CountInv

\* The flow that a frame of d finds or starts, what it becomes, the bytes a
\* reassembler then returns, and the packets made of them.
FlowBefore(i, d) ==
  IF Of[d].key \in DOMAIN flows[i] THEN flows[i][Of[d].key] ELSE NewFlow
Written(i, d, k) == WriteFragment(FlowBefore(i, d), d, k)
Returned(i, d, k) ==
  IF ~HasFragment(d) THEN {[b \in 0 .. Size(d) - 1 |-> d]}
  ELSE IF FlowIsComplete(Written(i, d, k)) THEN {Assemble(Written(i, d, k))}
  ELSE {}
Arrived(i, d, k) ==
  IF Passes(d, k) /\ UserParses(d)
  THEN UNION {TransportPayload(c) : c \in Returned(i, d, k)} ELSE {}

\* A frame is written to a flow.
Writes(d, k) == Passes(d, k) /\ UserParses(d) /\ HasFragment(d)

\* The keys of datagrams are keys.
LEMMA KeyOf ==
    ASSUME NEW d \in Datagrams
    PROVE  Of[d].key \in Keys
BY DEF Keys

\* The flow a frame is written to is a flow.
LEMMA WrittenTyped ==
    ASSUME StoreInv, NEW i \in Interfaces, NEW d \in Datagrams, NEW k \in 1 .. Frags(d)
    PROVE  FlowTyped(FlowBefore(i, d)) /\ FlowTyped(Written(i, d, k))
<1>1. FlowTyped(FlowBefore(i, d))
  <2>1. \A key \in DOMAIN flows[i] : FlowTyped(flows[i][key])
    BY DEF StoreInv, StoreExact
  <2>2. FlowTyped(NewFlow)
    BY NewFlowIs
  <2> QED
    BY <2>1, <2>2 DEF FlowBefore
<1> QED
  BY <1>1, WriteKeepsType DEF Written

\* What a reassembler returns is bytes, of one datagram at most.
LEMMA ReturnedForm ==
    ASSUME StoreInv, NEW i \in Interfaces, NEW d \in Datagrams, NEW k \in 1 .. Frags(d)
    PROVE  /\ Returned(i, d, k) \subseteq Contents
           /\ \A c, e \in Returned(i, d, k) : c = e
<1>1. [b \in 0 .. Size(d) - 1 |-> d] \in Contents
  BY WholeTransport
<1>2. FlowIsComplete(Written(i, d, k)) => Assemble(Written(i, d, k)) \in Contents
  BY WrittenTyped, AssembleForm
<1> QED
  BY <1>1, <1>2 DEF Returned

\* What becomes of the buffers when a reassembler has returned C.
Delivered(i, P) ==
  /\ DOMAIN buffer' = Interfaces /\ BufferExact(buffer'[i])
  /\ \A j \in Interfaces : j # i => buffer'[j] = buffer[j]
  /\ evicted \subseteq evicted'
  /\ \A q \in ToSet(buffer'[i]) : q \in ToSet(buffer[i]) \/ q.packet \in P
  /\ \A q \in ToSet(buffer[i]) :
       q \in ToSet(buffer'[i]) \/ <<i, Of[q.packet.head].key>> \in evicted'
  /\ \A p \in P : Route(p) # {} => \E q \in ToSet(buffer'[i]) : q.packet = p

\* pump_from_batch queues what can be routed and loses what it says it lost.
LEMMA DeliverForm ==
    ASSUME BufferInv, NEW i \in Interfaces, NEW C, C \subseteq Contents,
           \A c, e \in C : c = e, NEW gone, Deliver(i, C, gone)
    PROVE  /\ Delivered(i, UNION {TransportPayload(c) : c \in C})
           /\ \A key \in gone : <<i, key>> \in evicted'
<1> DEFINE P == UNION {TransportPayload(c) : c \in C}
<1>1. DOMAIN buffer = Interfaces /\ BufferExact(buffer[i])
  BY DEF BufferInv
<1>2. \A p \in P : p \in Packets /\ \A r \in P : r = p
  <2> SUFFICES ASSUME NEW p \in P PROVE p \in Packets /\ \A r \in P : r = p
    OBVIOUS
  <2>1. PICK c \in C : p \in TransportPayload(c)
    OBVIOUS
  <2>2. P = TransportPayload(c)
    OBVIOUS
  <2>3. c \in Contents
    OBVIOUS
  <2> HIDE DEF P
  <2> QED
    BY <2>1, <2>2, <2>3, TransportForm
<1> HIDE DEF P
<1>3. \/ /\ \A p \in P : Route(p) = {}
         /\ evicted' = evicted \cup ({i} \X gone) /\ buffer' = buffer
      \/ \E p \in P : \E to \in Route(p) :
           /\ buffer' = [buffer EXCEPT ![i] = PushBounded(buffer[i], to, p)]
           /\ evicted' = evicted \cup ({i} \X gone) \cup
                {<<i, Of[buffer[i][n].packet.head].key>> : n \in Overflow(buffer[i], to)}
  BY DEF Deliver, P
<1>4. CASE /\ \A p \in P : Route(p) = {}
           /\ evicted' = evicted \cup ({i} \X gone) /\ buffer' = buffer
  <2>1. Delivered(i, P)
    BY <1>1, <1>4 DEF Delivered
  <2> QED
    BY <1>4, <2>1 DEF P
<1>5. CASE \E p \in P : \E to \in Route(p) :
           /\ buffer' = [buffer EXCEPT ![i] = PushBounded(buffer[i], to, p)]
           /\ evicted' = evicted \cup ({i} \X gone) \cup
                {<<i, Of[buffer[i][n].packet.head].key>> : n \in Overflow(buffer[i], to)}
  <2>0. PICK p \in P : \E to \in Route(p) :
           /\ buffer' = [buffer EXCEPT ![i] = PushBounded(buffer[i], to, p)]
           /\ evicted' = evicted \cup ({i} \X gone) \cup
                {<<i, Of[buffer[i][n].packet.head].key>> : n \in Overflow(buffer[i], to)}
    BY <1>5
  <2>1. PICK to \in Route(p) :
           /\ buffer' = [buffer EXCEPT ![i] = PushBounded(buffer[i], to, p)]
           /\ evicted' = evicted \cup ({i} \X gone) \cup
                {<<i, Of[buffer[i][n].packet.head].key>> : n \in Overflow(buffer[i], to)}
    BY <2>0
  <2>2. p \in Packets /\ to \in Queues
    BY <1>2 DEF Route, Queues
  <2> DEFINE new == PushBounded(buffer[i], to, p)
             q == [to |-> to, packet |-> p]
  <2>3. /\ BufferExact(new)
        /\ q \in ToSet(new) /\ ToSet(new) \subseteq ToSet(buffer[i]) \cup {q}
        /\ \A x \in ToSet(buffer[i]) :
             x \in ToSet(new) \/ \E n \in Overflow(buffer[i], to) : buffer[i][n] = x
    BY <1>1, <2>2, PushKeeps
  <2>4. q.packet = p
    OBVIOUS
  <2> HIDE DEF new, q
  <2>5. /\ DOMAIN buffer' = Interfaces /\ buffer'[i] = new
        /\ \A j \in Interfaces : j # i => buffer'[j] = buffer[j]
    BY <1>1, <2>1 DEF new
  <2>6. ASSUME NEW x \in ToSet(buffer[i])
        PROVE  x \in ToSet(new) \/ <<i, Of[x.packet.head].key>> \in evicted'
    BY <2>1, <2>3
  <2>7. evicted \subseteq evicted' /\ \A key \in gone : <<i, key>> \in evicted'
    BY <2>1
  <2>8. \A r \in P : r = p
    BY <1>2
  <2>9. Delivered(i, P)
    BY <2>3, <2>4, <2>5, <2>6, <2>7, <2>8 DEF Delivered
  <2> QED
    BY <2>7, <2>9 DEF P
<1> QED
  BY <1>3, <1>4, <1>5

\* What becomes of the flows when frame k of d is or is not written to one.
Stored(i, d, k) ==
  /\ DOMAIN flows' = Interfaces /\ DOMAIN order' = Interfaces
  /\ StoreExact(flows'[i], order'[i])
  /\ \A j \in Interfaces : j # i => flows'[j] = flows[j] /\ order'[j] = order[j]
  /\ \A key \in Keys : key # Of[d].key =>
       /\ key \in DOMAIN flows'[i] => key \in DOMAIN flows[i] /\ flows'[i][key] = flows[i][key]
       /\ key \in DOMAIN flows[i] => key \in DOMAIN flows'[i] \/ <<i, key>> \in evicted'
  /\ ~Writes(d, k) => flows'[i] = flows[i]
  /\ Writes(d, k) =>
       /\ Of[d].key \in DOMAIN flows'[i] <=> ~FlowIsComplete(Written(i, d, k))
       /\ Of[d].key \in DOMAIN flows'[i] => flows'[i][Of[d].key] = Written(i, d, k)

\* The queue of a reassembler that takes a fragment, before it looks whether
\* the flow is complete.
LEMMA OrderForm ==
    ASSUME NEW F, NEW q, StoreExact(F, q), NEW key \in Keys
    PROVE  LET live == DOMAIN F
               new  == key \notin live
               full == new /\ Cardinality(live) >= FlowCapacity
               gone == IF full THEN EvictVictim(q, live) ELSE {}
               kept == IF full THEN EvictQueue(q, live) ELSE q
               ord  == IF new THEN Append(kept, key) ELSE kept
               left == (live \ gone) \ {key}
           IN  /\ ord \in Seq(Keys) /\ QueueExact(ord, left \cup {key})
               /\ IsFiniteSet(left \cup {key}) /\ Cardinality(left \cup {key}) <= FlowCapacity
               /\ left \subseteq live /\ key \notin left
               /\ \A x \in live : x \in left \/ x \in gone \/ x = key
<1> DEFINE live == DOMAIN F
           new  == key \notin live
           full == new /\ Cardinality(live) >= FlowCapacity
           gone == IF full THEN EvictVictim(q, live) ELSE {}
           kept == IF full THEN EvictQueue(q, live) ELSE q
           ord  == IF new THEN Append(kept, key) ELSE kept
           left == (live \ gone) \ {key}
<1> SUFFICES /\ ord \in Seq(Keys) /\ QueueExact(ord, left \cup {key})
             /\ IsFiniteSet(left \cup {key}) /\ Cardinality(left \cup {key}) <= FlowCapacity
             /\ left \subseteq live /\ key \notin left
             /\ \A x \in live : x \in left \/ x \in gone \/ x = key
  OBVIOUS
<1>1. /\ live \subseteq Keys /\ q \in Seq(Keys) /\ QueueExact(q, live)
      /\ Cardinality(live) <= FlowCapacity
  BY DEF StoreExact
<1>2. IsFiniteSet(live) /\ Cardinality(live) \in Nat /\ FlowCapacity \in Nat \ {0}
  <2>1. IsFiniteSet(live)
    BY <1>1, QueueFinite
  <2> QED
    BY <2>1, FS_CardinalityType, BoundAssumption
<1> HIDE DEF live
<1>3. left \subseteq live /\ key \notin left /\ \A x \in live : x \in left \/ x \in gone \/ x = key
  OBVIOUS
<1>4. CASE full
  <2>1. live # {}
    <3>1. Cardinality(live) # 0
      BY <1>2, <1>4
    <3> QED
      BY <3>1, FS_EmptySet
  <2>2. PICK v \in live : /\ EvictVictim(q, live) = {v}
                          /\ EvictQueue(q, live) \in Seq(Keys)
                          /\ QueueExact(EvictQueue(q, live), live \ {v})
    BY <1>1, <2>1, QueueEvict
  <2>3. gone = {v} /\ kept \in Seq(Keys) /\ QueueExact(kept, live \ {v}) /\ key \notin live
    BY <1>4, <2>2
  <2>4. left = live \ {v} /\ key \notin live \ {v} /\ ord = Append(kept, key)
    BY <2>3
  <2> HIDE DEF kept, left, ord, gone
  <2>5. ord \in Seq(Keys) /\ QueueExact(ord, left \cup {key})
    BY <2>3, <2>4, QueueAppend
  <2>6. IsFiniteSet(left) /\ Cardinality(left) = Cardinality(live) - 1
    BY <1>2, <2>4, FS_RemoveElement
  <2>7. IsFiniteSet(left \cup {key}) /\ Cardinality(left \cup {key}) = Cardinality(left) + 1
    BY <2>4, <2>6, FS_AddElement
  <2>8. Cardinality(left \cup {key}) <= FlowCapacity
    BY <1>1, <1>2, <2>6, <2>7
  <2> QED
    BY <1>3, <2>5, <2>7, <2>8
<1>5. CASE ~full /\ new
  <2>1. gone = {} /\ kept = q /\ ord = Append(q, key) /\ key \notin live
    BY <1>5
  <2>2. left = live
    BY <2>1
  <2>3. ~(Cardinality(live) >= FlowCapacity)
    BY <1>5
  <2> HIDE DEF kept, left, ord, gone
  <2>4. ord \in Seq(Keys) /\ QueueExact(ord, left \cup {key})
    BY <1>1, <2>1, <2>2, QueueAppend
  <2>5. IsFiniteSet(left \cup {key}) /\ Cardinality(left \cup {key}) = Cardinality(live) + 1
    BY <1>2, <2>1, <2>2, FS_AddElement
  <2>6. Cardinality(left \cup {key}) <= FlowCapacity
    BY <1>2, <2>3, <2>5
  <2> QED
    BY <1>3, <2>4, <2>5, <2>6
<1>6. CASE ~new
  <2>1. gone = {} /\ ord = q /\ left \cup {key} = live
    BY <1>6
  <2> HIDE DEF kept, left, ord, gone
  <2> QED
    BY <1>1, <1>2, <1>3, <2>1
<1> QED
  BY <1>4, <1>5, <1>6

\* A fragment of d in a reassembler.
LEMMA AcceptPieceForm ==
    ASSUME StoreInv, BufferInv, NEW i \in Interfaces, NEW d \in Datagrams,
           NEW k \in 1 .. Frags(d), Writes(d, k), AcceptPiece(i, d, k)
    PROVE  Stored(i, d, k) /\ Delivered(i, Arrived(i, d, k))
<1> DEFINE key  == Of[d].key
           F    == flows[i]
           q0   == order[i]
           live == DOMAIN F
           new  == key \notin live
           full == new /\ Cardinality(live) >= FlowCapacity
           gone == IF full THEN EvictVictim(q0, live) ELSE {}
           kept == IF full THEN EvictQueue(q0, live) ELSE q0
           ord  == IF new THEN Append(kept, key) ELSE kept
           st   == Written(i, d, k)
           left == (live \ gone) \ {key}
           R    == Returned(i, d, k)
<1>1. /\ DOMAIN flows = Interfaces /\ DOMAIN order = Interfaces /\ StoreExact(F, order[i])
      /\ key \in Keys
  BY KeyOf DEF StoreInv
<1>2. st = WriteFragment(IF new THEN NewFlow ELSE F[key], d, k)
  BY DEF Written, FlowBefore
<1>3. \/ /\ FlowIsComplete(st)
         /\ flows' = [flows EXCEPT ![i] = [q \in left |-> F[q]]]
         /\ order' = [order EXCEPT ![i] = RemoveFirst(ord, key)]
         /\ Deliver(i, {Assemble(st)}, gone)
      \/ /\ ~FlowIsComplete(st)
         /\ flows' = [flows EXCEPT ![i] =
                [q \in left \cup {key} |-> IF q = key THEN st ELSE F[q]]]
         /\ order' = [order EXCEPT ![i] = ord]
         /\ Deliver(i, {}, gone)
  <2> HIDE DEF Written
  <2> QED
    BY <1>2 DEF AcceptPiece
<1>4. R = IF FlowIsComplete(st) THEN {Assemble(st)} ELSE {}
  BY DEF Returned, Writes
<1>5. Arrived(i, d, k) = UNION {TransportPayload(c) : c \in R}
  BY DEF Arrived, Writes
<1>6. R \subseteq Contents /\ \A c, e \in R : c = e
  BY ReturnedForm
<1>7. /\ ord \in Seq(Keys) /\ QueueExact(ord, left \cup {key})
      /\ IsFiniteSet(left \cup {key}) /\ Cardinality(left \cup {key}) <= FlowCapacity
      /\ left \subseteq live /\ key \notin left
      /\ \A x \in live : x \in left \/ x \in gone \/ x = key
  <2>1. StoreExact(F, q0) /\ key \in Keys
    BY <1>1
  <2> HIDE DEF F, q0, key
  <2> QED
    BY <2>1, OrderForm
<1>8. /\ live \subseteq Keys /\ \A x \in live : FlowTyped(F[x])
      /\ FlowTyped(st)
  BY <1>1, WrittenTyped DEF StoreExact
<1>9. F = flows[i]
  OBVIOUS
<1>10. live = DOMAIN F /\ key = Of[d].key /\ st = Written(i, d, k)
  OBVIOUS
<1> HIDE DEF F, live, gone, kept, ord, st, left, R, key
<1>11. Deliver(i, R, gone)
  BY <1>3, <1>4
<1>12. Delivered(i, Arrived(i, d, k)) /\ \A x \in gone : <<i, x>> \in evicted'
  BY <1>5, <1>6, <1>11, DeliverForm
<1>13. \A x \in live : x \in left \/ x = key \/ <<i, x>> \in evicted'
  BY <1>7, <1>12
<1>14. Stored(i, d, k)
  <2>1. CASE FlowIsComplete(st)
    <3>1. /\ flows' = [flows EXCEPT ![i] = [q \in left |-> F[q]]]
          /\ order' = [order EXCEPT ![i] = RemoveFirst(ord, key)]
      BY <1>3, <2>1
    <3> DEFINE G == [q \in left |-> F[q]]
    <3>2. /\ DOMAIN flows' = Interfaces /\ DOMAIN order' = Interfaces
          /\ flows'[i] = G /\ order'[i] = RemoveFirst(ord, key)
          /\ \A j \in Interfaces : j # i => flows'[j] = flows[j] /\ order'[j] = order[j]
      BY <1>1, <3>1
    <3>3. RemoveFirst(ord, key) \in Seq(Keys) /\ QueueExact(RemoveFirst(ord, key), left)
      <4>1. key \in left \cup {key} /\ (left \cup {key}) \ {key} = left
        BY <1>7
      <4> QED
        BY <1>7, <4>1, QueueRemove
    <3>4. Cardinality(left) <= FlowCapacity
      <4>1. left \in SUBSET (left \cup {key})
        OBVIOUS
      <4>2. Cardinality(left) <= Cardinality(left \cup {key}) /\ IsFiniteSet(left)
        BY <1>7, <4>1, FS_Subset
      <4>3. Cardinality(left) \in Nat /\ Cardinality(left \cup {key}) \in Nat /\ FlowCapacity \in Nat
        BY <1>7, <4>2, FS_CardinalityType, BoundAssumption
      <4> QED
        BY <1>7, <4>2, <4>3
    <3>5. DOMAIN G = left /\ \A x \in left : G[x] = F[x]
      OBVIOUS
    <3> HIDE DEF G
    <3>6. StoreExact(G, RemoveFirst(ord, key))
      BY <1>7, <1>8, <3>3, <3>4, <3>5 DEF StoreExact
    <3> QED
      BY <1>7, <1>9, <1>10, <1>13, <2>1, <3>2, <3>5, <3>6 DEF Stored
  <2>2. CASE ~FlowIsComplete(st)
    <3> DEFINE G == [q \in left \cup {key} |-> IF q = key THEN st ELSE F[q]]
    <3>1. /\ flows' = [flows EXCEPT ![i] = G]
          /\ order' = [order EXCEPT ![i] = ord]
      BY <1>3, <2>2
    <3>2. /\ DOMAIN flows' = Interfaces /\ DOMAIN order' = Interfaces
          /\ flows'[i] = G /\ order'[i] = ord
          /\ \A j \in Interfaces : j # i => flows'[j] = flows[j] /\ order'[j] = order[j]
      BY <1>1, <3>1
    <3>3. /\ DOMAIN G = left \cup {key} /\ G[key] = st
          /\ \A x \in left : G[x] = F[x]
      BY <1>7
    <3> HIDE DEF G
    <3>4. StoreExact(G, ord)
      BY <1>1, <1>7, <1>8, <3>3 DEF StoreExact
    <3> QED
      BY <1>7, <1>9, <1>10, <1>13, <2>2, <3>2, <3>3, <3>4 DEF Stored
  <2> QED
    BY <2>1, <2>2
<1> QED
  BY <1>12, <1>14

\* What becomes of the kernel's map when frame k of d passes the filter or not.
Filtered(d, k) ==
  /\ KernelInv' /\ lruLost \subseteq lruLost'
  /\ \A key \in Keys : key # Of[d].key =>
       /\ key \in approved' => key \in approved
       /\ key \in approved => key \in approved' \/ key \in lruLost'
  /\ ~Passes(d, k) => approved' = approved
  /\ Passes(d, k) =>
       /\ k = 1 /\ Frags(d) > 1 => Of[d].key \in approved'
       /\ k = 1 /\ Frags(d) = 1 => approved' = approved
       /\ k # 1 /\ k # Frags(d) => approved' = approved
       /\ k # 1 /\ k = Frags(d) => Of[d].key \notin approved'

\* frag_flow_mark keeps the map within its bound.
LEMMA MarkForm ==
    ASSUME KernelInv, NEW key \in Keys, Mark(key)
    PROVE  /\ KernelInv' /\ key \in approved' /\ lruLost \subseteq lruLost'
           /\ \A x \in approved' : x \in approved \/ x = key
           /\ \A x \in approved : x \in approved' \/ x \in lruLost'
<1>1. PICK lost \in SUBSET (approved \ {key}) :
         /\ Cardinality(lost) =
              IF key \notin approved /\ Cardinality(approved) >= ApprovalCapacity THEN 1 ELSE 0
         /\ approved' = (approved \ lost) \cup {key}
         /\ lruLost' = lruLost \cup lost
  BY DEF Mark
<1>2. /\ approved \subseteq Keys /\ IsFiniteSet(approved) /\ Cardinality(approved) \in Nat
      /\ Cardinality(approved) <= ApprovalCapacity /\ ApprovalCapacity \in Nat \ {0}
  BY FS_CardinalityType, BoundAssumption DEF KernelInv
<1>3. approved \cap lost = lost /\ lost \in SUBSET approved
  BY <1>1
<1>4. /\ IsFiniteSet(approved \ lost)
      /\ Cardinality(approved \ lost) = Cardinality(approved) - Cardinality(lost)
  BY <1>2, <1>3, FS_Difference
<1>5. /\ IsFiniteSet((approved \ lost) \cup {key})
      /\ Cardinality((approved \ lost) \cup {key}) =
           IF key \in approved \ lost THEN Cardinality(approved \ lost)
           ELSE Cardinality(approved \ lost) + 1
  BY <1>4, FS_AddElement
<1>6. Cardinality(approved') <= ApprovalCapacity
  <2>1. CASE key \in approved
    <3>1. key \in approved \ lost /\ Cardinality(lost) = 0
      BY <1>1, <2>1
    <3> QED
      BY <1>1, <1>2, <1>4, <1>5, <3>1
  <2>2. CASE key \notin approved
    BY <1>1, <1>2, <1>4, <1>5, <2>2
  <2> QED
    BY <2>1, <2>2
<1>7. approved' \subseteq Keys /\ IsFiniteSet(approved')
  BY <1>1, <1>2, <1>5
<1> QED
  BY <1>1, <1>6, <1>7 DEF KernelInv

\* run: frame k of d in the filter.
LEMMA FilterForm ==
    ASSUME KernelInv, NEW d \in Datagrams, NEW k \in 1 .. Frags(d),
           IF Passes(d, k) THEN Filter(d, k) ELSE UNCHANGED kernelVars
    PROVE  Filtered(d, k)
<1> DEFINE key == Of[d].key
<1>1. key \in Keys /\ Frags(d) \in Nat /\ k \in Nat /\ 1 <= k /\ k <= Frags(d)
  BY KeyOf, FragmentForm
<1>2. ASSUME UNCHANGED kernelVars PROVE KernelInv' /\ approved' = approved /\ lruLost' = lruLost
  BY <1>2 DEF kernelVars, KernelInv
<1>3. CASE ~Passes(d, k)
  <2>1. UNCHANGED kernelVars
    BY <1>3
  <2> QED
    BY <1>2, <1>3, <2>1 DEF Filtered
<1>4. CASE Passes(d, k) /\ k = 1
  <2>1. KernelClassify[d]
    BY <1>4 DEF Passes
  <2>2. CASE Frags(d) > 1
    <3>1. Mark(key)
      BY <1>4, <2>1, <2>2 DEF Filter
    <3>2. /\ KernelInv' /\ key \in approved' /\ lruLost \subseteq lruLost'
          /\ \A x \in approved' : x \in approved \/ x = key
          /\ \A x \in approved : x \in approved' \/ x \in lruLost'
      BY <1>1, <3>1, MarkForm
    <3> QED
      BY <1>1, <1>4, <2>2, <3>2 DEF Filtered
  <2>3. CASE ~(Frags(d) > 1)
    <3>1. UNCHANGED kernelVars
      BY <1>4, <2>3 DEF Filter
    <3> QED
      BY <1>1, <1>2, <1>4, <2>3, <3>1 DEF Filtered
  <2> QED
    BY <2>2, <2>3
<1>5. CASE Passes(d, k) /\ k # 1
  <2>1. approved' = Forget(d, k) /\ lruLost' = lruLost
    BY <1>5 DEF Filter
  <2>2. approved' = IF k = Frags(d) THEN approved \ {key} ELSE approved
    BY <2>1 DEF Forget
  <2>3. KernelInv'
    <3>1. /\ approved \subseteq Keys /\ IsFiniteSet(approved)
          /\ Cardinality(approved) <= ApprovalCapacity /\ ApprovalCapacity \in Nat
          /\ Cardinality(approved) \in Nat
      BY FS_CardinalityType, BoundAssumption DEF KernelInv
    <3>2. approved' \in SUBSET approved
      BY <2>2
    <3>3. /\ IsFiniteSet(approved') /\ Cardinality(approved') <= Cardinality(approved)
          /\ Cardinality(approved') \in Nat
      BY <3>1, <3>2, FS_Subset, FS_CardinalityType
    <3> QED
      BY <3>1, <3>2, <3>3 DEF KernelInv
  <2> QED
    BY <1>5, <2>1, <2>2, <2>3 DEF Filtered
<1> QED
  BY <1>3, <1>4, <1>5

\* All that a frame does, in one place.
Framed(i, d, k) ==
  /\ Stored(i, d, k)
  /\ Delivered(i, Arrived(i, d, k))
  /\ Filtered(d, k)
  /\ starved \subseteq starved' /\ overlap \subseteq overlap' /\ out' = out
  /\ ~Passes(d, k) /\ k # 1 => <<i, Of[d].key>> \in starved'
  /\ \A e \in Others(d), j \in Interfaces : InFlight(j, e) => Of[d].key \in overlap'

\* A frame does no more than that.
LEMMA FrameForm ==
    ASSUME KernelInv, StoreInv, BufferInv, NEW i \in Interfaces, NEW d \in Datagrams,
           NEW k \in 1 .. Frags(d), Frame(i, d, k)
    PROVE  Framed(i, d, k)
<1>1. /\ DOMAIN flows = Interfaces /\ DOMAIN order = Interfaces
      /\ StoreExact(flows[i], order[i]) /\ DOMAIN buffer = Interfaces
      /\ BufferExact(buffer[i])
  BY DEF StoreInv, BufferInv
<1>2. IF Passes(d, k) THEN Filter(d, k) ELSE UNCHANGED kernelVars
  BY DEF Frame
<1>3. Filtered(d, k)
  BY <1>2, FilterForm
<1>4. Stored(i, d, k) /\ Delivered(i, Arrived(i, d, k))
  <2>1. CASE ~(Passes(d, k) /\ UserParses(d))
    <3>1. UNCHANGED userVars
      BY <2>1 DEF Frame
    <3>2. flows' = flows /\ order' = order /\ buffer' = buffer /\ evicted' = evicted
      BY <3>1 DEF userVars
    <3>3. ~Writes(d, k)
      BY <2>1 DEF Writes
    <3>4. Arrived(i, d, k) = {}
      BY <2>1 DEF Arrived
    <3> QED
      BY <1>1, <3>2, <3>3, <3>4 DEF Stored, Delivered
  <2>2. CASE Passes(d, k) /\ UserParses(d) /\ ~HasFragment(d)
    <3>1. /\ Deliver(i, {[b \in 0 .. Size(d) - 1 |-> d]}, {})
          /\ flows' = flows /\ order' = order
      BY <2>2 DEF Frame, Accept
    <3>2. Returned(i, d, k) = {[b \in 0 .. Size(d) - 1 |-> d]}
      BY <2>2 DEF Returned
    <3>3. Arrived(i, d, k) = UNION {TransportPayload(c) : c \in Returned(i, d, k)}
      BY <2>2 DEF Arrived
    <3>4. Returned(i, d, k) \subseteq Contents /\ \A c, e \in Returned(i, d, k) : c = e
      BY ReturnedForm
    <3>5. Deliver(i, Returned(i, d, k), {})
      BY <3>1, <3>2
    <3>6. Delivered(i, Arrived(i, d, k))
      BY <3>3, <3>4, <3>5, DeliverForm
    <3>7. ~Writes(d, k)
      BY <2>2 DEF Writes
    <3> QED
      BY <1>1, <3>1, <3>6, <3>7 DEF Stored
  <2>3. CASE Writes(d, k)
    <3>1. AcceptPiece(i, d, k)
      BY <2>3 DEF Frame, Accept, Writes
    <3> QED
      BY <2>3, <3>1, AcceptPieceForm
  <2> QED
    BY <2>1, <2>2, <2>3 DEF Writes
<1>5. /\ starved \subseteq starved' /\ overlap \subseteq overlap' /\ out' = out
      /\ ~Passes(d, k) /\ k # 1 => <<i, Of[d].key>> \in starved'
  BY DEF Frame
<1>6. ASSUME NEW e \in Others(d), NEW j \in Interfaces, InFlight(j, e)
      PROVE  Of[d].key \in overlap'
  <2>1. overlap' = overlap \cup
           {Of[f].key : f \in {f \in Others(d) : \E h \in Interfaces : InFlight(h, f)}}
    BY DEF Frame
  <2>2. Of[e].key = Of[d].key
    BY DEF Others
  <2> QED
    BY <1>6, <2>1, <2>2
<1> QED
  BY <1>3, <1>4, <1>5, <1>6 DEF Framed

\* A frame keeps the tables and the queues exact.
LEMMA FrameKeepsType ==
    ASSUME TypeInv, NEW i \in Interfaces, NEW d \in Datagrams, NEW k \in 1 .. Frags(d),
           Frame(i, d, k)
    PROVE  KernelInv' /\ StoreInv' /\ BufferInv' /\ out' = out
<1>1. Framed(i, d, k)
  BY FrameForm DEF TypeInv
<1>2. KernelInv' /\ out' = out
  BY <1>1 DEF Framed, Filtered
<1>3. StoreInv'
  <2>1. /\ DOMAIN flows' = Interfaces /\ DOMAIN order' = Interfaces
        /\ StoreExact(flows'[i], order'[i])
        /\ \A j \in Interfaces : j # i => flows'[j] = flows[j] /\ order'[j] = order[j]
    BY <1>1 DEF Framed, Stored
  <2>2. \A j \in Interfaces : StoreExact(flows[j], order[j])
    BY DEF TypeInv, StoreInv
  <2>3. ASSUME NEW j \in Interfaces PROVE StoreExact(flows'[j], order'[j])
    BY <2>1, <2>2
  <2> QED
    BY <2>1, <2>3 DEF StoreInv, StoreExact, Keys
<1>4. BufferInv'
  <2>1. /\ DOMAIN buffer' = Interfaces /\ BufferExact(buffer'[i])
        /\ \A j \in Interfaces : j # i => buffer'[j] = buffer[j]
    BY <1>1 DEF Framed, Delivered
  <2>2. \A j \in Interfaces : BufferExact(buffer[j])
    BY DEF TypeInv, BufferInv
  <2>3. ASSUME NEW j \in Interfaces PROVE BufferExact(buffer'[j])
    BY <2>1, <2>2
  <2> QED
    BY <2>1, <2>3 DEF BufferInv
<1> QED
  BY <1>2, <1>3, <1>4

----------------------------------------------------------------------------
(* The tables and the queues stay exact.                                   *)

\* A frame more of a datagram has come by on an interface.
Moved(i, d) ==
  /\ NextInv'
  /\ next'[i][d] = next[i][d] + 1
  /\ \A j \in Interfaces, e \in Datagrams : <<j, e>> # <<i, d>> => next'[j][e] = next[j][e]

\* One more frame is counted, and nothing else.
LEMMA MovedForm ==
    ASSUME NextInv, NEW i \in Interfaces, NEW d \in Datagrams, next[i][d] <= Frags(d),
           next' = [next EXCEPT ![i][d] = @ + 1]
    PROVE  Moved(i, d)
<1>1. /\ next \in [Interfaces -> [Datagrams -> Nat]]
      /\ \A j \in Interfaces, e \in Datagrams : next[j][e] \in 1 .. Frags(e) + 1
  BY DEF NextInv
<1>2. next' = [next EXCEPT ![i] = [next[i] EXCEPT ![d] = next[i][d] + 1]]
  OBVIOUS
<1>3. next[i] \in [Datagrams -> Nat] /\ next[i][d] \in Nat
  BY <1>1
<1>4. [next[i] EXCEPT ![d] = next[i][d] + 1] \in [Datagrams -> Nat]
  BY <1>3
<1>5. next' \in [Interfaces -> [Datagrams -> Nat]]
  BY <1>1, <1>2, <1>4
<1>6. /\ next'[i][d] = next[i][d] + 1
      /\ \A j \in Interfaces, e \in Datagrams : <<j, e>> # <<i, d>> => next'[j][e] = next[j][e]
  BY <1>1, <1>2, <1>3
<1>7. ASSUME NEW j \in Interfaces, NEW e \in Datagrams PROVE next'[j][e] \in 1 .. Frags(e) + 1
  <2>1. Frags(e) \in Nat /\ next[j][e] \in 1 .. Frags(e) + 1
    BY <1>1, FragmentForm
  <2>2. CASE <<j, e>> = <<i, d>>
    <3>1. j = i /\ e = d
      BY <2>2
    <3> QED
      BY <1>6, <2>1, <3>1
  <2>3. CASE <<j, e>> # <<i, d>>
    BY <1>6, <2>1, <2>3
  <2> QED
    BY <2>2, <2>3
<1> QED
  BY <1>5, <1>6, <1>7 DEF Moved, NextInv, Frags

\* The frame that comes next is one of the datagram's.
LEMMA NextFrame ==
    ASSUME NextInv, NEW i \in Interfaces, NEW d \in Datagrams
    PROVE  /\ next[i][d] \in Nat \ {0} /\ Frags(d) \in Nat \ {0}
           /\ next[i][d] <= Frags(d) => next[i][d] \in 1 .. Frags(d)
<1>1. next[i][d] \in 1 .. Frags(d) + 1 /\ Frags(d) \in Nat \ {0}
  BY FragmentForm DEF NextInv
<1> QED
  BY <1>1

\* At first there is nothing.
LEMMA TypeStart == Init => TypeInv
<1> SUFFICES ASSUME Init PROVE TypeInv
  OBVIOUS
<1>1. next = [i \in Interfaces |-> [d \in Datagrams |-> 1]]
  BY DEF Init
<1>2. NextInv
  <2>1. ASSUME NEW d \in Datagrams PROVE 1 \in 1 .. Frags(d) + 1
    BY FragmentForm
  <2> QED
    BY <1>1, <2>1 DEF NextInv
<1>3. KernelInv
  <2>1. approved = {} /\ Cardinality({}) = 0 /\ IsFiniteSet({}) /\ ApprovalCapacity \in Nat
    BY FS_EmptySet, BoundAssumption DEF Init
  <2> QED
    BY <2>1 DEF KernelInv
<1>4. StoreInv
  <2>1. /\ flows = [i \in Interfaces |-> <<>>] /\ order = [i \in Interfaces |-> <<>>]
    BY DEF Init
  <2>2. <<>> \in Seq(Keys) /\ QueueExact(<<>>, {}) /\ DOMAIN <<>> = {}
    BY QueueEmpty
  <2>3. Cardinality({}) = 0 /\ FlowCapacity \in Nat
    BY FS_EmptySet, BoundAssumption
  <2>4. StoreExact(<<>>, <<>>)
    BY <2>2, <2>3 DEF StoreExact
  <2> QED
    BY <2>1, <2>4 DEF StoreInv
<1>5. BufferInv
  <2>1. buffer = [i \in Interfaces |-> <<>>]
    BY DEF Init
  <2>2. BufferExact(<<>>)
    <3>1. <<>> \in Seq(Queued) /\ DOMAIN <<>> = {}
      OBVIOUS
    <3>2. \A to : Places(<<>>, to) = {}
      BY <3>1 DEF Places
    <3>3. Cardinality({}) = 0 /\ BufferDepth \in Nat
      BY FS_EmptySet, BoundAssumption
    <3> QED
      BY <3>1, <3>2, <3>3 DEF BufferExact
  <2> QED
    BY <2>1, <2>2 DEF BufferInv
<1>6. CountInv
  BY BoundAssumption DEF Init, CountInv
<1> QED
  BY <1>2, <1>3, <1>4, <1>5, <1>6 DEF TypeInv

\* Every step keeps the tables and the queues exact.
LEMMA TypeStep == TypeInv /\ [Next]_vars => TypeInv'
<1> SUFFICES ASSUME TypeInv, [Next]_vars PROVE TypeInv'
  OBVIOUS
<1>0. NextInv /\ KernelInv /\ StoreInv /\ BufferInv /\ CountInv
  BY DEF TypeInv
<1>1. ASSUME NEW i \in Interfaces, Pop(i) PROVE TypeInv'
  <2>1. /\ buffer' = [buffer EXCEPT ![i] = <<>>] /\ out' = out \cup WholeIn(i)
        /\ next' = next /\ approved' = approved /\ flows' = flows /\ order' = order
        /\ faults' = faults
    BY <1>1 DEF Pop, kernelVars
  <2>2. BufferInv'
    <3>1. BufferExact(<<>>)
      <4>1. <<>> \in Seq(Queued) /\ DOMAIN <<>> = {}
        OBVIOUS
      <4>2. \A to : Places(<<>>, to) = {}
        BY <4>1 DEF Places
      <4>3. Cardinality({}) = 0 /\ BufferDepth \in Nat
        BY FS_EmptySet, BoundAssumption
      <4> QED
        BY <4>1, <4>2, <4>3 DEF BufferExact
    <3>2. DOMAIN buffer = Interfaces /\ \A j \in Interfaces : BufferExact(buffer[j])
      BY <1>0 DEF BufferInv
    <3>3. /\ DOMAIN buffer' = Interfaces /\ buffer'[i] = <<>>
          /\ \A j \in Interfaces : j # i => buffer'[j] = buffer[j]
      BY <2>1, <3>2
    <3>4. \A j \in Interfaces : BufferExact(buffer'[j])
      BY <3>1, <3>2, <3>3
    <3> QED
      BY <3>3, <3>4 DEF BufferInv
  <2>3. CountInv'
    <3>1. WholeIn(i) \subseteq Datagrams
      <4>1. ASSUME NEW q \in ToSet(buffer[i]) PROVE q.packet.head \in Datagrams
        <5>1. buffer[i] \in Seq(Queued)
          BY <1>0 DEF BufferInv, BufferExact
        <5>2. q \in Queued
          BY <5>1 DEF ToSet
        <5> QED
          BY <5>2 DEF Queued, Packets
      <4> QED
        BY <4>1 DEF WholeIn
    <3> QED
      BY <1>0, <2>1, <3>1 DEF CountInv
  <2> QED
    BY <1>0, <2>1, <2>2, <2>3 DEF TypeInv, NextInv, KernelInv, StoreInv
<1>2. ASSUME NEW i \in Interfaces, NEW d \in Datagrams, Arrive(i, d) PROVE TypeInv'
  <2>1. /\ next[i][d] <= Frags(d) /\ next' = [next EXCEPT ![i][d] = @ + 1]
        /\ Frame(i, d, next[i][d]) /\ faults' = faults
    BY <1>2 DEF Arrive
  <2>2. next[i][d] \in 1 .. Frags(d)
    BY <1>0, <2>1, NextFrame
  <2>3. NextInv'
    BY <1>0, <2>1, MovedForm DEF Moved
  <2>4. KernelInv' /\ StoreInv' /\ BufferInv' /\ out' = out
    BY <2>1, <2>2, FrameKeepsType
  <2> QED
    BY <1>0, <2>1, <2>3, <2>4 DEF TypeInv, CountInv
<1>3. ASSUME NEW i \in Interfaces, NEW d \in Datagrams, Miss(i, d) PROVE TypeInv'
  <2>1. /\ next[i][d] <= Frags(d) /\ next' = [next EXCEPT ![i][d] = @ + 1]
        /\ faults < MaxFaults /\ faults' = faults + 1
        /\ approved' = approved /\ flows' = flows /\ order' = order /\ buffer' = buffer
        /\ out' = out
    BY <1>3 DEF Miss, kernelVars, userVars
  <2>2. NextInv'
    BY <1>0, <2>1, MovedForm DEF Moved
  <2>3. CountInv'
    BY <1>0, <2>1, BoundAssumption DEF CountInv
  <2> QED
    BY <1>0, <2>1, <2>2, <2>3 DEF TypeInv, KernelInv, StoreInv, BufferInv
<1>4. ASSUME NEW i \in Interfaces, NEW d \in Datagrams, NEW k \in 1 .. Frags(d), Repeat(i, d, k)
      PROVE  TypeInv'
  <2>1. /\ next' = next /\ faults < MaxFaults /\ faults' = faults + 1 /\ Frame(i, d, k)
    BY <1>4 DEF Repeat
  <2>2. KernelInv' /\ StoreInv' /\ BufferInv' /\ out' = out
    BY <2>1, FrameKeepsType
  <2>3. CountInv'
    BY <1>0, <2>1, <2>2, BoundAssumption DEF CountInv
  <2> QED
    BY <1>0, <2>1, <2>2, <2>3 DEF TypeInv, NextInv
<1>5. ASSUME UNCHANGED vars PROVE TypeInv'
  <2>1. /\ next' = next /\ approved' = approved /\ flows' = flows /\ order' = order
        /\ buffer' = buffer /\ out' = out /\ faults' = faults
    BY <1>5 DEF vars, kernelVars, userVars
  <2> QED
    BY <1>0, <2>1 DEF TypeInv, NextInv, KernelInv, StoreInv, BufferInv, CountInv
<1> QED
  BY <1>1, <1>2, <1>3, <1>4, <1>5 DEF Next

\* The invariant holds of every behaviour.
LEMMA TypeHolds == Spec => []TypeInv
BY TypeStart, TypeStep, PTL DEF Spec

\* The kernel's map, every reassembler and every buffer stay within their
\* bounds, each flow has its place in the queue by which the next to evict is
\* chosen, and its ranges are its fragments, after any loss, repetition,
\* eviction and completion (IpFragmentReassembler::accept, frag_flow_mark,
\* push_bounded).
THEOREM ReassemblersStayExact == Spec => []FlowsExact
<1>1. TypeInv => FlowsExact
  <2> SUFFICES ASSUME TypeInv PROVE FlowsExact
    OBVIOUS
  <2>1. TypeOK
    <3>1. \A i \in Interfaces : Len(buffer[i]) <= 2 * BufferDepth
      BY BufferBounded DEF TypeInv, BufferInv
    <3> QED
      BY <3>1 DEF TypeOK, TypeInv, NextInv, KernelInv, StoreInv, StoreExact, CountInv
  <2>2. OrderExact
    BY DEF OrderExact, TypeInv, StoreInv, StoreExact
  <2>3. RangesExact
    <3> SUFFICES ASSUME NEW i \in Interfaces, NEW key \in DOMAIN flows[i]
                 PROVE  /\ Separated(flows[i][key].ranges)
                        /\ \A o \in DOMAIN flows[i][key].chunks :
                             o .. o + flows[i][key].chunks[o].len - 1
                               \subseteq Covered(flows[i][key].ranges)
      BY DEF RangesExact
    <3>1. FlowTyped(flows[i][key])
      BY DEF TypeInv, StoreInv, StoreExact
    <3> QED
      BY <3>1 DEF FlowTyped
  <2> QED
    BY <2>1, <2>2, <2>3 DEF FlowsExact
<1> QED
  BY <1>1, TypeHolds, PTL

----------------------------------------------------------------------------
(* What leaves a reassembler is one datagram whole.                        *)

\* The chunks of a flow are fragments of datagrams of its key that have come
\* by on that interface.
FlowSeen(i, key, st) ==
  \A o \in DOMAIN st.chunks :
    Of[st.chunks[o].of].key = key /\ next[i][st.chunks[o].of] > 1
SeenInv ==
  \A i \in Interfaces : \A key \in DOMAIN flows[i] : FlowSeen(i, key, flows[i][key])

\* As long as no other datagram of the key has, the flow is pure.
Alone(i, h) == \A e \in Others(h) : ~(next[i][e] > 1)
FlowSole(i, key, st) ==
  \A h \in Datagrams : Of[h].key = key /\ Alone(i, h) => Pure(st, h)
SoleInv ==
  \A i \in Interfaces : \A key \in DOMAIN flows[i] : FlowSole(i, key, flows[i][key])

\* An approval is that of a datagram on its way, unless a frame was missed or
\* repeated: the last fragment takes it back on whichever interface it comes
\* first, and then the datagram is still on its way on the others only.
ApprovalInv ==
  \A key \in approved : key \notin faulty =>
    \E j \in Interfaces, e \in Datagrams :
      Of[e].key = key /\ KernelClassify[e] /\ InFlight(j, e)

\* What may leave foreign fragments behind, and a flow without them: exactly
\* the fragments so far of the one datagram on its way.
Excused(i, key) ==
  \/ <<i, key>> \in starved \cup evicted
  \/ key \in faulty \cup lruLost \cup overlap
Clean(i, key) ==
  /\ key \in DOMAIN flows[i] =>
       \E d \in Datagrams : /\ Of[d].key = key /\ InFlight(i, d) /\ UserParses(d)
                            /\ Upto(flows[i][key], d, next[i][d] - 1)
  /\ \A d \in Datagrams :
       Of[d].key = key /\ InFlight(i, d) /\ UserParses(d) /\ KernelClassify[d]
         => key \in DOMAIN flows[i]
CleanInv == \A i \in Interfaces, key \in Keys : ~Excused(i, key) => Clean(i, key)

WholeInv == TypeInv /\ SeenInv /\ SoleInv /\ ApprovalInv /\ CleanInv /\ OnlyWhole

\* Frame k of d has come, and the counts of frames have not gone back.
Came(i, d, k) ==
  /\ Framed(i, d, k)
  /\ next'[i][d] > 1
  /\ \A j \in Interfaces, e \in Datagrams :
       next[j][e] \in Nat /\ next'[j][e] \in Nat /\ next[j][e] <= next'[j][e]
  /\ \A j \in Interfaces, e \in Datagrams : <<j, e>> # <<i, d>> => next'[j][e] = next[j][e]
  /\ faulty \subseteq faulty'

\* An arrival is a coming.
LEMMA ArriveForm ==
    ASSUME TypeInv, NEW i \in Interfaces, NEW d \in Datagrams, Arrive(i, d)
    PROVE  /\ next[i][d] \in 1 .. Frags(d) /\ Moved(i, d) /\ Came(i, d, next[i][d])
           /\ faulty' = faulty
           /\ next[i][d] = 1 => \A e \in Others(d) : ~InFlight(i, e)
<1>0. NextInv /\ KernelInv /\ StoreInv /\ BufferInv
  BY DEF TypeInv
<1>1. /\ next[i][d] <= Frags(d) /\ next' = [next EXCEPT ![i][d] = @ + 1]
      /\ Frame(i, d, next[i][d]) /\ faulty' = faulty
      /\ next[i][d] = 1 => \A e \in Others(d) : ~InFlight(i, e)
  BY DEF Arrive
<1>2. next[i][d] \in 1 .. Frags(d)
  BY <1>0, <1>1, NextFrame
<1>3. Moved(i, d)
  BY <1>0, <1>1, MovedForm
<1>4. Framed(i, d, next[i][d])
  BY <1>0, <1>1, <1>2, FrameForm
<1>5. /\ \A j \in Interfaces, e \in Datagrams : next[j][e] \in Nat /\ next'[j][e] \in Nat
      /\ next'[i][d] = next[i][d] + 1
      /\ \A j \in Interfaces, e \in Datagrams : <<j, e>> # <<i, d>> => next'[j][e] = next[j][e]
  BY <1>0, <1>3 DEF Moved, NextInv
<1>6. next'[i][d] > 1
  BY <1>2, <1>5
<1>7. ASSUME NEW j \in Interfaces, NEW e \in Datagrams PROVE next[j][e] <= next'[j][e]
  <2>1. CASE <<j, e>> = <<i, d>>
    <3>1. j = i /\ e = d
      BY <2>1
    <3> QED
      BY <1>5, <3>1
  <2>2. CASE <<j, e>> # <<i, d>>
    BY <1>5, <2>2
  <2> QED
    BY <2>1, <2>2
<1> QED
  BY <1>1, <1>2, <1>3, <1>4, <1>5, <1>6, <1>7 DEF Came

\* So is a repetition.
LEMMA RepeatForm ==
    ASSUME TypeInv, NEW i \in Interfaces, NEW d \in Datagrams, NEW k \in 1 .. Frags(d),
           Repeat(i, d, k)
    PROVE  /\ Came(i, d, k) /\ next' = next
           /\ faulty' = faulty \cup {Of[d].key}
<1>0. NextInv /\ KernelInv /\ StoreInv /\ BufferInv
  BY DEF TypeInv
<1>1. next' = next /\ k < next[i][d] /\ faulty' = faulty \cup {Of[d].key} /\ Frame(i, d, k)
  BY DEF Repeat
<1>2. Framed(i, d, k)
  BY <1>0, <1>1, FrameForm
<1>3. \A j \in Interfaces, e \in Datagrams : next[j][e] \in Nat
  BY <1>0 DEF NextInv
<1>4. next[i][d] > 1
  BY <1>1, <1>3
<1> QED
  BY <1>1, <1>2, <1>3, <1>4 DEF Came

\* The flow a frame is written to: its chunks have come by.
SeenAfter(i, key, st) ==
  \A o \in DOMAIN st.chunks :
    Of[st.chunks[o].of].key = key /\ next'[i][st.chunks[o].of] > 1

LEMMA WrittenSeen ==
    ASSUME TypeInv, SeenInv, NEW i \in Interfaces, NEW d \in Datagrams,
           NEW k \in 1 .. Frags(d), Came(i, d, k)
    PROVE  SeenAfter(i, Of[d].key, Written(i, d, k))
<1> DEFINE st  == Written(i, d, k)
           old == FlowBefore(i, d)
           key == Of[d].key
<1>1. FlowTyped(old)
  BY WrittenTyped DEF TypeInv
<1>2. /\ DOMAIN st.chunks = DOMAIN old.chunks \cup {Offset[d][k]}
      /\ st.chunks[Offset[d][k]].of = d
      /\ \A o \in DOMAIN old.chunks : o # Offset[d][k] => st.chunks[o] = old.chunks[o]
  BY <1>1, WriteForm DEF Written
<1>3. ASSUME NEW o \in DOMAIN old.chunks
      PROVE  Of[old.chunks[o].of].key = key /\ next[i][old.chunks[o].of] > 1
             /\ old.chunks[o].of \in Datagrams
  <2>1. DOMAIN NewFlow.chunks = {}
    BY DEF NewFlow
  <2>2. key \in DOMAIN flows[i] /\ old = flows[i][key]
    BY <2>1 DEF FlowBefore
  <2>3. FlowSeen(i, key, old)
    BY <2>2 DEF SeenInv
  <2>4. old.chunks[o].of \in Datagrams
    BY <1>1 DEF FlowTyped
  <2> QED
    BY <2>3, <2>4 DEF FlowSeen
<1> HIDE DEF st, old, key
<1>4. ASSUME NEW o \in DOMAIN st.chunks
      PROVE  Of[st.chunks[o].of].key = key /\ next'[i][st.chunks[o].of] > 1
  <2>1. CASE o = Offset[d][k]
    BY <1>2, <2>1 DEF Came, key
  <2>2. CASE o # Offset[d][k]
    <3>1. o \in DOMAIN old.chunks /\ st.chunks[o] = old.chunks[o]
      BY <1>2, <2>2
    <3> DEFINE e == st.chunks[o].of
    <3>2. Of[e].key = key /\ next[i][e] > 1 /\ e \in Datagrams
      BY <1>3, <3>1
    <3>3. next[i][e] \in Nat /\ next'[i][e] \in Nat /\ next[i][e] <= next'[i][e]
      BY <3>2 DEF Came
    <3> HIDE DEF e
    <3>4. next'[i][e] > 1
      BY <3>2, <3>3
    <3> QED
      BY <3>2, <3>4 DEF e
  <2> QED
    BY <2>1, <2>2
<1>5. \A o \in DOMAIN st.chunks : Of[st.chunks[o].of].key = key /\ next'[i][st.chunks[o].of] > 1
  BY <1>4
<1> QED
  BY <1>5 DEF SeenAfter, st, key

\* And it is pure as long as no other datagram of the key has come by.
LEMMA WrittenSole ==
    ASSUME TypeInv, SoleInv, NEW i \in Interfaces, NEW d \in Datagrams,
           NEW k \in 1 .. Frags(d), Came(i, d, k), NEW h \in Datagrams,
           Of[h].key = Of[d].key, \A e \in Others(h) : ~(next'[i][e] > 1)
    PROVE  Pure(Written(i, d, k), h)
<1> DEFINE old == FlowBefore(i, d)
           key == Of[d].key
<1>1. d = h
  <2>1. next'[i][d] > 1
    BY DEF Came
  <2> QED
    BY <2>1 DEF Others
<1>2. FlowTyped(old)
  BY WrittenTyped DEF TypeInv
<1>3. Alone(i, d)
  <2> SUFFICES ASSUME NEW e \in Others(d) PROVE ~(next[i][e] > 1)
    BY DEF Alone
  <2>1. e \in Datagrams /\ ~(next'[i][e] > 1)
    BY <1>1 DEF Others
  <2>2. next[i][e] \in Nat /\ next'[i][e] \in Nat /\ next[i][e] <= next'[i][e]
    BY <2>1 DEF Came
  <2> QED
    BY <2>1, <2>2
<1>4. Pure(old, d)
  <2>1. CASE key \in DOMAIN flows[i]
    <3>1. old = flows[i][key] /\ FlowSole(i, key, flows[i][key])
      BY <2>1 DEF FlowBefore, SoleInv
    <3> QED
      BY <1>3, <3>1 DEF FlowSole
  <2>2. CASE key \notin DOMAIN flows[i]
    <3>1. old = NewFlow
      BY <2>2 DEF FlowBefore
    <3> QED
      BY <3>1, NewFlowIs
  <2> QED
    BY <2>1, <2>2
<1>5. Pure(WriteFragment(old, d, k), d)
  BY <1>2, <1>4, WriteKeepsPure
<1> QED
  BY <1>1, <1>5 DEF Written

\* A flow after a frame: the one that was there, or the one written to.
LEMMA FlowAfter ==
    ASSUME NEW i \in Interfaces, NEW d \in Datagrams, NEW k \in 1 .. Frags(d),
           Framed(i, d, k), NEW j \in Interfaces, NEW key \in DOMAIN flows'[j]
    PROVE  \/ /\ key \in DOMAIN flows[j] /\ flows'[j][key] = flows[j][key]
              /\ ~(j = i /\ key = Of[d].key /\ Writes(d, k))
           \/ /\ j = i /\ key = Of[d].key /\ Writes(d, k)
              /\ flows'[j][key] = Written(i, d, k)
<1>1. Stored(i, d, k)
  BY DEF Framed
<1>2. CASE j # i
  <2>1. flows'[j] = flows[j]
    BY <1>1, <1>2 DEF Stored
  <2> QED
    BY <1>2, <2>1
<1>3. CASE j = i /\ key # Of[d].key
  <2>1. key \in Keys
    BY <1>1, <1>3 DEF Stored, StoreExact
  <2> QED
    BY <1>1, <1>3, <2>1 DEF Stored
<1>4. CASE j = i /\ key = Of[d].key /\ ~Writes(d, k)
  <2>1. flows'[i] = flows[i]
    BY <1>1, <1>4 DEF Stored
  <2> QED
    BY <1>4, <2>1
<1>5. CASE j = i /\ key = Of[d].key /\ Writes(d, k)
  BY <1>1, <1>5 DEF Stored
<1> QED
  BY <1>2, <1>3, <1>4, <1>5

\* A frame keeps the chunks of every flow those of datagrams that came by.
LEMMA SeenKept ==
    ASSUME TypeInv, SeenInv, NEW i \in Interfaces, NEW d \in Datagrams,
           NEW k \in 1 .. Frags(d), Came(i, d, k)
    PROVE  SeenInv'
<1> SUFFICES ASSUME NEW j \in Interfaces, NEW key \in DOMAIN flows'[j],
                    NEW o \in DOMAIN flows'[j][key].chunks
             PROVE  /\ Of[flows'[j][key].chunks[o].of].key = key
                    /\ next'[j][flows'[j][key].chunks[o].of] > 1
  BY DEF SeenInv, FlowSeen
<1>1. CASE key \in DOMAIN flows[j] /\ flows'[j][key] = flows[j][key]
  <2> DEFINE st == flows[j][key]
             e == st.chunks[o].of
  <2>1. FlowTyped(st) /\ FlowSeen(j, key, st)
    BY <1>1 DEF TypeInv, StoreInv, StoreExact, SeenInv
  <2>2. o \in DOMAIN st.chunks /\ flows'[j][key].chunks[o].of = e
    BY <1>1
  <2>3. e \in Datagrams /\ Of[e].key = key /\ next[j][e] > 1
    BY <2>1, <2>2 DEF FlowTyped, FlowSeen
  <2> HIDE DEF e
  <2>4. next[j][e] \in Nat /\ next'[j][e] \in Nat /\ next[j][e] <= next'[j][e]
    BY <2>3 DEF Came
  <2>5. next'[j][e] > 1
    BY <2>3, <2>4
  <2> QED
    BY <2>2, <2>3, <2>5
<1>2. CASE j = i /\ key = Of[d].key /\ Writes(d, k) /\ flows'[j][key] = Written(i, d, k)
  <2>1. SeenAfter(i, key, Written(i, d, k))
    BY <1>2, WrittenSeen
  <2> QED
    BY <1>2, <2>1 DEF SeenAfter
<1> QED
  BY <1>1, <1>2, FlowAfter DEF Came

\* A frame keeps every flow pure of which one datagram only has come by.
LEMMA SoleKept ==
    ASSUME TypeInv, SoleInv, NEW i \in Interfaces, NEW d \in Datagrams,
           NEW k \in 1 .. Frags(d), Came(i, d, k)
    PROVE  SoleInv'
<1> SUFFICES ASSUME NEW j \in Interfaces, NEW key \in DOMAIN flows'[j],
                    NEW h \in Datagrams, Of[h].key = key,
                    \A e \in Others(h) : ~(next'[j][e] > 1)
             PROVE  Pure(flows'[j][key], h)
  BY DEF SoleInv, FlowSole, Alone
<1>1. CASE key \in DOMAIN flows[j] /\ flows'[j][key] = flows[j][key]
  <2>1. Alone(j, h)
    <3> SUFFICES ASSUME NEW e \in Others(h) PROVE ~(next[j][e] > 1)
      BY DEF Alone
    <3>1. e \in Datagrams /\ ~(next'[j][e] > 1)
      BY DEF Others
    <3>2. next[j][e] \in Nat /\ next'[j][e] \in Nat /\ next[j][e] <= next'[j][e]
      BY <3>1 DEF Came
    <3> QED
      BY <3>1, <3>2
  <2>2. FlowSole(j, key, flows[j][key])
    BY <1>1 DEF SoleInv
  <2> QED
    BY <1>1, <2>1, <2>2 DEF FlowSole
<1>2. CASE j = i /\ key = Of[d].key /\ Writes(d, k) /\ flows'[j][key] = Written(i, d, k)
  <2>1. Pure(Written(i, d, k), h)
    BY <1>2, WrittenSole
  <2> QED
    BY <1>2, <2>1
<1> QED
  BY <1>1, <1>2, FlowAfter DEF Came

\* What a frame hands on is whole, or another datagram of the key has come by
\* and there is an excuse, if without one the flow was pure.
LEMMA WholeKept ==
    ASSUME TypeInv, SeenInv, SoleInv, OnlyWhole, NEW i \in Interfaces, NEW d \in Datagrams,
           NEW k \in 1 .. Frags(d), Came(i, d, k),
           Writes(d, k) => Excused(i, Of[d].key)' \/ Pure(Written(i, d, k), d)
    PROVE  OnlyWhole'
<1> DEFINE Fine(j, q) ==
             \/ Whole(q.packet)
             \/ /\ \E e \in Others(q.packet.head) : next'[j][e] > 1
                /\ \/ <<j, Of[q.packet.head].key>> \in starved' \cup evicted'
                   \/ Of[q.packet.head].key \in faulty' \cup lruLost' \cup overlap'
<1>1. /\ starved \subseteq starved' /\ evicted \subseteq evicted' /\ faulty \subseteq faulty'
      /\ lruLost \subseteq lruLost' /\ overlap \subseteq overlap'
  BY DEF Came, Framed, Delivered, Filtered
<1>2. ASSUME NEW j \in Interfaces, NEW q \in ToSet(buffer[j]) PROVE Fine(j, q)
  <2>1. \/ Whole(q.packet)
        \/ /\ \E e \in Others(q.packet.head) : next[j][e] > 1
           /\ \/ <<j, Of[q.packet.head].key>> \in starved \cup evicted
              \/ Of[q.packet.head].key \in faulty \cup lruLost \cup overlap
    BY DEF OnlyWhole
  <2>2. ASSUME NEW e \in Others(q.packet.head), next[j][e] > 1 PROVE next'[j][e] > 1
    <3>1. e \in Datagrams
      BY DEF Others
    <3>2. next[j][e] \in Nat /\ next'[j][e] \in Nat /\ next[j][e] <= next'[j][e]
      BY <3>1 DEF Came
    <3> QED
      BY <2>2, <3>2
  <2> QED
    BY <1>1, <2>1, <2>2
<1>3. ASSUME NEW p \in Arrived(i, d, k), NEW q, q.packet = p PROVE Fine(i, q)
  <2>1. Passes(d, k) /\ UserParses(d) /\ \E c \in Returned(i, d, k) : p \in TransportPayload(c)
    BY DEF Arrived
  <2>2. PICK c \in Returned(i, d, k) : p \in TransportPayload(c)
    BY <2>1
  <2>3. CASE ~HasFragment(d)
    <3>1. c = [b \in 0 .. Size(d) - 1 |-> d]
      BY <2>3 DEF Returned
    <3>2. Whole(p)
      <4> DEFINE r == [head |-> d, payload |-> [b \in 1 .. Size(d) - 1 |-> d]]
      <4>1. TransportPayload(c) = {r} /\ Whole(r)
        BY <3>1, WholeTransport
      <4> HIDE DEF r
      <4> QED
        BY <2>2, <4>1
    <3> QED
      BY <1>3, <3>2
  <2>4. CASE HasFragment(d)
    <3> DEFINE st == Written(i, d, k)
    <3>1. FlowIsComplete(st) /\ c = Assemble(st)
      BY <2>4 DEF Returned
    <3>2. FlowTyped(st) /\ SeenAfter(i, Of[d].key, st)
      BY WrittenTyped, WrittenSeen DEF TypeInv
    <3>3. Writes(d, k)
      BY <2>1, <2>4 DEF Writes
    <3>4. c \in Contents /\ (c[0] = Hole \/ \E o \in DOMAIN st.chunks : c[0] = st.chunks[o].of)
      <4> HIDE DEF st
      <4> QED
        BY <3>1, <3>2, AssembleForm
    <3>5. p.head = c[0] /\ p.head # Hole /\ p.head \in Datagrams
      BY <2>2, <3>4, TransportForm DEF Packets
    <3>6. Of[p.head].key = Of[d].key
      BY <3>2, <3>4, <3>5 DEF SeenAfter
    <3>7. ASSUME NEW h \in Datagrams, Pure(st, h) PROVE Whole(p)
      <4>1. c = [b \in 0 .. Size(h) - 1 |-> h]
        <5> HIDE DEF st
        <5> QED
          BY <3>1, <3>2, <3>7, PureAssembles
      <4> DEFINE r == [head |-> h, payload |-> [b \in 1 .. Size(h) - 1 |-> h]]
      <4>2. TransportPayload(c) = {r} /\ Whole(r)
        BY <4>1, WholeTransport
      <4> HIDE DEF r
      <4> QED
        BY <2>2, <4>2
    <3>8. CASE \A e \in Others(p.head) : ~(next'[i][e] > 1)
      <4>1. Pure(st, p.head)
        BY <3>5, <3>6, <3>8, WrittenSole
      <4> QED
        BY <1>3, <3>5, <3>7, <4>1
    <3>9. CASE \E e \in Others(p.head) : next'[i][e] > 1
      <4>1. CASE Pure(st, d)
        BY <1>3, <3>7, <4>1
      <4>2. CASE Excused(i, Of[d].key)'
        BY <1>3, <3>6, <3>9, <4>2 DEF Excused
      <4> QED
        BY <3>3, <4>1, <4>2
    <3> QED
      BY <3>8, <3>9
  <2> QED
    BY <2>3, <2>4
<1>4. ASSUME NEW j \in Interfaces, NEW q \in ToSet(buffer'[j]) PROVE Fine(j, q)
  <2>1. Delivered(i, Arrived(i, d, k))
    BY DEF Came, Framed
  <2>2. CASE q \in ToSet(buffer[j])
    BY <1>2, <2>2
  <2>3. CASE q \notin ToSet(buffer[j])
    <3>1. j = i /\ q.packet \in Arrived(i, d, k)
      BY <2>1, <2>3 DEF Delivered
    <3> QED
      BY <1>3, <3>1
  <2> QED
    BY <2>2, <2>3
<1> HIDE DEF Fine
<1>5. \A j \in Interfaces : \A q \in ToSet(buffer'[j]) : Fine(j, q)
  BY <1>4
<1> QED
  BY <1>5 DEF OnlyWhole, Fine

\* A datagram the kernel wants is one it can read.
LEMMA ClassifiedParses ==
    ASSUME NEW d \in Datagrams, KernelClassify[d]
    PROVE  KernelParses(d)
BY DEF KernelClassify

\* An arrival leaves the approvals those of datagrams on their way.
LEMMA ApprovalArrive ==
    ASSUME TypeInv, ApprovalInv, NEW i \in Interfaces, NEW d \in Datagrams, Arrive(i, d)
    PROVE  ApprovalInv'
<1> DEFINE k == next[i][d]
           wit(j, e, key) == Of[e].key = key /\ KernelClassify[e] /\ InFlight(j, e)
<1>1. /\ k \in 1 .. Frags(d) /\ Moved(i, d) /\ Came(i, d, k) /\ faulty' = faulty
      /\ Frags(d) \in Nat
  BY ArriveForm, FragmentForm
<1>2. /\ next'[i][d] = k + 1
      /\ \A j \in Interfaces, e \in Datagrams : <<j, e>> # <<i, d>> => next'[j][e] = next[j][e]
  BY <1>1 DEF Moved
<1>3. Filtered(d, k)
  BY <1>1 DEF Came, Framed
<1>4. InFlight(i, d) <=> k # 1
  BY <1>1 DEF InFlight
<1>5. k # Frags(d) => InFlight(i, d)'
  <2>1. k # Frags(d) => k + 1 \in 2 .. Frags(d)
    BY <1>1
  <2> QED
    BY <1>2, <2>1 DEF InFlight, Frags
<1> HIDE DEF k
<1> SUFFICES ASSUME NEW key \in approved', key \notin faulty
             PROVE  \E j \in Interfaces, e \in Datagrams :
                      Of[e].key = key /\ KernelClassify[e] /\ InFlight(j, e)'
  BY <1>1 DEF ApprovalInv
<1>6. ASSUME NEW j \in Interfaces, NEW e \in Datagrams, wit(j, e, key), <<j, e>> # <<i, d>>
      PROVE  Of[e].key = key /\ KernelClassify[e] /\ InFlight(j, e)'
  <2>1. next'[j][e] = next[j][e]
    BY <1>2, <1>6
  <2> QED
    BY <1>6, <2>1 DEF InFlight, Frags
<1>7. key \in approved => \E j \in Interfaces, e \in Datagrams : wit(j, e, key)
  BY DEF ApprovalInv
<1>8. CASE key # Of[d].key
  <2>1. key \in approved
    BY <1>3, <1>8 DEF Filtered, KernelInv, Keys
  <2>2. PICK j \in Interfaces, e \in Datagrams : wit(j, e, key)
    BY <1>7, <2>1
  <2>3. <<j, e>> # <<i, d>>
    BY <1>8, <2>2
  <2> QED
    BY <1>6, <2>2, <2>3
<1>9. CASE key = Of[d].key /\ key \in approved /\ ~(Passes(d, k) /\ k # 1)
  <2>1. PICK j \in Interfaces, e \in Datagrams : wit(j, e, key)
    BY <1>7, <1>9
  <2>2. CASE <<j, e>> # <<i, d>>
    BY <1>6, <2>1, <2>2
  <2>3. CASE <<j, e>> = <<i, d>>
    <3>1. j = i /\ e = d
      BY <2>3
    <3>2. KernelClassify[d] /\ k # 1
      BY <1>4, <2>1, <3>1
    <3>3. Passes(d, k)
      BY <1>9, <3>2, ClassifiedParses DEF Passes
    <3> QED
      BY <1>9, <3>2, <3>3
  <2> QED
    BY <2>2, <2>3
<1>10. CASE key = Of[d].key /\ Passes(d, k) /\ k # 1
  <2>1. k # Frags(d) /\ key \in approved
    BY <1>3, <1>10 DEF Filtered
  <2>2. PICK j \in Interfaces, e \in Datagrams : wit(j, e, key)
    BY <1>7, <2>1
  <2>3. CASE <<j, e>> # <<i, d>>
    BY <1>6, <2>2, <2>3
  <2>4. CASE <<j, e>> = <<i, d>>
    <3>1. j = i /\ e = d
      BY <2>4
    <3> QED
      BY <1>5, <2>1, <2>2, <3>1
  <2> QED
    BY <2>3, <2>4
<1>11. CASE key = Of[d].key /\ key \notin approved
  <2>1. approved' # approved
    BY <1>11
  <2>2. Passes(d, k) /\ k = 1 /\ Frags(d) # 1
    BY <1>1, <1>3, <2>1, <1>11 DEF Filtered
  <2>3. KernelClassify[d]
    BY <2>2 DEF Passes
  <2> QED
    BY <1>5, <1>11, <2>2, <2>3
<1> QED
  BY <1>8, <1>9, <1>10, <1>11

\* A repetition counts as a fault, and no other key gains an approval.
LEMMA ApprovalRepeat ==
    ASSUME TypeInv, ApprovalInv, NEW i \in Interfaces, NEW d \in Datagrams,
           NEW k \in 1 .. Frags(d), Repeat(i, d, k)
    PROVE  ApprovalInv'
<1>1. Came(i, d, k) /\ next' = next /\ faulty' = faulty \cup {Of[d].key}
  BY RepeatForm
<1>2. Filtered(d, k)
  BY <1>1 DEF Came, Framed
<1> SUFFICES ASSUME NEW key \in approved', key \notin faulty'
             PROVE  \E j \in Interfaces, e \in Datagrams :
                      Of[e].key = key /\ KernelClassify[e] /\ InFlight(j, e)'
  BY DEF ApprovalInv
<1>3. key # Of[d].key /\ key \notin faulty
  BY <1>1
<1>4. key \in approved
  BY <1>2, <1>3 DEF Filtered, KernelInv, Keys
<1>5. PICK j \in Interfaces, e \in Datagrams :
         Of[e].key = key /\ KernelClassify[e] /\ InFlight(j, e)
  BY <1>3, <1>4 DEF ApprovalInv
<1> QED
  BY <1>1, <1>5 DEF InFlight, Frags

\* An excuse does not pass.
LEMMA ExcusesStay ==
    ASSUME NEW i \in Interfaces, NEW d \in Datagrams, NEW k \in 1 .. Frags(d), Came(i, d, k),
           NEW j, NEW key, Excused(j, key)
    PROVE  Excused(j, key)'
BY DEF Came, Framed, Delivered, Filtered, Excused

\* Without an excuse, what an arrival is written to holds exactly the earlier
\* fragments of its datagram.
LEMMA CleanWritten ==
    ASSUME TypeInv, ApprovalInv, CleanInv, NEW i \in Interfaces, NEW d \in Datagrams,
           Arrive(i, d), Writes(d, next[i][d]), ~Excused(i, Of[d].key)'
    PROVE  /\ Upto(Written(i, d, next[i][d]), d, next[i][d])
           /\ FlowIsComplete(Written(i, d, next[i][d])) <=> next[i][d] = Frags(d)
<1> DEFINE k == next[i][d]
           key == Of[d].key
<1>1. /\ k \in 1 .. Frags(d) /\ Came(i, d, k) /\ key \in Keys /\ Frags(d) \in Nat
      /\ k = 1 => \A e \in Others(d) : ~InFlight(i, e)
      /\ faulty' = faulty
  BY ArriveForm, KeyOf, FragmentForm
<1>2. ~Excused(i, key)
  BY <1>1, ExcusesStay
<1>3. Clean(i, key)
  BY <1>1, <1>2 DEF CleanInv
<1>4. \A e \in Datagrams, j \in Interfaces : Of[e].key = key /\ InFlight(j, e) => e = d
  <2> SUFFICES ASSUME NEW e \in Datagrams, NEW j \in Interfaces, Of[e].key = key,
                      InFlight(j, e), e # d
               PROVE  FALSE
    OBVIOUS
  <2>1. e \in Others(d)
    BY DEF Others
  <2>2. key \in overlap'
    BY <1>1, <2>1 DEF Came, Framed
  <2> QED
    BY <2>2 DEF Excused
<1>5. IF k = 1 THEN FlowBefore(i, d) = NewFlow ELSE Upto(FlowBefore(i, d), d, k - 1)
  <2>1. CASE k = 1
    <3>1. ~InFlight(i, d)
      BY <2>1 DEF InFlight
    <3>2. key \notin DOMAIN flows[i]
      BY <1>3, <1>4, <3>1 DEF Clean
    <3> QED
      BY <2>1, <3>2 DEF FlowBefore
  <2>2. CASE k # 1
    <3>1. InFlight(i, d) /\ UserParses(d) /\ key \in approved
      BY <1>1, <2>2 DEF InFlight, Writes, Passes
    <3>2. key \notin faulty
      BY <1>2 DEF Excused
    <3>3. KernelClassify[d]
      BY <1>4, <3>1, <3>2 DEF ApprovalInv
    <3>4. key \in DOMAIN flows[i]
      BY <1>3, <3>1, <3>3 DEF Clean
    <3>5. PICK e \in Datagrams : /\ Of[e].key = key /\ InFlight(i, e)
                                 /\ Upto(flows[i][key], e, next[i][e] - 1)
      BY <1>3, <3>4 DEF Clean
    <3>6. e = d
      BY <1>4, <3>5
    <3> QED
      BY <2>2, <3>4, <3>5, <3>6 DEF FlowBefore
  <2> QED
    BY <2>1, <2>2
<1>6. FlowTyped(FlowBefore(i, d))
  BY <1>1, WrittenTyped DEF TypeInv
<1> QED
  BY <1>1, <1>5, <1>6, WriteNext DEF Written

\* A frame leaves the flows of other keys, and of other interfaces, clean.
LEMMA CleanElsewhere ==
    ASSUME TypeInv, CleanInv, NEW i \in Interfaces, NEW d \in Datagrams,
           NEW k \in 1 .. Frags(d), Came(i, d, k),
           NEW j \in Interfaces, NEW key \in Keys, ~(j = i /\ key = Of[d].key),
           ~Excused(j, key)'
    PROVE  Clean(j, key)'
<1>1. Clean(j, key)
  BY ExcusesStay DEF CleanInv
<1>2. \A e \in Datagrams : Of[e].key = key => next'[j][e] = next[j][e]
  BY DEF Came
<1>3. /\ key \in DOMAIN flows'[j] => key \in DOMAIN flows[j] /\ flows'[j][key] = flows[j][key]
      /\ key \in DOMAIN flows[j] => key \in DOMAIN flows'[j]
  <2>1. Stored(i, d, k)
    BY DEF Came, Framed
  <2>2. CASE j # i
    <3>1. flows'[j] = flows[j]
      BY <2>1, <2>2 DEF Stored
    <3> QED
      BY <3>1
  <2>3. CASE j = i
    <3>1. <<i, key>> \notin evicted'
      BY <2>3 DEF Excused
    <3> QED
      BY <2>1, <2>3, <3>1 DEF Stored
  <2> QED
    BY <2>2, <2>3
<1>4. ASSUME key \in DOMAIN flows'[j]
      PROVE  \E e \in Datagrams : /\ Of[e].key = key /\ InFlight(j, e)' /\ UserParses(e)
                                  /\ Upto(flows'[j][key], e, next'[j][e] - 1)
  <2>1. PICK e \in Datagrams : /\ Of[e].key = key /\ InFlight(j, e) /\ UserParses(e)
                               /\ Upto(flows[j][key], e, next[j][e] - 1)
    BY <1>1, <1>3, <1>4 DEF Clean
  <2>2. next'[j][e] = next[j][e]
    BY <1>2, <2>1
  <2>3. InFlight(j, e)'
    BY <2>1, <2>2 DEF InFlight, Frags
  <2> QED
    BY <1>3, <1>4, <2>1, <2>2, <2>3
<1>5. ASSUME NEW e \in Datagrams, Of[e].key = key, InFlight(j, e)', UserParses(e), KernelClassify[e]
      PROVE  key \in DOMAIN flows'[j]
  <2>1. InFlight(j, e)
    BY <1>2, <1>5 DEF InFlight, Frags
  <2> QED
    BY <1>1, <1>3, <1>5, <2>1 DEF Clean
<1> QED
  BY <1>4, <1>5 DEF Clean, UserParses, KernelClassify, KernelParses

\* An arrival leaves the flow of its own key clean.
LEMMA CleanHere ==
    ASSUME TypeInv, ApprovalInv, CleanInv, NEW i \in Interfaces, NEW d \in Datagrams,
           Arrive(i, d), ~Excused(i, Of[d].key)'
    PROVE  Clean(i, Of[d].key)'
<1> DEFINE k == next[i][d]
           key == Of[d].key
<1>1. /\ k \in 1 .. Frags(d) /\ Came(i, d, k) /\ Moved(i, d) /\ key \in Keys /\ Frags(d) \in Nat
      /\ k = 1 => \A e \in Others(d) : ~InFlight(i, e)
  BY ArriveForm, KeyOf, FragmentForm
<1>2. Clean(i, key)
  BY <1>1, ExcusesStay DEF CleanInv
<1>3. \A e \in Datagrams : Of[e].key = key /\ InFlight(i, e) => e = d
  <2> SUFFICES ASSUME NEW e \in Datagrams, Of[e].key = key, InFlight(i, e), e # d
               PROVE  FALSE
    OBVIOUS
  <2>1. e \in Others(d)
    BY DEF Others
  <2>2. key \in overlap'
    BY <1>1, <2>1 DEF Came, Framed
  <2> QED
    BY <2>2 DEF Excused
<1>4. ASSUME NEW e \in Datagrams, Of[e].key = key, InFlight(i, e)' PROVE e = d
  <2> SUFFICES ASSUME e # d PROVE FALSE
    OBVIOUS
  <2>1. next'[i][e] = next[i][e]
    BY <1>1 DEF Moved
  <2>2. InFlight(i, e)
    BY <1>4, <2>1 DEF InFlight, Frags
  <2> QED
    BY <1>3, <1>4, <2>2
<1>5. next'[i][d] = k + 1
  BY <1>1 DEF Moved
<1>6. InFlight(i, d)' <=> k # Frags(d)
  <2>1. k + 1 \in 2 .. Frags(d) <=> k # Frags(d)
    BY <1>1
  <2> QED
    BY <1>5, <2>1 DEF InFlight, Frags
<1>7. Stored(i, d, k)
  BY <1>1 DEF Came, Framed
<1>8. CASE Writes(d, k)
  <2>1. /\ Upto(Written(i, d, k), d, k)
        /\ FlowIsComplete(Written(i, d, k)) <=> k = Frags(d)
    BY <1>8, CleanWritten
  <2>2. /\ key \in DOMAIN flows'[i] <=> k # Frags(d)
        /\ key \in DOMAIN flows'[i] => flows'[i][key] = Written(i, d, k)
    BY <1>7, <1>8, <2>1 DEF Stored
  <2>3. ASSUME key \in DOMAIN flows'[i]
        PROVE  /\ Of[d].key = key /\ InFlight(i, d)' /\ UserParses(d)
               /\ Upto(flows'[i][key], d, next'[i][d] - 1)
    <3>1. next'[i][d] - 1 = k
      BY <1>1, <1>5
    <3> QED
      BY <1>6, <1>8, <2>1, <2>2, <2>3, <3>1 DEF Writes
  <2>4. ASSUME NEW e \in Datagrams, Of[e].key = key, InFlight(i, e)'
        PROVE  key \in DOMAIN flows'[i]
    <3>1. e = d
      BY <1>4, <2>4
    <3> QED
      BY <1>6, <2>2, <2>4, <3>1
  <2> QED
    BY <2>3, <2>4 DEF Clean
<1>9. CASE ~Writes(d, k)
  <2>1. flows'[i] = flows[i]
    BY <1>7, <1>9 DEF Stored
  <2>2. key \in DOMAIN flows[i] => InFlight(i, d) /\ UserParses(d)
    BY <1>2, <1>3 DEF Clean
  <2>3. InFlight(i, d) => k # 1 /\ HasFragment(d)
    BY <1>1 DEF InFlight, HasFragment
  <2>4. k # 1 => Passes(d, k)
    BY <1>1 DEF Came, Framed, Excused
  <2>5. key \notin DOMAIN flows[i]
    BY <1>9, <2>2, <2>3, <2>4 DEF Writes
  <2>6. ASSUME NEW e \in Datagrams, Of[e].key = key, InFlight(i, e)', UserParses(e),
               KernelClassify[e]
        PROVE  FALSE
    <3>1. e = d /\ k # Frags(d)
      BY <1>4, <1>6, <2>6
    <3>2. HasFragment(d)
      BY <1>1, <3>1 DEF HasFragment
    <3>3. Passes(d, k)
      BY <2>4, <2>6, <3>1 DEF Passes
    <3> QED
      BY <1>9, <2>6, <3>1, <3>2, <3>3 DEF Writes
  <2> QED
    BY <2>1, <2>5, <2>6 DEF Clean, UserParses, KernelClassify, KernelParses
<1> QED
  BY <1>8, <1>9

\* At first no flow and no packet is there.
LEMMA WholeStart == Init => WholeInv
<1> SUFFICES ASSUME Init PROVE WholeInv
  OBVIOUS
<1>1. TypeInv
  BY TypeStart
<1>2. /\ \A i \in Interfaces : flows[i] = <<>> /\ buffer[i] = <<>>
      /\ DOMAIN <<>> = {} /\ approved = {}
      /\ \A i \in Interfaces, d \in Datagrams : next[i][d] = 1
  BY DEF Init
<1>3. SeenInv /\ SoleInv
  BY <1>2 DEF SeenInv, SoleInv
<1>4. ApprovalInv
  BY <1>2 DEF ApprovalInv
<1>5. CleanInv
  <2>1. \A i \in Interfaces, d \in Datagrams : ~InFlight(i, d)
    BY <1>2 DEF InFlight
  <2> QED
    BY <1>2, <2>1 DEF CleanInv, Clean
<1>6. OnlyWhole
  <2>1. \A i \in Interfaces : ToSet(buffer[i]) = {}
    BY <1>2 DEF ToSet
  <2> QED
    BY <2>1 DEF OnlyWhole
<1> QED
  BY <1>1, <1>3, <1>4, <1>5, <1>6 DEF WholeInv

\* Every step keeps what leaves a reassembler whole.
LEMMA WholeStep == WholeInv /\ [Next]_vars => WholeInv'
<1> SUFFICES ASSUME WholeInv, [Next]_vars PROVE WholeInv'
  OBVIOUS
<1>0. TypeInv /\ SeenInv /\ SoleInv /\ ApprovalInv /\ CleanInv /\ OnlyWhole
  BY DEF WholeInv
<1>1. TypeInv'
  BY <1>0, TypeStep
<1>2. ASSUME NEW i \in Interfaces, NEW d \in Datagrams, Arrive(i, d) PROVE WholeInv'
  <2> DEFINE k == next[i][d]
  <2>1. k \in 1 .. Frags(d) /\ Came(i, d, k)
    BY <1>0, <1>2, ArriveForm
  <2>2. SeenInv' /\ SoleInv'
    BY <1>0, <2>1, SeenKept, SoleKept
  <2>3. ApprovalInv'
    BY <1>0, <1>2, ApprovalArrive
  <2>4. CleanInv'
    <3> SUFFICES ASSUME NEW j \in Interfaces, NEW key \in Keys, ~Excused(j, key)'
                 PROVE  Clean(j, key)'
      BY DEF CleanInv, Keys
    <3>1. CASE j = i /\ key = Of[d].key
      BY <1>0, <1>2, <3>1, CleanHere
    <3>2. CASE ~(j = i /\ key = Of[d].key)
      BY <1>0, <2>1, <3>2, CleanElsewhere
    <3> QED
      BY <3>1, <3>2
  <2>5. ASSUME Writes(d, k), ~Excused(i, Of[d].key)' PROVE Pure(Written(i, d, k), d)
    <3>1. Upto(Written(i, d, k), d, k)
      BY <1>0, <1>2, <2>5, CleanWritten
    <3> QED
      BY <3>1 DEF Upto
  <2>6. OnlyWhole'
    BY <1>0, <2>1, <2>5, WholeKept
  <2> QED
    BY <1>1, <2>2, <2>3, <2>4, <2>6 DEF WholeInv
<1>3. ASSUME NEW i \in Interfaces, NEW d \in Datagrams, NEW k \in 1 .. Frags(d), Repeat(i, d, k)
      PROVE  WholeInv'
  <2>1. Came(i, d, k) /\ faulty' = faulty \cup {Of[d].key}
    BY <1>0, <1>3, RepeatForm
  <2>2. SeenInv' /\ SoleInv'
    BY <1>0, <2>1, SeenKept, SoleKept
  <2>3. ApprovalInv'
    BY <1>0, <1>3, ApprovalRepeat
  <2>4. Excused(i, Of[d].key)'
    BY <2>1 DEF Excused
  <2>5. CleanInv'
    <3> SUFFICES ASSUME NEW j \in Interfaces, NEW key \in Keys, ~Excused(j, key)'
                 PROVE  Clean(j, key)'
      BY DEF CleanInv, Keys
    <3>1. ~(j = i /\ key = Of[d].key)
      BY <2>4
    <3> QED
      BY <1>0, <2>1, <3>1, CleanElsewhere
  <2>6. OnlyWhole'
    BY <1>0, <2>1, <2>4, WholeKept
  <2> QED
    BY <1>1, <2>2, <2>3, <2>5, <2>6 DEF WholeInv
<1>4. ASSUME NEW i \in Interfaces, NEW d \in Datagrams, Miss(i, d) PROVE WholeInv'
  <2>1. /\ next[i][d] <= Frags(d) /\ next' = [next EXCEPT ![i][d] = @ + 1]
        /\ faulty' = faulty \cup {Of[d].key}
        /\ approved' = approved /\ flows' = flows /\ buffer' = buffer /\ evicted' = evicted
        /\ starved' = starved /\ lruLost' = lruLost /\ overlap' = overlap
    BY <1>4 DEF Miss, kernelVars, userVars
  <2>2. Moved(i, d)
    BY <1>0, <2>1, MovedForm DEF TypeInv
  <2>3. /\ \A j \in Interfaces, e \in Datagrams : next[j][e] > 1 => next'[j][e] > 1
        /\ \A j \in Interfaces, e \in Datagrams : Of[e].key # Of[d].key => next'[j][e] = next[j][e]
    <3>1. \A j \in Interfaces, e \in Datagrams : next[j][e] \in Nat /\ next'[j][e] \in Nat
      BY <1>0, <2>2 DEF TypeInv, NextInv, Moved
    <3>2. ASSUME NEW j \in Interfaces, NEW e \in Datagrams, next[j][e] > 1 PROVE next'[j][e] > 1
      <4>1. CASE <<j, e>> = <<i, d>>
        <5>1. j = i /\ e = d
          BY <4>1
        <5> QED
          BY <2>2, <3>1, <3>2, <5>1 DEF Moved
      <4>2. CASE <<j, e>> # <<i, d>>
        BY <2>2, <3>2, <4>2 DEF Moved
      <4> QED
        BY <4>1, <4>2
    <3> QED
      BY <2>2, <3>2 DEF Moved
  <2>4. SeenInv'
    <3> SUFFICES ASSUME NEW j \in Interfaces, NEW key \in DOMAIN flows[j],
                        NEW o \in DOMAIN flows[j][key].chunks
                 PROVE  /\ Of[flows[j][key].chunks[o].of].key = key
                        /\ next'[j][flows[j][key].chunks[o].of] > 1
      BY <2>1 DEF SeenInv, FlowSeen
    <3>1. FlowTyped(flows[j][key])
      BY <1>0 DEF TypeInv, StoreInv, StoreExact
    <3>2. flows[j][key].chunks[o].of \in Datagrams
      BY <3>1 DEF FlowTyped
    <3> QED
      BY <1>0, <2>3, <3>2 DEF SeenInv, FlowSeen
  <2>5. SoleInv'
    <3>1. ASSUME NEW j \in Interfaces, NEW h \in Datagrams, Alone(j, h)' PROVE Alone(j, h)
      BY <2>3, <3>1 DEF Alone, Others
    <3> QED
      BY <1>0, <2>1, <3>1 DEF SoleInv, FlowSole
  <2>6. ApprovalInv'
    <3> SUFFICES ASSUME NEW key \in approved, key \notin faulty'
                 PROVE  \E j \in Interfaces, e \in Datagrams :
                          Of[e].key = key /\ KernelClassify[e] /\ InFlight(j, e)'
      BY <2>1 DEF ApprovalInv
    <3>1. PICK j \in Interfaces, e \in Datagrams :
             Of[e].key = key /\ KernelClassify[e] /\ InFlight(j, e)
      BY <1>0, <2>1 DEF ApprovalInv
    <3>2. next'[j][e] = next[j][e]
      BY <2>1, <2>3, <3>1
    <3> QED
      BY <3>1, <3>2 DEF InFlight, Frags
  <2>7. CleanInv'
    <3> SUFFICES ASSUME NEW j \in Interfaces, NEW key \in Keys, ~Excused(j, key)'
                 PROVE  Clean(j, key)'
      BY DEF CleanInv, Keys
    <3>1. key # Of[d].key /\ Clean(j, key)
      BY <1>0, <2>1 DEF Excused, CleanInv
    <3>2. \A e \in Datagrams : Of[e].key = key =>
             next'[j][e] = next[j][e] /\ (InFlight(j, e)' <=> InFlight(j, e))
      BY <2>3, <3>1 DEF InFlight, Frags
    <3>3. ASSUME key \in DOMAIN flows'[j]
          PROVE  \E e \in Datagrams : /\ Of[e].key = key /\ InFlight(j, e)' /\ UserParses(e)
                                      /\ Upto(flows'[j][key], e, next'[j][e] - 1)
      <4>1. PICK e \in Datagrams : /\ Of[e].key = key /\ InFlight(j, e) /\ UserParses(e)
                                   /\ Upto(flows[j][key], e, next[j][e] - 1)
        BY <2>1, <3>1, <3>3 DEF Clean
      <4> QED
        BY <2>1, <3>2, <4>1
    <3>4. ASSUME NEW e \in Datagrams, Of[e].key = key, InFlight(j, e)', UserParses(e),
                 KernelClassify[e]
          PROVE  key \in DOMAIN flows'[j]
      BY <2>1, <3>1, <3>2, <3>4 DEF Clean
    <3> QED
      BY <3>3, <3>4 DEF Clean, UserParses, KernelClassify, KernelParses
  <2>8. OnlyWhole'
    BY <1>0, <2>1, <2>3 DEF OnlyWhole, Others
  <2> QED
    BY <1>1, <2>4, <2>5, <2>6, <2>7, <2>8 DEF WholeInv
<1>5. ASSUME NEW i \in Interfaces, Pop(i) PROVE WholeInv'
  <2>1. /\ buffer' = [buffer EXCEPT ![i] = <<>>] /\ next' = next /\ faulty' = faulty
        /\ approved' = approved /\ flows' = flows /\ evicted' = evicted
        /\ starved' = starved /\ lruLost' = lruLost /\ overlap' = overlap
    BY <1>5 DEF Pop, kernelVars
  <2>2. \A j \in Interfaces : ToSet(buffer'[j]) \subseteq ToSet(buffer[j])
    <3>1. DOMAIN buffer = Interfaces
      BY <1>0 DEF TypeInv, BufferInv
    <3>2. buffer'[i] = <<>> /\ \A j \in Interfaces : j # i => buffer'[j] = buffer[j]
      BY <2>1, <3>1
    <3>3. ToSet(<<>>) = {}
      BY DEF ToSet
    <3> QED
      BY <3>2, <3>3
  <2>3. OnlyWhole'
    BY <1>0, <2>1, <2>2 DEF OnlyWhole
  <2>4. SeenInv' /\ SoleInv'
    BY <1>0, <2>1 DEF SeenInv, SoleInv, FlowSeen, FlowSole, Alone
  <2>5. ApprovalInv' /\ CleanInv'
    BY <1>0, <2>1 DEF ApprovalInv, CleanInv, Clean, Excused, InFlight
  <2> QED
    BY <1>1, <2>3, <2>4, <2>5 DEF WholeInv
<1>6. ASSUME UNCHANGED vars PROVE WholeInv'
  <2>1. /\ next' = next /\ faulty' = faulty /\ buffer' = buffer
        /\ approved' = approved /\ flows' = flows /\ evicted' = evicted
        /\ starved' = starved /\ lruLost' = lruLost /\ overlap' = overlap
    BY <1>6 DEF vars, kernelVars, userVars
  <2>2. OnlyWhole'
    BY <1>0, <2>1 DEF OnlyWhole
  <2>3. SeenInv' /\ SoleInv'
    BY <1>0, <2>1 DEF SeenInv, SoleInv, FlowSeen, FlowSole, Alone
  <2>4. ApprovalInv' /\ CleanInv'
    BY <1>0, <2>1 DEF ApprovalInv, CleanInv, Clean, Excused, InFlight
  <2> QED
    BY <1>1, <2>2, <2>3, <2>4 DEF WholeInv
<1> QED
  BY <1>2, <1>3, <1>4, <1>5, <1>6 DEF Next

\* The invariant holds of every behaviour.
LEMMA WholeHolds == Spec => []WholeInv
BY WholeStart, WholeStep, PTL DEF Spec

\* What the capture engine queues for the parsers is one datagram whole,
\* whatever was lost, repeated or late, unless another datagram used the same
\* identification and was left unfinished (IpFragmentReassembler::accept,
\* pump_from_batch, run).
THEOREM OnlyWholeDatagrams == Spec => []OnlyWhole
<1>1. WholeInv => OnlyWhole
  BY DEF WholeInv
<1> QED
  BY <1>1, WholeHolds, PTL

----------------------------------------------------------------------------
(* A wanted datagram reaches the parsers at least once.                    *)

\* The bounded scan of the kernel lets every wanted datagram pass: no read goes
\* past the first frame, and the scan meets the wanted DATA, or it ends before
\* it and is inconclusive.
LEMMA WantedPasses ==
    ASSUME NEW d \in Wanted
    PROVE  d \in Datagrams /\ KernelClassify[d] /\ KernelParses(d) /\ UserParses(d)
<1>1. d \in Datagrams /\ KernelParses(d) /\ UserParses(d)
  BY DEF Wanted
<1>2. CASE Of[d].zenohPort
  BY <1>1, <1>2 DEF KernelClassify
<1>3. CASE ~Of[d].zenohPort
  <2> DEFINE subs == Of[d].subs
             stops == {n \in DOMAIN subs : n <= ScanLimit /\ subs[n].kind # "other"}
             first == CHOOSE n \in stops : \A m \in stops : n <= m
             read == {n \in DOMAIN subs : n <= ScanLimit /\ \A m \in stops : n <= m}
             frame == Of[d].lens[1]
  <2>1. ~Of[d].tcp /\ Of[d].rtps /\ HeaderEnd < frame
    BY <1>3 DEF Wanted
  <2>2. PICK n \in DOMAIN subs : /\ subs[n].kind = "data"
                                 /\ subs[n].discovery \/ subs[n].gids \cap Available # {}
                                 /\ \A m \in 1 .. n - 1 : subs[m].kind = "other"
                                 /\ \A m \in 1 .. n : m <= ScanLimit => subs[m].at < frame
    BY <1>3 DEF Wanted
  <2>3. /\ Len(subs) \in Nat /\ DOMAIN subs = 1 .. Len(subs) /\ frame \in Nat
        /\ \A k \in DOMAIN subs : subs[k].at \in Nat
    BY <1>1, FragmentForm, OfAssumption
  <2>4. Classify(subs, frame) =
          IF frame <= HeaderEnd \/ \E k \in read : subs[k].at >= frame THEN "error"
                         ELSE IF stops = {} THEN BoundedScanEnd(subs)
                         ELSE IF subs[first].kind = "tail" THEN "no_data"
                         ELSE IF subs[first].discovery \/ subs[first].gids \cap Available # {}
                              THEN "pass" ELSE "drop"
    BY DEF Classify
  <2>5. stops \subseteq 1 .. Len(subs) /\ \A m \in stops : subs[m].kind # "other" /\ m <= ScanLimit
    BY <2>3
  <2>6. n <= ScanLimit => n \in stops
    BY <2>2
  <2>7. \A m \in stops : n <= m
    <3> SUFFICES ASSUME NEW m \in stops, ~(n <= m) PROVE FALSE
      OBVIOUS
    <3>1. m \in 1 .. Len(subs) /\ n \in 1 .. Len(subs)
      BY <2>3, <2>5
    <3>2. m \in 1 .. n - 1
      BY <2>3, <3>1
    <3> QED
      BY <2>2, <2>5, <3>2
  <2>a. ASSUME NEW k \in read PROVE k \in 1 .. n
    <3>1. k \in 1 .. Len(subs) /\ n \in 1 .. Len(subs) /\ k <= ScanLimit /\ ScanLimit = 4
      BY <2>3 DEF ScanLimit
    <3>2. n \in stops => k <= n
      OBVIOUS
    <3>3. k <= n
      BY <2>3, <2>6, <3>1, <3>2
    <3> QED
      BY <2>3, <3>1, <3>3
  <2>b. ~(frame <= HeaderEnd \/ \E k \in read : subs[k].at >= frame)
    <3>1. ~(frame <= HeaderEnd)
      BY <2>1, <2>3 DEF HeaderEnd
    <3>2. ASSUME NEW k \in read PROVE ~(subs[k].at >= frame)
      <4>1. subs[k].at < frame /\ subs[k].at \in Nat
        BY <2>2, <2>3, <2>a
      <4> QED
        BY <2>3, <4>1
    <3> QED
      BY <3>1, <3>2
  <2> HIDE DEF stops, read, frame, subs
  <2>8. CASE n <= ScanLimit
    <3>1. first \in stops /\ \A m \in stops : first <= m
      BY <2>6, <2>7, <2>8
    <3> HIDE DEF first
    <3>2. first = n
      <4>1. first \in 1 .. Len(subs) /\ n \in 1 .. Len(subs) /\ first <= n /\ n <= first
        BY <2>3, <2>5, <2>6, <2>7, <2>8, <3>1
      <4> QED
        BY <2>3, <4>1
    <3>3. stops # {}
      BY <2>6, <2>8
    <3>4. Classify(subs, frame) = "pass"
      BY <2>2, <2>4, <2>b, <3>2, <3>3
    <3> QED
      BY <1>1, <2>1, <3>4 DEF KernelClassify, subs, frame
  <2>9. CASE ~(n <= ScanLimit)
    <3>1. n \in 1 .. Len(subs) /\ ScanLimit = 4
      BY <2>3 DEF ScanLimit
    <3>2. stops = {}
      <4> SUFFICES ASSUME NEW m \in stops PROVE FALSE
        OBVIOUS
      <4>1. m \in 1 .. Len(subs) /\ m <= ScanLimit /\ n <= m
        BY <2>5, <2>7
      <4> QED
        BY <2>3, <2>9, <3>1, <4>1
    <3>3. Len(subs) > ScanLimit
      BY <2>3, <2>9, <3>1
    <3>4. Classify(subs, frame) = "inconclusive"
      BY <2>4, <2>b, <3>2, <3>3 DEF BoundedScanEnd
    <3> QED
      BY <1>1, <2>1, <3>4 DEF KernelClassify, subs, frame
  <2> QED
    BY <2>8, <2>9
<1> QED
  BY <1>1, <1>2, <1>3

\* A wanted datagram that is whole has a parser.
LEMMA WantedRoutes ==
    ASSUME NEW d \in Wanted, NEW p, p.head = d,
           p.payload = [b \in 1 .. Size(d) - 1 |-> d]
    PROVE  Route(p) # {}
<1>1. d \in Datagrams
  BY DEF Wanted
<1>2. CASE Of[d].zenohPort
  BY <1>2 DEF Route
<1>3. CASE ~Of[d].zenohPort
  <2>1. ~Of[d].tcp /\ Of[d].rtps
    BY <1>3 DEF Wanted
  <2>2. /\ 1 \in 1 .. Frags(d) /\ Frags(d) \in Nat \ {0}
        /\ Of[d].lens \in Seq(Nat \ {0}) /\ Of[d].lens # <<1>>
    BY <1>1, <2>1, FragmentForm, OfAssumption
  <2>3. /\ Offset[d][1] = 0 /\ Of[d].lens[1] \in Nat \ {0} /\ Size(d) \in Nat \ {0}
        /\ Offset[d][1 + 1] = Offset[d][1] + Of[d].lens[1]
        /\ Size(d) = Offset[d][Frags(d) + 1] /\ Offset[d][1 + 1] \in Nat \ {0}
        /\ 1 < Frags(d) => Offset[d][1 + 1] < Size(d)
    BY <1>1, <2>2, FragmentOf
  <2>4. Size(d) # 1
    <3>1. CASE 1 < Frags(d)
      BY <2>3, <3>1
    <3>2. CASE Frags(d) = 1
      <4>1. Of[d].lens[1] # 1
        <5> DEFINE L == Of[d].lens
        <5>1. L \in Seq(Nat \ {0}) /\ Len(L) = 1 /\ L # <<1>>
          BY <2>2, <3>2 DEF Frags
        <5> HIDE DEF L
        <5>2. L[1] # 1
          <6> SUFFICES ASSUME L[1] = 1 PROVE FALSE
            OBVIOUS
          <6>1. /\ <<1>> \in Seq(Nat \ {0}) /\ Len(<<1>>) = 1
                /\ \A k \in 1 .. Len(L) : L[k] = <<1>>[k]
            BY <5>1
          <6>2. L = <<1>>
            BY <5>1, <6>1, SeqEqual
          <6> QED
            BY <5>1, <6>2
        <5> QED
          BY <5>2 DEF L
      <4> QED
        BY <2>3, <3>2, <4>1
    <3> QED
      BY <2>2, <3>1, <3>2
  <2>5. 1 \in 1 .. Size(d) - 1
    BY <2>3, <2>4
  <2>6. 1 \in DOMAIN p.payload /\ p.payload[1] = d /\ d # Hole
    BY <1>1, <2>5, HoleAssumption
  <2> QED
    BY <2>1, <2>6 DEF Route
<1> QED
  BY <1>2, <1>3

\* Nothing has happened that may keep d from every interface; d has reached
\* the parsers, or their buffers.
Hoped(d) ==
  /\ Of[d].key \notin overlap \cup lruLost \cup faulty
  /\ \A i \in Interfaces :
       /\ <<i, Of[d].key>> \notin evicted
       /\ \A e \in Others(d) : next[i][e] > 1 => ~KernelClassify[e]
Got(d) == d \in out \cup UNION {WholeIn(i) : i \in Interfaces}

\* Until then no interface has seen its last fragment, and every interface
\* that saw the first holds an approval and all the fragments so far.
Underway(d) ==
  \A i \in Interfaces :
    /\ next[i][d] <= Frags(d)
    /\ next[i][d] > 1 => /\ Of[d].key \in approved /\ Of[d].key \in DOMAIN flows[i]
                         /\ Upto(flows[i][Of[d].key], d, next[i][d] - 1)
Fresh(d) == \A i \in Interfaces : Of[d].key \in DOMAIN flows[i] => next[i][d] > 1
CopyInv == \A d \in Wanted : Hoped(d) => Fresh(d) /\ (Got(d) \/ Underway(d))

\* A hope that is left was there before.
LEMMA HopesFade ==
    ASSUME NEW i \in Interfaces, NEW e \in Datagrams, NEW k \in 1 .. Frags(e), Came(i, e, k),
           NEW d \in Datagrams, Hoped(d)'
    PROVE  Hoped(d)
<1>1. /\ evicted \subseteq evicted' /\ faulty \subseteq faulty'
      /\ lruLost \subseteq lruLost' /\ overlap \subseteq overlap'
  BY DEF Came, Framed, Delivered, Filtered
<1>2. ASSUME NEW j \in Interfaces, NEW f \in Others(d), next[j][f] > 1 PROVE ~KernelClassify[f]
  <2>1. f \in Datagrams
    BY DEF Others
  <2>2. next[j][f] \in Nat /\ next'[j][f] \in Nat /\ next[j][f] <= next'[j][f]
    BY <2>1 DEF Came
  <2>3. next'[j][f] > 1
    BY <1>2, <2>2
  <2> QED
    BY <2>3 DEF Hoped, Others, KernelClassify, KernelParses
<1> QED
  BY <1>1, <1>2 DEF Hoped

\* What has been got stays got.
LEMMA GotStays ==
    ASSUME TypeInv, NEW i \in Interfaces, NEW e \in Datagrams, NEW k \in 1 .. Frags(e),
           Came(i, e, k), NEW d \in Datagrams, Hoped(d)', Got(d)
    PROVE  Got(d)'
<1>1. Delivered(i, Arrived(i, e, k)) /\ out' = out
  BY DEF Came, Framed
<1>2. CASE d \in out
  BY <1>1, <1>2 DEF Got
<1>3. CASE d \notin out
  <2>1. PICK j \in Interfaces : d \in WholeIn(j)
    BY <1>3 DEF Got
  <2>2. PICK q \in ToSet(buffer[j]) : Whole(q.packet) /\ q.packet.head = d
    BY <2>1 DEF WholeIn
  <2>3. q \in ToSet(buffer'[j])
    <3>1. CASE j = i
      <4>1. <<i, Of[d].key>> \notin evicted'
        BY DEF Hoped
      <4> QED
        BY <1>1, <2>2, <3>1, <4>1 DEF Delivered
    <3>2. CASE j # i
      BY <1>1, <3>2 DEF Delivered
    <3> QED
      BY <3>1, <3>2
  <2>4. d \in WholeIn(j)'
    BY <2>2, <2>3 DEF WholeIn
  <2> QED
    BY <2>4 DEF Got
<1> QED
  BY <1>2, <1>3

\* A frame of another key changes nothing for d.
LEMMA CopyElsewhere ==
    ASSUME TypeInv, NEW i \in Interfaces, NEW e \in Datagrams, NEW k \in 1 .. Frags(e),
           Came(i, e, k), NEW d \in Datagrams, Of[d].key # Of[e].key, Hoped(d)'
    PROVE  /\ Fresh(d) => Fresh(d)'
           /\ Underway(d) => Underway(d)'
<1> DEFINE key == Of[d].key
<1>1. key \in Keys /\ d # e
  BY KeyOf
<1>2. \A j \in Interfaces : next'[j][d] = next[j][d]
  BY <1>1 DEF Came
<1>3. key \in approved => key \in approved'
  BY <1>1 DEF Came, Framed, Filtered, Hoped
<1>4. ASSUME NEW j \in Interfaces
      PROVE  /\ key \in DOMAIN flows'[j] <=> key \in DOMAIN flows[j]
             /\ key \in DOMAIN flows'[j] => flows'[j][key] = flows[j][key]
  <2>1. Stored(i, e, k)
    BY DEF Came, Framed
  <2>2. CASE j # i
    <3>1. flows'[j] = flows[j]
      BY <2>1, <2>2 DEF Stored
    <3> QED
      BY <3>1
  <2>3. CASE j = i
    <3>1. <<i, key>> \notin evicted'
      BY DEF Hoped
    <3> QED
      BY <1>1, <2>1, <2>3, <3>1 DEF Stored
  <2> QED
    BY <2>2, <2>3
<1>5. Fresh(d) => Fresh(d)'
  BY <1>2, <1>4 DEF Fresh
<1>6. Underway(d) => Underway(d)'
  <2> SUFFICES ASSUME Underway(d), NEW j \in Interfaces
               PROVE  /\ next'[j][d] <= Frags(d)
                      /\ next'[j][d] > 1 => /\ key \in approved' /\ key \in DOMAIN flows'[j]
                                            /\ Upto(flows'[j][key], d, next'[j][d] - 1)
    BY DEF Underway, Frags
  <2> QED
    BY <1>2, <1>3, <1>4 DEF Underway
<1> QED
  BY <1>5, <1>6

\* A frame of another datagram of the key is refused as long as d is hoped
\* for: if it is its first because the kernel does not want it, and if not
\* because no datagram is on its way that could have left an approval.
LEMMA CopyOther ==
    ASSUME TypeInv, ApprovalInv, NEW i \in Interfaces, NEW e \in Datagrams, Arrive(i, e),
           NEW d \in Datagrams, e \in Others(d), Hoped(d)'
    PROVE  /\ Fresh(d) => Fresh(d)'
           /\ Underway(d) => Underway(d)'
<1> DEFINE k == next[i][e]
           key == Of[d].key
<1>1. k \in 1 .. Frags(e) /\ Came(i, e, k) /\ Moved(i, e)
  BY ArriveForm
<1>2. e # d /\ Of[e].key = key
  BY DEF Others
<1>3. Hoped(d)
  BY <1>1, HopesFade
<1>4. ~KernelClassify[e]
  <2>1. next'[i][e] > 1
    BY <1>1 DEF Came
  <2> QED
    BY <2>1 DEF Hoped, Others, KernelClassify, KernelParses
<1>5. ~Passes(e, k)
  <2>1. CASE k = 1
    BY <1>4, <2>1 DEF Passes
  <2>2. CASE k # 1
    <3> SUFFICES ASSUME key \in approved PROVE FALSE
      BY <1>2, <2>2 DEF Passes
    <3>1. key \notin faulty /\ key \notin overlap'
      BY <1>3 DEF Hoped
    <3>2. PICK j \in Interfaces, f \in Datagrams :
             Of[f].key = key /\ KernelClassify[f] /\ InFlight(j, f)
      BY <3>1 DEF ApprovalInv
    <3>3. f # e
      BY <1>4, <3>2
    <3>4. f \in Others(e)
      BY <1>2, <3>2, <3>3 DEF Others
    <3>5. key \in overlap'
      BY <1>1, <1>2, <3>2, <3>4 DEF Came, Framed
    <3> QED
      BY <3>1, <3>5
  <2> QED
    BY <2>1, <2>2
<1>6. approved' = approved /\ \A j \in Interfaces : flows'[j] = flows[j]
  <2>1. Stored(i, e, k) /\ Filtered(e, k) /\ ~Writes(e, k)
    BY <1>1, <1>5 DEF Came, Framed, Writes
  <2> QED
    BY <1>5, <2>1 DEF Stored, Filtered
<1>7. \A j \in Interfaces : next'[j][d] = next[j][d]
  BY <1>1, <1>2 DEF Moved
<1>8. Fresh(d) => Fresh(d)'
  BY <1>6, <1>7 DEF Fresh
<1>9. Underway(d) => Underway(d)'
  <2> SUFFICES ASSUME Underway(d), NEW j \in Interfaces
               PROVE  /\ next'[j][d] <= Frags(d)
                      /\ next'[j][d] > 1 => /\ key \in approved' /\ key \in DOMAIN flows'[j]
                                            /\ Upto(flows'[j][key], d, next'[j][d] - 1)
    BY DEF Underway, Frags
  <2> QED
    BY <1>6, <1>7 DEF Underway
<1> QED
  BY <1>8, <1>9

\* The packet of a datagram that is complete waits in a buffer.
LEMMA WholeWaits ==
    ASSUME NEW i \in Interfaces, NEW d \in Wanted, NEW k \in 1 .. Frags(d), Came(i, d, k),
           Passes(d, k), [b \in 0 .. Size(d) - 1 |-> d] \in Returned(i, d, k)
    PROVE  Got(d)'
<1> DEFINE c == [b \in 0 .. Size(d) - 1 |-> d]
           p == [head |-> d, payload |-> [b \in 1 .. Size(d) - 1 |-> d]]
<1>1. d \in Datagrams /\ UserParses(d)
  BY WantedPasses
<1>2. TransportPayload(c) = {p} /\ p.head = d /\ Whole(p)
  BY <1>1, WholeTransport
<1>3. p.payload = [b \in 1 .. Size(d) - 1 |-> d]
  OBVIOUS
<1> HIDE DEF p, c
<1>4. Route(p) # {}
  BY <1>2, <1>3, WantedRoutes
<1>5. p \in Arrived(i, d, k)
  BY <1>1, <1>2 DEF Arrived, c
<1>6. PICK q \in ToSet(buffer'[i]) : q.packet = p
  BY <1>4, <1>5 DEF Came, Framed, Delivered
<1>7. d \in WholeIn(i)'
  BY <1>2, <1>6 DEF WholeIn
<1> QED
  BY <1>7 DEF Got

\* A frame of d itself passes on every interface until one has them all.
LEMMA CopyHere ==
    ASSUME TypeInv, NEW i \in Interfaces, NEW d \in Wanted, Arrive(i, d),
           Fresh(d), Underway(d)
    PROVE  Got(d)' \/ Underway(d)'
<1> DEFINE k == next[i][d]
           key == Of[d].key
<1>0. d \in Datagrams /\ KernelClassify[d] /\ KernelParses(d) /\ UserParses(d)
  BY WantedPasses
<1>1. k \in 1 .. Frags(d) /\ Came(i, d, k) /\ Moved(i, d) /\ Frags(d) \in Nat
  BY <1>0, ArriveForm, FragmentForm
<1>2. k # 1 => /\ key \in approved /\ key \in DOMAIN flows[i]
               /\ Upto(flows[i][key], d, k - 1)
  BY <1>1 DEF Underway
<1>3. k = 1 => key \notin DOMAIN flows[i]
  BY DEF Fresh
<1>4. Passes(d, k)
  BY <1>0, <1>2 DEF Passes
<1>5. /\ next'[i][d] = k + 1
      /\ \A j \in Interfaces : j # i => next'[j][d] = next[j][d]
  BY <1>0, <1>1 DEF Moved
<1>6. Stored(i, d, k) /\ Filtered(d, k)
  BY <1>1 DEF Came, Framed
<1>7. CASE ~HasFragment(d)
  <2>1. [b \in 0 .. Size(d) - 1 |-> d] \in Returned(i, d, k)
    BY <1>7 DEF Returned
  <2> QED
    BY <1>1, <1>4, <2>1, WholeWaits
<1>8. CASE HasFragment(d)
  <2> DEFINE st == Written(i, d, k)
  <2>1. Writes(d, k)
    BY <1>0, <1>4, <1>8 DEF Writes
  <2>2. FlowTyped(FlowBefore(i, d)) /\ FlowTyped(st)
    BY <1>0, <1>1, WrittenTyped DEF TypeInv
  <2>3. IF k = 1 THEN FlowBefore(i, d) = NewFlow ELSE Upto(FlowBefore(i, d), d, k - 1)
    BY <1>2, <1>3 DEF FlowBefore
  <2>4. Upto(st, d, k) /\ (FlowIsComplete(st) <=> k = Frags(d))
    BY <1>0, <1>1, <2>2, <2>3, WriteNext DEF Written
  <2>5. CASE k = Frags(d)
    <3>1. Assemble(st) = [b \in 0 .. Size(d) - 1 |-> d]
      <4> HIDE DEF st
      <4> QED
        BY <1>0, <2>2, <2>4, <2>5, PureAssembles DEF Upto
    <3>2. [b \in 0 .. Size(d) - 1 |-> d] \in Returned(i, d, k)
      BY <1>8, <2>4, <2>5, <3>1 DEF Returned
    <3> QED
      BY <1>1, <1>4, <3>2, WholeWaits
  <2>6. CASE k # Frags(d)
    <3>1. key \in DOMAIN flows'[i] /\ flows'[i][key] = st
      BY <1>6, <2>1, <2>4, <2>6 DEF Stored
    <3>2. key \in approved'
      BY <1>1, <1>2, <1>4, <1>6, <2>6 DEF Filtered
    <3>3. k + 1 <= Frags(d) /\ (k + 1) - 1 = k
      BY <1>1, <2>6
    <3>4. ASSUME NEW j \in Interfaces
          PROVE  /\ next'[j][d] <= Frags(d)
                 /\ next'[j][d] > 1 => /\ key \in approved' /\ key \in DOMAIN flows'[j]
                                       /\ Upto(flows'[j][key], d, next'[j][d] - 1)
      <4>1. CASE j = i
        BY <1>5, <2>4, <3>1, <3>2, <3>3, <4>1
      <4>2. CASE j # i
        <5>1. flows'[j] = flows[j] /\ next'[j][d] = next[j][d]
          BY <1>5, <1>6, <4>2 DEF Stored
        <5> QED
          BY <3>2, <5>1 DEF Underway
      <4> QED
        BY <4>1, <4>2
    <3> QED
      BY <3>4 DEF Underway, Frags
  <2> QED
    BY <2>5, <2>6
<1> QED
  BY <1>7, <1>8

\* A frame of d leaves d's flows where a frame of d has come.
LEMMA FreshHere ==
    ASSUME NEW i \in Interfaces, NEW d \in Datagrams, NEW k \in 1 .. Frags(d),
           Came(i, d, k), Fresh(d)
    PROVE  Fresh(d)'
<1> SUFFICES ASSUME NEW j \in Interfaces, Of[d].key \in DOMAIN flows'[j]
             PROVE  next'[j][d] > 1
  BY DEF Fresh
<1>1. CASE j = i
  BY <1>1 DEF Came
<1>2. CASE j # i
  <2>1. flows'[j] = flows[j] /\ next'[j][d] = next[j][d]
    BY <1>2 DEF Came, Framed, Stored
  <2> QED
    BY <2>1 DEF Fresh
<1> QED
  BY <1>1, <1>2

\* Before the first frame nothing of any datagram has come.
LEMMA CopyStart == Init => CopyInv
<1> SUFFICES ASSUME Init, NEW d \in Wanted PROVE Fresh(d) /\ Underway(d)
  BY DEF CopyInv
<1>1. d \in Datagrams
  BY DEF Wanted
<1>2. Frags(d) \in Nat \ {0}
  BY <1>1, FragmentForm
<1>3. \A i \in Interfaces : DOMAIN flows[i] = {} /\ next[i][d] = 1
  <2>1. DOMAIN <<>> = {}
    OBVIOUS
  <2> QED
    BY <1>1, <2>1 DEF Init
<1>4. Fresh(d)
  BY <1>3 DEF Fresh
<1>5. Underway(d)
  BY <1>2, <1>3 DEF Underway
<1> QED
  BY <1>4, <1>5

\* Every step keeps what a wanted datagram is owed.
LEMMA CopyStep == WholeInv /\ CopyInv /\ [Next]_vars => CopyInv'
<1> SUFFICES ASSUME WholeInv, CopyInv, [Next]_vars PROVE CopyInv'
  OBVIOUS
<1>0. TypeInv /\ ApprovalInv
  BY DEF WholeInv
<1>1. SUFFICES ASSUME NEW d \in Wanted, Hoped(d)'
               PROVE  Fresh(d)' /\ (Got(d)' \/ Underway(d)')
  <2>1. CopyInv' <=> \A d \in Wanted : Hoped(d)' => Fresh(d)' /\ (Got(d)' \/ Underway(d)')
    BY DEF CopyInv, Wanted, KernelParses, UserParses
  <2> QED
    BY <2>1
<1>2. d \in Datagrams
  BY DEF Wanted
<1>3. ASSUME NEW i \in Interfaces, NEW e \in Datagrams, Arrive(i, e)
      PROVE  Fresh(d)' /\ (Got(d)' \/ Underway(d)')
  <2> DEFINE k == next[i][e]
  <2>1. k \in 1 .. Frags(e) /\ Came(i, e, k)
    BY <1>0, <1>3, ArriveForm
  <2>2. Hoped(d)
    BY <1>1, <1>2, <2>1, HopesFade
  <2>3. Fresh(d) /\ (Got(d) \/ Underway(d))
    BY <2>2 DEF CopyInv
  <2>4. Got(d) => Got(d)'
    BY <1>0, <1>1, <1>2, <2>1, GotStays
  <2>5. CASE e = d
    <3>1. Fresh(d)'
      BY <1>2, <2>1, <2>3, <2>5, FreshHere
    <3>2. Underway(d) => Got(d)' \/ Underway(d)'
      BY <1>0, <1>3, <2>3, <2>5, CopyHere
    <3> QED
      BY <2>3, <2>4, <3>1, <3>2
  <2>6. CASE e # d /\ Of[e].key = Of[d].key
    <3>1. e \in Others(d)
      BY <2>6 DEF Others
    <3>2. (Fresh(d) => Fresh(d)') /\ (Underway(d) => Underway(d)')
      BY <1>0, <1>1, <1>2, <1>3, <3>1, CopyOther
    <3> QED
      BY <2>3, <2>4, <3>2
  <2>7. CASE Of[e].key # Of[d].key
    <3>1. (Fresh(d) => Fresh(d)') /\ (Underway(d) => Underway(d)')
      BY <1>0, <1>1, <1>2, <2>1, <2>7, CopyElsewhere
    <3> QED
      BY <2>3, <2>4, <3>1
  <2> QED
    BY <2>5, <2>6, <2>7
<1>4. ASSUME NEW i \in Interfaces, NEW e \in Datagrams, NEW k \in 1 .. Frags(e), Repeat(i, e, k)
      PROVE  Fresh(d)' /\ (Got(d)' \/ Underway(d)')
  <2>1. Came(i, e, k) /\ Of[e].key \in faulty'
    BY <1>0, <1>4, RepeatForm
  <2>2. Of[d].key # Of[e].key
    BY <1>1, <2>1 DEF Hoped
  <2>3. Hoped(d)
    BY <1>1, <1>2, <2>1, HopesFade
  <2>4. Fresh(d) /\ (Got(d) \/ Underway(d))
    BY <2>3 DEF CopyInv
  <2>5. Got(d) => Got(d)'
    BY <1>0, <1>1, <1>2, <2>1, GotStays
  <2>6. (Fresh(d) => Fresh(d)') /\ (Underway(d) => Underway(d)')
    BY <1>0, <1>1, <1>2, <2>1, <2>2, CopyElsewhere
  <2> QED
    BY <2>4, <2>5, <2>6
<1>5. ASSUME NEW i \in Interfaces, NEW e \in Datagrams, Miss(i, e)
      PROVE  Fresh(d)' /\ (Got(d)' \/ Underway(d)')
  <2>1. /\ next[i][e] <= Frags(e) /\ next' = [next EXCEPT ![i][e] = @ + 1]
        /\ faulty' = faulty \cup {Of[e].key} /\ out' = out
        /\ approved' = approved /\ flows' = flows /\ buffer' = buffer /\ evicted' = evicted
        /\ lruLost' = lruLost /\ overlap' = overlap
    BY <1>5 DEF Miss, kernelVars, userVars
  <2>2. Moved(i, e)
    BY <1>0, <2>1, MovedForm DEF TypeInv
  <2>3. Of[d].key # Of[e].key
    BY <1>1, <2>1 DEF Hoped
  <2>4. \A j \in Interfaces, f \in Datagrams : Of[f].key = Of[d].key => next'[j][f] = next[j][f]
    BY <2>2, <2>3 DEF Moved
  <2>5. Hoped(d)
    <3>1. \A j \in Interfaces, f \in Others(d) : next[j][f] > 1 => ~KernelClassify[f]
      BY <1>1, <2>4 DEF Hoped, Others, KernelClassify, KernelParses
    <3> QED
      BY <1>1, <2>1, <3>1 DEF Hoped
  <2>6. Fresh(d) /\ (Got(d) \/ Underway(d))
    BY <2>5 DEF CopyInv
  <2>7. Fresh(d)'
    BY <1>2, <2>1, <2>4, <2>6 DEF Fresh
  <2>8. Got(d) => Got(d)'
    BY <2>1 DEF Got, WholeIn, Whole, Size
  <2>9. ASSUME Underway(d) PROVE Underway(d)'
    <3>1. \A j \in Interfaces : next'[j][d] = next[j][d]
      BY <1>2, <2>4
    <3>2. Underway(d)' = \A j \in Interfaces :
            /\ next'[j][d] <= Frags(d)
            /\ next'[j][d] > 1 => /\ Of[d].key \in approved' /\ Of[d].key \in DOMAIN flows'[j]
                                  /\ Upto(flows'[j][Of[d].key], d, next'[j][d] - 1)
      BY DEF Underway, Frags, Upto, Pure, Size
    <3> QED
      BY <2>1, <2>9, <3>1, <3>2 DEF Underway
  <2> QED
    BY <2>6, <2>7, <2>8, <2>9
<1>6. ASSUME NEW i \in Interfaces, Pop(i)
      PROVE  Fresh(d)' /\ (Got(d)' \/ Underway(d)')
  <2>1. /\ buffer' = [buffer EXCEPT ![i] = <<>>] /\ next' = next /\ faulty' = faulty
        /\ approved' = approved /\ flows' = flows /\ evicted' = evicted
        /\ lruLost' = lruLost /\ overlap' = overlap /\ out' = out \cup WholeIn(i)
    BY <1>6 DEF Pop, kernelVars
  <2>2. Hoped(d)
    BY <1>1, <2>1 DEF Hoped, Others, KernelClassify, KernelParses
  <2>3. Fresh(d) /\ (Got(d) \/ Underway(d))
    BY <2>2 DEF CopyInv
  <2>4. Fresh(d)'
    BY <2>1, <2>3 DEF Fresh
  <2>5. ASSUME Got(d) PROVE Got(d)'
    <3>1. CASE d \in out \cup WholeIn(i)
      BY <2>1, <3>1 DEF Got
    <3>2. CASE d \notin out \cup WholeIn(i)
      <4>1. PICK j \in Interfaces : d \in WholeIn(j)
        BY <2>5, <3>2 DEF Got
      <4>2. j # i
        BY <3>2, <4>1
      <4>3. buffer'[j] = buffer[j]
        BY <1>0, <2>1, <4>2 DEF TypeInv, BufferInv
      <4>4. d \in WholeIn(j)'
        BY <4>1, <4>3 DEF WholeIn
      <4> QED
        BY <4>4 DEF Got
    <3> QED
      BY <3>1, <3>2
  <2>6. Underway(d) => Underway(d)'
    BY <2>1 DEF Underway, Frags, Upto, Pure
  <2> QED
    BY <2>3, <2>4, <2>5, <2>6
<1>7. ASSUME UNCHANGED vars
      PROVE  Fresh(d)' /\ (Got(d)' \/ Underway(d)')
  <2>1. /\ next' = next /\ faulty' = faulty /\ buffer' = buffer /\ out' = out
        /\ approved' = approved /\ flows' = flows /\ evicted' = evicted
        /\ lruLost' = lruLost /\ overlap' = overlap
    BY <1>7 DEF vars, kernelVars, userVars
  <2>2. Hoped(d)
    BY <1>1, <2>1 DEF Hoped, Others, KernelClassify, KernelParses
  <2>3. Fresh(d) /\ (Got(d) \/ Underway(d))
    BY <2>2 DEF CopyInv
  <2>4. Fresh(d)'
    BY <2>1, <2>3 DEF Fresh
  <2>5. Got(d) => Got(d)'
    BY <2>1 DEF Got, WholeIn, Whole, Size
  <2>6. Underway(d) => Underway(d)'
    BY <2>1 DEF Underway, Frags, Upto, Pure
  <2> QED
    BY <2>3, <2>4, <2>5, <2>6
<1> QED
  BY <1>3, <1>4, <1>5, <1>6, <1>7 DEF Next

\* The invariant holds of every behaviour.
LEMMA CopyHolds == Spec => [](WholeInv /\ CopyInv)
<1>1. Init => CopyInv
  BY CopyStart
<1>2. WholeInv /\ CopyInv /\ [Next]_vars => CopyInv'
  BY CopyStep
<1> QED
  BY <1>1, <1>2, WholeStart, WholeStep, PTL DEF Spec

\* A wanted datagram whose frames all came in order reaches the parsers of at
\* least one interface, although the last fragment on any of them takes back
\* the one approval they share (frag_flow_forget in run).
THEOREM WantedGetThrough == Spec => []AtLeastOneCopy
<1>1. WholeInv /\ CopyInv => AtLeastOneCopy
  <2> SUFFICES ASSUME CopyInv, NEW d \in Wanted,
                      \A i \in Interfaces : next[i][d] > Frags(d),
                      Of[d].key \notin overlap \cup lruLost \cup faulty,
                      \A i \in Interfaces :
                        /\ <<i, Of[d].key>> \notin evicted
                        /\ \A e \in Others(d) : next[i][e] > 1 => ~KernelClassify[e],
                      TypeInv
               PROVE  Got(d)
    BY DEF AtLeastOneCopy, Got, WholeInv
  <2>1. d \in Datagrams
    BY DEF Wanted
  <2>2. Hoped(d)
    BY DEF Hoped
  <2>3. ASSUME Underway(d) PROVE FALSE
    <3>1. PICK i \in Interfaces : TRUE
      BY BoundAssumption
    <3>2. next[i][d] \in Nat /\ Frags(d) \in Nat
      BY <2>1, FragmentForm DEF TypeInv, NextInv
    <3>3. next[i][d] <= Frags(d) /\ next[i][d] > Frags(d)
      BY <2>3 DEF Underway
    <3> QED
      BY <3>2, <3>3
  <2> QED
    BY <2>2, <2>3 DEF CopyInv
<1> QED
  BY <1>1, CopyHolds, PTL

----------------------------------------------------------------------------
(* The discovery table.                                                     *)

\* The deadlines of participants and endpoints are a lease or the TTL away
\* from an observation.
LEMMA DeadlinesTyped ==
    /\ \A a, b \in Int : MaxOf(a, b) \in {a, b} /\ MaxOf(a, b) >= a /\ MaxOf(a, b) >= b
    /\ \A d \in Nat \cup {NoLease}, t \in Nat :
           /\ EndpointDeadline(d, t) \in Nat
           /\ EndpointDeadline(d, t) >= d
           /\ EndpointDeadline(d, t) \in {d, t + Ttl}
BY TableAssumptions DEF MaxOf, EndpointDeadline, NoLease

\* Observation times are times.
LEMMA ObservationsTyped ==
    ASSUME TableTypeOK, NEW t \in ObservationTimes PROVE t \in Nat
BY TableAssumptions DEF ObservationTimes, TableTypeOK, MaxOf

\* The operations keep the table, its indexes and its deadlines well-formed.
THEOREM TableTypeCorrect == TableSpec => []TableTypeOK
<1>1. TableInit => TableTypeOK
  BY TableAssumptions DEF TableInit, TableTypeOK, NoLease, Changes
<1>2. TableTypeOK /\ [TableNext]_tableVars => TableTypeOK'
  <2> SUFFICES ASSUME TableTypeOK, [TableNext]_tableVars PROVE TableTypeOK'
    OBVIOUS
  <2> USE TableAssumptions DEF TableTypeOK, Changes
  <2>1. ASSUME NEW p \in Participants, NEW lease \in Leases, NEW t \in ObservationTimes,
               ParticipantSample(p, lease, t)
        PROVE  TableTypeOK'
    <3> DEFINE deadline == IF lease = NoLease THEN NoLease ELSE t + lease
    <3>1. t \in Nat /\ deadline \in Nat \cup {NoLease}
      BY ObservationsTyped DEF NoLease
    <3>2. EndpointDeadline(deadline, t) \in Nat
      BY <3>1, DeadlinesTyped
    <3>3. \A e \in Endpoints : Hear(e, t) \in Nat
      BY <3>1 DEF Hear, MaxOf
    <3> HIDE DEF deadline
    <3>4. endpointEnd' \in [Endpoints -> Nat] /\ lastHeard' \in [Endpoints -> Nat]
      BY <2>1, <3>2, <3>3 DEF ParticipantSample, deadline
    <3> QED
      BY <2>1, <3>1, <3>4 DEF ParticipantSample, deadline
  <2>2. ASSUME NEW e \in Endpoints, NEW t \in ObservationTimes, NEW g \in EndpointGids[e],
               EndpointSample(e, g, t)
        PROVE  TableTypeOK'
    <3> DEFINE deadline == IF Owner[e] \in participants THEN leaseEnd[Owner[e]] ELSE NoLease
    <3>1. t \in Nat /\ deadline \in Nat \cup {NoLease} /\ g \in Gids
      BY ObservationsTyped
    <3>2. EndpointDeadline(deadline, t) \in Nat
      BY <3>1, DeadlinesTyped
    <3>3. Hear(e, t) \in Nat
      BY <3>1 DEF Hear, MaxOf
    <3> HIDE DEF deadline
    <3>4. endpointEnd' \in [Endpoints -> Nat] /\ lastHeard' \in [Endpoints -> Nat]
      BY <2>2, <3>2, <3>3 DEF EndpointSample, deadline
    <3> QED
      BY <2>2, <3>1, <3>4 DEF EndpointSample, partVars
  <2>3. CASE \E g \in Gids : DisposeEndpoint(g)
    BY <2>3 DEF DisposeEndpoint, EraseEndpoints, partVars
  <2>4. CASE \E g \in Gids : DisposeParticipant(g)
    BY <2>4 DEF DisposeParticipant, EraseParticipants, DropEndpoints, EraseEndpoints
  <2>5. CASE \E p \in Participants : RemoveParticipantById(p)
    BY <2>5 DEF RemoveParticipantById, DropParticipants, EraseParticipants,
                DropEndpoints, EraseEndpoints
  <2>6. CASE \E e \in Endpoints : RemoveEndpointById(e)
    BY <2>6 DEF RemoveEndpointById, DropEndpoints, EraseEndpoints, partVars
  <2>7. CASE ExpireStale
    BY <2>7 DEF ExpireStale, DropParticipants, EraseParticipants, DropEndpoints,
                EraseEndpoints
  <2>8. CASE Tick
    BY <2>8 DEF Tick, partVars, endVars
  <2>9. CASE UNCHANGED tableVars
    BY <2>9 DEF tableVars, partVars, endVars
  <2> QED
    BY <2>1, <2>2, <2>3, <2>4, <2>5, <2>6, <2>7, <2>8, <2>9 DEF TableNext
<1> QED
  BY <1>1, <1>2, PTL DEF TableSpec
----------------------------------------------------------------------------
(* The indexes.  IndexExact is inductive together with the fact that an    *)
(* entry carries one of its own GIDs, which no other entry can announce.   *)

OwnGids ==
    \A e \in Endpoints :
        endpointGid[e] \in IF e \in endpoints THEN EndpointGids[e] ELSE {None}

\* Every operation preserves the indexes.
LEMMA IndexStep == TableTypeOK /\ OwnGids /\ IndexExact /\ [TableNext]_tableVars => (OwnGids /\ IndexExact)'
<1> SUFFICES ASSUME TableTypeOK, OwnGids, IndexExact, [TableNext]_tableVars
             PROVE  OwnGids' /\ IndexExact'
  OBVIOUS
<1> USE TableAssumptions DEF TableTypeOK, OwnGids, IndexExact
<1>1. CASE \E p \in Participants, lease \in Leases, t \in ObservationTimes :
               ParticipantSample(p, lease, t)
  BY <1>1 DEF ParticipantSample
<1>2. ASSUME NEW e \in Endpoints, NEW t \in ObservationTimes, NEW g \in EndpointGids[e],
             EndpointSample(e, g, t)
      PROVE  OwnGids' /\ IndexExact'
  <2>1. g \in Gids /\ endpoints' = endpoints \cup {e}
        /\ endpointGid' = [endpointGid EXCEPT ![e] = g]
    BY <1>2 DEF EndpointSample
  <2>2. OwnGids'
    BY <2>1
  <2>3. ASSUME NEW h \in Gids, NEW d \in Endpoints
        PROVE  endpointIndex'[h] = d <=> d \in endpoints' /\ endpointGid'[d] = h
    <3>1. endpointIndex'[h] = IF h = g THEN e
                              ELSE IF h = endpointGid[e] THEN None ELSE endpointIndex[h]
      BY <1>2 DEF EndpointSample
    <3>2. CASE d = e
      BY <2>1, <3>1, <3>2
    <3>3. CASE d # e
      <4>1. d \in endpoints => endpointGid[d] # g
        BY <3>3
      <4>2. d \in endpoints => endpointGid[d] # endpointGid[e]
        BY <3>3
      <4> QED
        BY <2>1, <3>1, <3>3, <4>1, <4>2
    <3> QED
      BY <3>2, <3>3
  <2>4. UNCHANGED partVars
    BY <1>2 DEF EndpointSample
  <2> QED
    BY <2>2, <2>3, <2>4 DEF partVars
<1>3. CASE \E g \in Gids : DisposeEndpoint(g)
  BY <1>3 DEF DisposeEndpoint, EraseEndpoints, partVars
<1>4. CASE \E g \in Gids : DisposeParticipant(g)
  BY <1>4 DEF DisposeParticipant, EraseParticipants, DropEndpoints, EraseEndpoints
<1>5. CASE \E p \in Participants : RemoveParticipantById(p)
  BY <1>5 DEF RemoveParticipantById, DropParticipants, EraseParticipants,
              DropEndpoints, EraseEndpoints, EndpointsOf
<1>6. CASE \E e \in Endpoints : RemoveEndpointById(e)
  BY <1>6 DEF RemoveEndpointById, DropEndpoints, EraseEndpoints, partVars
<1>7. CASE ExpireStale
  BY <1>7 DEF ExpireStale, DropParticipants, EraseParticipants, DropEndpoints,
              EraseEndpoints
<1>8. CASE Tick
  BY <1>8 DEF Tick, partVars, endVars
<1>9. CASE UNCHANGED tableVars
  BY <1>9 DEF tableVars, partVars, endVars
<1> QED
  BY <1>1, <1>2, <1>3, <1>4, <1>5, <1>6, <1>7, <1>8, <1>9 DEF TableNext

\* The GID indexes name exactly the entries of the table.
THEOREM IndexIsExact == TableSpec => []IndexExact
<1>1. TableInit => OwnGids /\ IndexExact
  BY TableAssumptions DEF TableInit, OwnGids, IndexExact
<1> QED
  BY <1>1, TableTypeCorrect, IndexStep, PTL DEF TableSpec

----------------------------------------------------------------------------
(* Expiration.  EndpointOutlivesLease is inductive.  NoGhosts needs to     *)
(* know where each deadline came from: a lease or the TTL after a time at  *)
(* which the endpoint or its participant was heard.                        *)

DeadlineOrigin ==
    /\ \A e \in endpoints : \E l \in Leases \cup {Ttl} :
           l # NoLease /\ endpointEnd[e] <= lastHeard[e] + l
    /\ \A e \in Endpoints :
           Owner[e] \in participants /\ leaseEnd[Owner[e]] # NoLease =>
               \E l \in Leases : l # NoLease /\ leaseEnd[Owner[e]] <= lastHeard[e] + l

\* Every operation preserves the relations between deadlines.
LEMMA DeadlineStep ==
    TableTypeOK /\ EndpointOutlivesLease /\ DeadlineOrigin /\ [TableNext]_tableVars
        => (EndpointOutlivesLease /\ DeadlineOrigin)'
<1> SUFFICES ASSUME TableTypeOK, EndpointOutlivesLease, DeadlineOrigin, [TableNext]_tableVars
             PROVE  EndpointOutlivesLease' /\ DeadlineOrigin'
  OBVIOUS
<1> USE TableAssumptions DEF TableTypeOK
<1>1. ASSUME NEW p \in Participants, NEW lease \in Leases, NEW t \in ObservationTimes,
             ParticipantSample(p, lease, t)
      PROVE  EndpointOutlivesLease' /\ DeadlineOrigin'
  <2> DEFINE deadline == IF lease = NoLease THEN NoLease ELSE t + lease
  <2>1. t \in Nat /\ deadline \in Nat \cup {NoLease}
    BY ObservationsTyped DEF NoLease
  <2>2. /\ EndpointDeadline(deadline, t) \in Nat
        /\ EndpointDeadline(deadline, t) >= deadline
        /\ EndpointDeadline(deadline, t) \in {deadline, t + Ttl}
    BY <2>1, DeadlinesTyped
  <2>3. /\ endpoints' = endpoints /\ participants' = participants \cup {p}
        /\ leaseEnd' = [leaseEnd EXCEPT ![p] = deadline]
        /\ endpointEnd' = [e \in Endpoints |->
               IF e \in endpoints /\ Owner[e] = p THEN EndpointDeadline(deadline, t)
                                                  ELSE endpointEnd[e]]
    BY <1>1 DEF ParticipantSample, EndpointsOf
  <2>4. \A e \in Endpoints :
           /\ lastHeard'[e] \in Nat /\ lastHeard'[e] >= lastHeard[e]
           /\ Owner[e] = p => lastHeard'[e] >= t
    BY <1>1, <2>1 DEF ParticipantSample, Hear, MaxOf
  <2> HIDE DEF deadline
  <2>5. EndpointOutlivesLease'
    BY <2>1, <2>2, <2>3 DEF EndpointOutlivesLease, NoLease
  <2>6. ASSUME NEW e \in endpoints'
        PROVE  \E l \in Leases \cup {Ttl} :
                   l # NoLease /\ endpointEnd'[e] <= lastHeard'[e] + l
    <3>1. CASE Owner[e] = p /\ EndpointDeadline(deadline, t) = t + Ttl
      <4>1. Ttl # NoLease /\ endpointEnd'[e] <= lastHeard'[e] + Ttl
        BY <2>1, <2>3, <2>4, <2>6, <3>1 DEF NoLease
      <4> QED
        BY <4>1
    <3>2. CASE Owner[e] = p /\ EndpointDeadline(deadline, t) = deadline
      BY <2>1, <2>2, <2>3, <2>4, <3>2 DEF NoLease, deadline
    <3>3. CASE Owner[e] # p
      <4>1. PICK l \in Leases \cup {Ttl} :
                l # NoLease /\ endpointEnd[e] <= lastHeard[e] + l
        BY <2>3, <2>6 DEF DeadlineOrigin
      <4> QED
        BY <2>3, <2>4, <2>6, <3>3, <4>1 DEF NoLease
    <3> QED
      BY <2>2, <3>1, <3>2, <3>3
  <2>7. ASSUME NEW e \in Endpoints, Owner[e] \in participants', leaseEnd'[Owner[e]] # NoLease
        PROVE  \E l \in Leases : l # NoLease /\ leaseEnd'[Owner[e]] <= lastHeard'[e] + l
    <3>1. CASE Owner[e] = p
      BY <2>1, <2>3, <2>4, <2>7, <3>1 DEF NoLease, deadline
    <3>2. CASE Owner[e] # p
      <4>1. PICK l \in Leases : l # NoLease /\ leaseEnd[Owner[e]] <= lastHeard[e] + l
        BY <2>3, <2>7, <3>2 DEF DeadlineOrigin
      <4> QED
        BY <2>3, <2>4, <2>7, <3>2, <4>1 DEF NoLease
    <3> QED
      BY <3>1, <3>2
  <2> QED
    BY <2>5, <2>6, <2>7 DEF DeadlineOrigin
<1>2. ASSUME NEW e \in Endpoints, NEW t \in ObservationTimes, NEW g \in EndpointGids[e],
             EndpointSample(e, g, t)
      PROVE  EndpointOutlivesLease' /\ DeadlineOrigin'
  <2> DEFINE deadline == IF Owner[e] \in participants THEN leaseEnd[Owner[e]] ELSE NoLease
  <2>1. t \in Nat /\ deadline \in Nat \cup {NoLease}
    BY ObservationsTyped
  <2>2. /\ EndpointDeadline(deadline, t) \in Nat
        /\ EndpointDeadline(deadline, t) >= deadline
        /\ EndpointDeadline(deadline, t) \in {deadline, t + Ttl}
    BY <2>1, DeadlinesTyped
  <2>3. /\ endpoints' = endpoints \cup {e} /\ participants' = participants
        /\ leaseEnd' = leaseEnd
        /\ endpointEnd' = [endpointEnd EXCEPT ![e] = EndpointDeadline(deadline, t)]
    BY <1>2 DEF EndpointSample, partVars
  <2>4. \A d \in Endpoints :
           /\ lastHeard'[d] \in Nat /\ lastHeard'[d] >= lastHeard[d]
           /\ d = e => lastHeard'[d] >= t
    BY <1>2, <2>1 DEF EndpointSample, Hear, MaxOf
  <2>5. EndpointOutlivesLease'
    BY <2>1, <2>2, <2>3 DEF EndpointOutlivesLease
  <2>6. ASSUME NEW d \in Endpoints, Owner[d] \in participants', leaseEnd'[Owner[d]] # NoLease
        PROVE  \E l \in Leases : l # NoLease /\ leaseEnd'[Owner[d]] <= lastHeard'[d] + l
    <3>1. PICK l \in Leases : l # NoLease /\ leaseEnd[Owner[d]] <= lastHeard[d] + l
      BY <2>3, <2>6 DEF DeadlineOrigin
    <3> QED
      BY <2>3, <2>4, <2>6, <3>1 DEF NoLease
  <2>7. ASSUME NEW d \in endpoints'
        PROVE  \E l \in Leases \cup {Ttl} :
                   l # NoLease /\ endpointEnd'[d] <= lastHeard'[d] + l
    <3>1. CASE d = e /\ EndpointDeadline(deadline, t) = t + Ttl
      <4>1. Ttl # NoLease /\ endpointEnd'[d] <= lastHeard'[d] + Ttl
        BY <2>1, <2>3, <2>4, <3>1 DEF NoLease
      <4> QED
        BY <4>1
    <3>2. CASE d = e /\ EndpointDeadline(deadline, t) = deadline
      <4>1. Owner[e] \in participants /\ leaseEnd[Owner[e]] # NoLease
        BY <2>1, <2>2, <3>2 DEF NoLease
      <4> QED
        BY <2>3, <2>6, <3>2, <4>1
    <3>3. CASE d # e
      <4>1. PICK l \in Leases \cup {Ttl} :
                l # NoLease /\ endpointEnd[d] <= lastHeard[d] + l
        BY <2>3, <2>7, <3>3 DEF DeadlineOrigin
      <4> QED
        <5>1. endpointEnd'[d] = endpointEnd[d]
          BY <2>3, <3>3
        <5>2. lastHeard'[d] \in Nat /\ lastHeard'[d] >= lastHeard[d]
          BY <2>3, <2>4, <2>7, <3>3
        <5>3. l \in Nat /\ lastHeard[d] \in Nat /\ endpointEnd[d] \in Int
          BY <2>3, <2>7, <3>3, <4>1
        <5>4. endpointEnd'[d] <= lastHeard'[d] + l
          BY <4>1, <5>1, <5>2, <5>3
        <5> QED
          BY <4>1, <5>4
    <3> QED
      BY <2>2, <3>1, <3>2, <3>3
  <2> QED
    BY <2>5, <2>6, <2>7 DEF DeadlineOrigin
<1> USE DEF EndpointOutlivesLease, DeadlineOrigin
<1>3. CASE \E g \in Gids : DisposeEndpoint(g)
  BY <1>3 DEF DisposeEndpoint, EraseEndpoints, partVars
<1>4. CASE \E g \in Gids : DisposeParticipant(g)
  BY <1>4 DEF DisposeParticipant, EraseParticipants, DropEndpoints, EraseEndpoints
<1>5. CASE \E p \in Participants : RemoveParticipantById(p)
  BY <1>5 DEF RemoveParticipantById, DropParticipants, EraseParticipants,
              DropEndpoints, EraseEndpoints
<1>6. CASE \E e \in Endpoints : RemoveEndpointById(e)
  BY <1>6 DEF RemoveEndpointById, DropEndpoints, EraseEndpoints, partVars
<1>7. CASE ExpireStale
  BY <1>7 DEF ExpireStale, DropParticipants, EraseParticipants, DropEndpoints,
              EraseEndpoints
<1>8. CASE Tick
  BY <1>8 DEF Tick, partVars, endVars
<1>9. CASE UNCHANGED tableVars
  BY <1>9 DEF tableVars, partVars, endVars
<1> QED
  BY <1>1, <1>2, <1>3, <1>4, <1>5, <1>6, <1>7, <1>8, <1>9 DEF TableNext

\* The relations between the deadlines hold in every reachable state.
LEMMA DeadlineInvariant == TableSpec => [](TableTypeOK /\ EndpointOutlivesLease /\ DeadlineOrigin)
<1>1. TableInit => EndpointOutlivesLease /\ DeadlineOrigin
  BY DEF TableInit, EndpointOutlivesLease, DeadlineOrigin
<1> QED
  BY <1>1, TableTypeCorrect, DeadlineStep, PTL DEF TableSpec

\* Whatever the order and the delay of samples, an endpoint's deadline is
\* never before the lease of a participant that is in the table.
THEOREM LeaseIsOutlived == TableSpec => []EndpointOutlivesLease
BY DeadlineInvariant, PTL

\* An endpoint that nobody has announced for the longest lease and the TTL is
\* due for removal, in whatever order its announcements and disposals came.
THEOREM GhostsExpire == TableSpec => []NoGhosts
<1>1. TableTypeOK /\ EndpointOutlivesLease /\ DeadlineOrigin => NoGhosts
  <2> SUFFICES ASSUME TableTypeOK, DeadlineOrigin, NEW e \in endpoints,
                      \A l \in Leases \cup {Ttl} : lastHeard[e] + l <= now
               PROVE  IsExpired(endpointEnd[e])
    BY DEF NoGhosts
  <2>1. PICK l \in Leases \cup {Ttl} : l # NoLease /\ endpointEnd[e] <= lastHeard[e] + l
    BY DEF DeadlineOrigin
  <2> QED
    BY <2>1, TableAssumptions DEF IsExpired, TableTypeOK, NoLease
<1> QED
  BY <1>1, DeadlineInvariant, PTL

\* The sweep removes no endpoint of a participant that stays and has a lease.
THEOREM SweepIsSafe == TableSpec => SweepKeepsEndpoints
<1>1. TableTypeOK /\ EndpointOutlivesLease /\ [TableNext]_tableVars =>
        [ExpireStale =>
            \A e \in endpoints :
                /\ Owner[e] \in participants'
                /\ leaseEnd[Owner[e]] # NoLease
                => e \in endpoints']_tableVars
  BY TableAssumptions
     DEF TableTypeOK, EndpointOutlivesLease, ExpireStale, DropParticipants,
         EraseParticipants, DropEndpoints, EraseEndpoints, IsExpired, NoLease
<1> QED
  BY <1>1, DeadlineInvariant, PTL DEF TableSpec, SweepKeepsEndpoints

\* An operation that reports Updated or Noop leaves the set of endpoints alone.
THEOREM SilentChangesAreSilent == TableSpec => SilentChangeKeepsEndpoints
<1>1. TableTypeOK /\ [TableNext]_tableVars =>
        [change' \in {"Updated", "Noop"} => endpoints' = endpoints]_tableVars
  <2> SUFFICES ASSUME TableTypeOK, TableNext, change' \in {"Updated", "Noop"}, tableVars' # tableVars
               PROVE  endpoints' = endpoints
    OBVIOUS
  <2>1. CASE \E p \in Participants, lease \in Leases, t \in ObservationTimes :
                 ParticipantSample(p, lease, t)
    BY <2>1 DEF ParticipantSample
  <2>2. CASE \E e \in Endpoints, t \in ObservationTimes :
                 \E g \in EndpointGids[e] : EndpointSample(e, g, t)
    BY <2>2 DEF EndpointSample
  <2>3. CASE \E g \in Gids : DisposeEndpoint(g)
    BY <2>3 DEF DisposeEndpoint, EraseEndpoints
  <2>4. CASE \E g \in Gids : DisposeParticipant(g)
    BY <2>4 DEF DisposeParticipant, DropEndpoints, EraseEndpoints
  <2>5. CASE \E p \in Participants : RemoveParticipantById(p)
    BY <2>5 DEF RemoveParticipantById
  <2>6. CASE \E e \in Endpoints : RemoveEndpointById(e)
    BY <2>6 DEF RemoveEndpointById
  <2>7. CASE ExpireStale
    BY <2>7 DEF ExpireStale
  <2>8. CASE Tick
    BY <2>8 DEF Tick, endVars
  <2> QED
    BY <2>1, <2>2, <2>3, <2>4, <2>5, <2>6, <2>7, <2>8 DEF TableNext
<1> QED
  BY <1>1, TableTypeCorrect, PTL DEF TableSpec, SilentChangeKeepsEndpoints
\* Entries live as long as the last sample says, whatever the order and delay
\* of samples, and endpoints no shorter than their participant's lease.
THEOREM DeadlinesAreRight == TableSpec => []DeadlinesRight
BY GhostsExpire, LeaseIsOutlived, PTL DEF DeadlinesRight

\* Neither a sweep nor a step that reports no change loses an endpoint that
\* the runtime still counts on.
THEOREM EndpointsStay == TableSpec => EndpointsAreKept
BY SweepIsSafe, SilentChangesAreSilent, PTL DEF EndpointsAreKept

----------------------------------------------------------------------------
(* The zenoh transport.                                                    *)

\* Without takes some members out of a queue and leaves the others in order.
LEMMA WithoutForm ==
    ASSUME NEW S, NEW q \in Seq(S), NEW L, QueueExact(q, L), NEW K
    PROVE  Without(q, K) \in Seq(S) /\ QueueExact(Without(q, K), L \ K)
<1> DEFINE Is(g) == g = [n \in 0 .. Len(q) |->
                           IF n = 0 THEN <<>>
                           ELSE IF q[n] \in K THEN g[n - 1] ELSE Append(g[n - 1], q[n])]
           u == CHOOSE g : Is(g)
           N == Len(q)
           H == [x \in (1 .. N) \X Seq(S) |->
                   IF q[x[1]] \in K THEN x[2] ELSE Append(x[2], q[x[1]])]
<1>1. Without(q, K) = u[Len(q)]
  BY DEF Without
<1>2. N \in Nat /\ \A n \in 1 .. N : q[n] \in S
  BY LenProperties
<1>3. /\ H \in [(1 .. N) \X Seq(S) -> Seq(S)]
      /\ \A n \in 1 .. N, s \in Seq(S) :
            H[<<n, s>>] = IF q[n] \in K THEN s ELSE Append(s, q[n])
  BY <1>2, AppendProperties
<1> HIDE DEF H
<1>4. PICK f \in [0 .. N -> Seq(S)] : f[0] = <<>> /\ \A n \in 1 .. N : f[n] = H[<<n, f[n - 1]>>]
  <2>1. H \in BoundedTurns(Seq(S), N) /\ <<>> \in Seq(S)
    BY <1>3 DEF BoundedTurns
  <2>2. BoundedIterations(Seq(S), <<>>, N, H) # {}
    BY <1>2, <2>1, BoundedRecursion
  <2> QED
    BY <2>2 DEF BoundedIterations
<1>5. ASSUME NEW n \in 1 .. N
      PROVE  f[n] = IF q[n] \in K THEN f[n - 1] ELSE Append(f[n - 1], q[n])
  <2>1. n - 1 \in 0 .. N
    BY <1>2
  <2> QED
    BY <1>3, <1>4, <2>1
<1>6. Is(f)
  <2>1. ASSUME NEW n \in 0 .. N
        PROVE  f[n] = IF n = 0 THEN <<>>
                      ELSE IF q[n] \in K THEN f[n - 1] ELSE Append(f[n - 1], q[n])
    <3>1. n # 0 => n \in 1 .. N
      OBVIOUS
    <3> QED
      BY <1>4, <1>5, <3>1
  <2> QED
    BY <1>4, <2>1
<1>7. Is(u)
  BY <1>6
<1> HIDE DEF u
<1>8. /\ u[0] = <<>>
      /\ \A n \in 1 .. N : u[n] = IF q[n] \in K THEN u[n - 1] ELSE Append(u[n - 1], q[n])
  <2>1. ASSUME NEW n \in 0 .. N
        PROVE  u[n] = IF n = 0 THEN <<>>
                      ELSE IF q[n] \in K THEN u[n - 1] ELSE Append(u[n - 1], q[n])
    BY <1>7, Zenon
  <2>2. 0 \in 0 .. N /\ \A n \in 1 .. N : n \in 0 .. N /\ n # 0
    BY <1>2
  <2> HIDE DEF N
  <2> QED
    BY <2>1, <2>2
<1> HIDE DEF Is
<1>9. 0 .. N \subseteq {n \in 0 .. N : /\ u[n] \in Seq(S)
                                      /\ QueueExact(u[n], {q[i] : i \in 1 .. n} \ K)}
  <2> DEFINE T == {n \in 0 .. N : /\ u[n] \in Seq(S)
                                  /\ QueueExact(u[n], {q[i] : i \in 1 .. n} \ K)}
  <2>1. 0 \in T
    <3>1. {q[i] : i \in 1 .. 0} \ K = {}
      OBVIOUS
    <3>2. u[0] \in Seq(S) /\ QueueExact(u[0], {q[i] : i \in 1 .. 0} \ K)
      BY <1>8, <3>1, QueueEmpty
    <3>3. 0 \in 0 .. N
      BY <1>2
    <3> QED
      BY <3>2, <3>3
  <2>2. ASSUME NEW n \in 0 .. N, n < N, n \in T PROVE n + 1 \in T
    <3>1. n + 1 \in 1 .. N /\ n + 1 \in 0 .. N /\ (n + 1) - 1 = n
      BY <1>2, <2>2
    <3>2. u[n + 1] = IF q[n + 1] \in K THEN u[n] ELSE Append(u[n], q[n + 1])
      BY <1>8, <3>1
    <3> DEFINE D == {q[i] : i \in 1 .. n} \ K
               E == {q[i] : i \in 1 .. n + 1} \ K
               k == q[n + 1]
    <3>3. 1 .. n + 1 = (1 .. n) \cup {n + 1}
      BY <2>2
    <3>4. E = IF k \in K THEN D ELSE D \cup {k}
      BY <3>3
    <3>5. k \notin D
      <4>1. ASSUME NEW i \in 1 .. n, q[i] = q[n + 1] PROVE FALSE
        <5>1. i \in 1 .. Len(q) /\ n + 1 \in 1 .. Len(q) /\ i # n + 1
          BY <1>2, <2>2, <3>1
        <5> QED
          BY <4>1, <5>1, QueueForm
      <4> QED
        BY <4>1
    <3>6. k \in S /\ u[n] \in Seq(S) /\ QueueExact(u[n], D)
      BY <1>2, <2>2, <3>1
    <3> HIDE DEF D, E, k
    <3>7. Append(u[n], k) \in Seq(S) /\ QueueExact(Append(u[n], k), D \cup {k})
      BY <3>5, <3>6, QueueAppend
    <3>8. u[n + 1] \in Seq(S) /\ QueueExact(u[n + 1], E)
      BY <3>2, <3>4, <3>6, <3>7 DEF k
    <3> QED
      BY <3>1, <3>8 DEF E
  <2> HIDE DEF T
  <2>3. 0 .. N \subseteq T
    BY <1>2, <2>1, <2>2, BoundedInduction
  <2> QED
    BY <2>3 DEF T
<1>10. {q[i] : i \in 1 .. N} = L
  <2>1. /\ \A i \in 1 .. N : q[i] \in L
        /\ \A k \in L : \E i \in 1 .. N : q[i] = k
    BY QueueForm
  <2> HIDE DEF N
  <2> QED
    BY <2>1
<1>11. N \in 0 .. N
  BY <1>2
<1> QED
  BY <1>1, <1>9, <1>10, <1>11

----------------------------------------------------------------------------
(* Tables.                                                                 *)

\* A table of entries from X under keys from K.
Tables(K, X) == [of : UNION {[D -> X] : D \in SUBSET K}, order : Seq(K)]
TableExact(T, K, X) == T \in Tables(K, X) /\ TableBounded(T)

\* What is known of a table in order.
LEMMA TableForm ==
    ASSUME NEW K, NEW X, NEW T, TableExact(T, K, X)
    PROVE  /\ T = [of |-> T.of, order |-> T.order]
           /\ DOMAIN T.of \subseteq K /\ T.of \in [DOMAIN T.of -> X]
           /\ \A k \in DOMAIN T.of : T.of[k] \in X
           /\ T.order \in Seq(K) /\ QueueExact(T.order, DOMAIN T.of)
           /\ IsFiniteSet(DOMAIN T.of) /\ Cardinality(DOMAIN T.of) \in Nat
           /\ Cardinality(DOMAIN T.of) <= Capacity
<1>1. T \in Tables(K, X) /\ QueueExact(T.order, DOMAIN T.of)
      /\ Cardinality(DOMAIN T.of) <= Capacity
  BY DEF TableExact, TableBounded
<1>2. PICK D \in SUBSET K : T.of \in [D -> X]
  BY <1>1 DEF Tables
<1>3. DOMAIN T.of = D
  BY <1>2
<1>4. T = [of |-> T.of, order |-> T.order] /\ T.order \in Seq(K)
  BY <1>1 DEF Tables
<1>5. IsFiniteSet(DOMAIN T.of)
  BY <1>1, <1>4, QueueFinite
<1>6. Cardinality(DOMAIN T.of) \in Nat
  BY <1>5, FS_CardinalityType
<1> QED
  BY <1>1, <1>2, <1>3, <1>4, <1>5, <1>6

\* A table put together from its parts.
LEMMA IsTable ==
    ASSUME NEW K, NEW X, NEW D \in SUBSET K, NEW g \in [D -> X], NEW q \in Seq(K),
           QueueExact(q, D), Cardinality(D) <= Capacity
    PROVE  TableExact([of |-> g, order |-> q], K, X)
<1> DEFINE T == [of |-> g, order |-> q]
<1>1. T.of = g /\ T.order = q /\ DOMAIN g = D
  OBVIOUS
<1>2. T \in Tables(K, X)
  BY DEF Tables
<1> HIDE DEF T
<1>3. TableBounded(T)
  BY <1>1 DEF TableBounded
<1>4. TableExact(T, K, X)
  BY <1>2, <1>3 DEF TableExact
<1> QED
  BY <1>4 DEF T

\* A table does not change its kind when entries are taken out.
LEMMA TakeOutKeeps ==
    ASSUME NEW K, NEW X, NEW T, TableExact(T, K, X), NEW D, Capacity \in Nat
    PROVE  LET U == TakeOut(T, D) IN
           /\ TableExact(U, K, X) /\ DOMAIN U.of = DOMAIN T.of \ D
           /\ \A k \in DOMAIN U.of : U.of[k] = T.of[k]
<1> DEFINE E == DOMAIN T.of \ D
           g == [j \in E |-> T.of[j]]
           q == Without(T.order, D)
<1>1. /\ DOMAIN T.of \subseteq K /\ \A k \in DOMAIN T.of : T.of[k] \in X
      /\ T.order \in Seq(K) /\ QueueExact(T.order, DOMAIN T.of)
      /\ IsFiniteSet(DOMAIN T.of) /\ Cardinality(DOMAIN T.of) \in Nat
      /\ Cardinality(DOMAIN T.of) <= Capacity
  BY TableForm
<1>2. q \in Seq(K) /\ QueueExact(q, E)
  BY <1>1, WithoutForm
<1>3. g \in [E -> X] /\ E \in SUBSET K
  BY <1>1
<1>4. Cardinality(E) <= Capacity
  <2>1. IsFiniteSet(E) /\ Cardinality(E) <= Cardinality(DOMAIN T.of)
    BY <1>1, FS_Subset
  <2>2. Cardinality(E) \in Nat
    BY <2>1, FS_CardinalityType
  <2> QED
    BY <1>1, <2>1, <2>2
<1>5. TakeOut(T, D) = [of |-> g, order |-> q]
  BY DEF TakeOut
<1>6. \A k \in E : g[k] = T.of[k]
  OBVIOUS
<1>7. DOMAIN g = E
  OBVIOUS
<1> HIDE DEF g, q, E
<1>8. TableExact(TakeOut(T, D), K, X)
  BY <1>2, <1>3, <1>4, <1>5, IsTable
<1>9. TakeOut(T, D).of = g
  BY <1>5
<1> QED
  BY <1>6, <1>7, <1>8, <1>9 DEF E

\* Nor when an entry is put in for which there is room.
LEMMA PutKeeps ==
    ASSUME NEW K, NEW X, NEW T, TableExact(T, K, X), NEW k \in K, NEW x \in X, Capacity \in Nat,
           k \in DOMAIN T.of \/ Cardinality(DOMAIN T.of) < Capacity
    PROVE  LET U == Put(T, k, x) IN
           /\ TableExact(U, K, X) /\ DOMAIN U.of = DOMAIN T.of \cup {k} /\ U.of[k] = x
           /\ \A j \in DOMAIN T.of : j # k => U.of[j] = T.of[j]
<1> DEFINE E == DOMAIN T.of \cup {k}
           g == [j \in E |-> IF j = k THEN x ELSE T.of[j]]
           q == Append(Without(T.order, {k}), k)
<1>1. /\ DOMAIN T.of \subseteq K /\ \A j \in DOMAIN T.of : T.of[j] \in X
      /\ T.order \in Seq(K) /\ QueueExact(T.order, DOMAIN T.of)
      /\ IsFiniteSet(DOMAIN T.of) /\ Cardinality(DOMAIN T.of) \in Nat
      /\ Cardinality(DOMAIN T.of) <= Capacity
  BY TableForm
<1>2. q \in Seq(K) /\ QueueExact(q, E)
  <2>1. /\ Without(T.order, {k}) \in Seq(K)
        /\ QueueExact(Without(T.order, {k}), DOMAIN T.of \ {k})
    BY <1>1, WithoutForm
  <2>2. k \notin DOMAIN T.of \ {k} /\ (DOMAIN T.of \ {k}) \cup {k} = E
    OBVIOUS
  <2>3. q \in Seq(K) /\ QueueExact(q, (DOMAIN T.of \ {k}) \cup {k})
    BY <2>1, <2>2, QueueAppend
  <2> QED
    BY <2>2, <2>3
<1>3. g \in [E -> X] /\ E \in SUBSET K
  BY <1>1
<1>4. Cardinality(E) <= Capacity
  <2>1. Cardinality(E) = IF k \in DOMAIN T.of THEN Cardinality(DOMAIN T.of)
                         ELSE Cardinality(DOMAIN T.of) + 1
    BY <1>1, FS_AddElement
  <2> QED
    BY <1>1, <2>1
<1>5. Put(T, k, x) = [of |-> g, order |-> q]
  BY DEF Put
<1>6. g[k] = x /\ \A j \in DOMAIN T.of : j # k => g[j] = T.of[j]
  OBVIOUS
<1>7. DOMAIN g = E
  OBVIOUS
<1> HIDE DEF g, q, E
<1>8. TableExact(Put(T, k, x), K, X)
  BY <1>2, <1>3, <1>4, <1>5, IsTable
<1>9. Put(T, k, x).of = g
  BY <1>5
<1> QED
  BY <1>6, <1>7, <1>8, <1>9 DEF E

\* The entry seen longest ago goes only for a new one, which then has room.
LEMMA OldestMakesRoom ==
    ASSUME NEW K, NEW X, NEW T, TableExact(T, K, X), NEW k, Capacity \in Nat \ {0}
    PROVE  LET U == TakeOut(T, Oldest(T, k)) IN
           /\ k \notin Oldest(T, k) /\ (k \in DOMAIN T.of => Oldest(T, k) = {})
           /\ k \in DOMAIN U.of \/ Cardinality(DOMAIN U.of) < Capacity
<1> DEFINE U == TakeOut(T, Oldest(T, k))
<1>1. /\ T.order \in Seq(K) /\ QueueExact(T.order, DOMAIN T.of)
      /\ IsFiniteSet(DOMAIN T.of) /\ Cardinality(DOMAIN T.of) \in Nat
      /\ Cardinality(DOMAIN T.of) <= Capacity
  BY TableForm
<1>2. DOMAIN U.of = DOMAIN T.of \ Oldest(T, k)
  BY TakeOutKeeps
<1> HIDE DEF U
<1>3. CASE k \in DOMAIN T.of
  BY <1>2, <1>3 DEF Oldest, U
<1>4. CASE k \notin DOMAIN T.of /\ Cardinality(DOMAIN T.of) < Capacity
  <2>1. Oldest(T, k) = {}
    BY <1>1, <1>4 DEF Oldest
  <2>2. DOMAIN U.of = DOMAIN T.of
    BY <1>2, <2>1
  <2> QED
    BY <1>4, <2>1, <2>2 DEF U
<1>5. CASE k \notin DOMAIN T.of /\ ~(Cardinality(DOMAIN T.of) < Capacity)
  <2> DEFINE h == Head(T.order)
  <2>1. Oldest(T, k) = {h}
    BY <1>1, <1>5 DEF Oldest
  <2>2. T.order # <<>>
    <3>1. DOMAIN T.of # {}
      BY <1>1, <1>5, FS_EmptySet
    <3> QED
      BY <1>1, <3>1, QueueForm
  <2>3. h \in DOMAIN T.of
    BY <1>1, <2>2, QueueTail
  <2> HIDE DEF h
  <2>4. Cardinality(DOMAIN T.of \ {h}) = Cardinality(DOMAIN T.of) - 1
    BY <1>1, <2>3, FS_RemoveElement
  <2>5. Cardinality(DOMAIN U.of) < Capacity
    BY <1>1, <1>2, <2>1, <2>4
  <2> QED
    BY <1>5, <2>1, <2>3, <2>5 DEF U
<1> QED
  BY <1>1, <1>3, <1>4, <1>5

\* A table without entries.
LEMMA NoTableIs ==
    ASSUME NEW K, NEW X, Capacity \in Nat
    PROVE  TableExact(NoTable, K, X) /\ DOMAIN NoTable.of = {}
<1>1. <<>> \in [{} -> X] /\ {} \in SUBSET K /\ <<>> \in Seq(K)
  OBVIOUS
<1>2. QueueExact(<<>>, {}) /\ Cardinality({}) <= Capacity
  BY QueueEmpty, FS_EmptySet
<1>3. TableExact([of |-> <<>>, order |-> <<>>], K, X)
  BY <1>1, <1>2, IsTable
<1> QED
  BY <1>3 DEF NoTable

----------------------------------------------------------------------------
(* The fragments' state: types, tables and budget.                         *)

\* What the assumptions say of the wire that was chosen.
LEMMA WireFacts ==
    ASSUME wire \in DOMAIN Wires
    PROVE  /\ Capacity \in Nat \ {0} /\ W.modulus \in Nat \ {0} /\ W.modulus <= SnModulus
           /\ SnModulus \in Nat \ {0} /\ BatchLen \in Nat \ {0} /\ W.cuts \subseteq Nat
           /\ \A f \in Flows :
                /\ IsTcp(f) \in BOOLEAN /\ Host(f) \in Workers
                /\ Stream(f) \in Seq(ToSet(Stream(f)))
                /\ BatchLen * Len(Stream(f)) < SeqModulus \div 2
                /\ \A m \in ToSet(Stream(f)) : m.kind \in {"initack", "join"} => m.modulus = W.modulus
<1>1. SnModulus \in Nat \ {0} /\ BatchLen \in Nat \ {0}
  BY TransportAssumption
<1>2. /\ W.tcp \in [Flows -> BOOLEAN] /\ W.worker \in [Flows -> Workers]
      /\ W.capacity \in Nat \ {0} /\ W.cuts \subseteq Nat
      /\ W.modulus \in 1 .. SnModulus
      /\ \A f \in Flows :
           /\ W.stream[f] \in Seq(ToSet(W.stream[f]))
           /\ BatchLen * Len(W.stream[f]) < SeqModulus \div 2
           /\ \A m \in ToSet(W.stream[f]) : m.kind \in {"initack", "join"} => m.modulus = W.modulus
  BY WireAssumption DEF W
<1> QED
  BY <1>1, <1>2 DEF Capacity, IsTcp, Host, Stream

\* What the chains are made of.
Names == {<<m.id, m.piece>> : m \in UNION {Fragments(wire, f) : f \in Flows}}
ChainStates ==
  [next : Int, modulus : {W.modulus, SnModulus}, payload : Seq(Names), age : Nat]
Runs == [pieces : Seq(Names), exact : BOOLEAN]
FragStates ==
  [chains : [Workers -> Tables(FragmentKeys, ChainStates)],
   resolutions : [Workers -> Tables(Flows, {W.modulus})],
   used : Int, handed : SUBSET Seq(Names), run : [FragmentKeys -> Runs]]

ChainTable(T) == TableExact(T, FragmentKeys, ChainStates)
ResolutionTable(T) == TableExact(T, Flows, {W.modulus})

\* Tables in order, and a budget that counts what they hold.
FragExact(F) ==
  /\ F \in FragStates
  /\ \A w \in Workers : ChainTable(F.chains[w]) /\ ResolutionTable(F.resolutions[w])
  /\ F.used = Cardinality(Held(F)) /\ F.used <= Budget

\* The pieces of some chains of a table are finitely many.
LEMMA PiecesFinite ==
    ASSUME NEW T, ChainTable(T), NEW K, K \subseteq DOMAIN T.of
    PROVE  IsFiniteSet(Pieces(T, K)) /\ Cardinality(Pieces(T, K)) \in Nat
<1> DEFINE f == [k \in K |-> {k} \X (1 .. Len(T.of[k].payload))]
<1>1. IsFiniteSet(DOMAIN T.of) /\ \A k \in DOMAIN T.of : T.of[k] \in ChainStates
  BY TableForm DEF ChainTable
<1>2. IsFiniteSet(K)
  BY <1>1, FS_Subset
<1>3. ASSUME NEW k \in K PROVE IsFiniteSet(f[k])
  <2>1. Len(T.of[k].payload) \in Nat
    <3>1. T.of[k].payload \in Seq(Names)
      BY <1>1 DEF ChainStates
    <3> QED
      BY <3>1, LenProperties
  <2>2. IsFiniteSet(1 .. Len(T.of[k].payload)) /\ IsFiniteSet({k})
    <3>1. \A n \in Nat : IsFiniteSet(1 .. n)
      BY FS_Interval
    <3> QED
      BY <2>1, <3>1, FS_Singleton
  <2>3. IsFiniteSet({k} \X (1 .. Len(T.of[k].payload)))
    BY <2>2, FS_Product
  <2> QED
    BY <2>3
<1>4. Pieces(T, K) = UNION {f[k] : k \in K}
  BY DEF Pieces
<1> HIDE DEF f
<1>5. IsFiniteSet(Pieces(T, K))
  BY <1>2, <1>3, <1>4, FiniteFamily
<1> QED
  BY <1>5, FS_CardinalityType

\* What the workers hold.
LEMMA HeldIs ==
    ASSUME NEW F, NEW x
    PROVE  x \in Held(F) <=> \E w \in Workers : \E k \in DOMAIN F.chains[w].of :
                               \E i \in 1 .. Len(F.chains[w].of[k].payload) : x = <<w, <<k, i>>>>
BY DEF Held, Pieces

\* What the workers hold can be counted.
LEMMA HeldFinite ==
    ASSUME NEW F, \A w \in Workers : ChainTable(F.chains[w])
    PROVE  IsFiniteSet(Held(F)) /\ Cardinality(Held(F)) \in Nat
<1> DEFINE f == [w \in Workers |-> {w} \X Pieces(F.chains[w], DOMAIN F.chains[w].of)]
<1>1. ASSUME NEW w \in Workers PROVE IsFiniteSet(f[w])
  <2>1. IsFiniteSet(Pieces(F.chains[w], DOMAIN F.chains[w].of))
    BY PiecesFinite
  <2>2. IsFiniteSet({w} \X Pieces(F.chains[w], DOMAIN F.chains[w].of))
    BY <2>1, TaggedCardinality
  <2> QED
    BY <2>2
<1>2. Held(F) = UNION {f[w] : w \in Workers}
  BY DEF Held
<1> HIDE DEF f
<1>3. IsFiniteSet(Held(F))
  BY <1>1, <1>2, FiniteFamily, TransportAssumption
<1> QED
  BY <1>3, FS_CardinalityType

\* From F to R the chains K of worker w go, and nothing else.
ChainsGo(F, R, w, K) ==
  /\ w \in Workers /\ Capacity \in Nat
  /\ F.chains \in [Workers -> Tables(FragmentKeys, ChainStates)]
  /\ \A v \in Workers : ChainTable(F.chains[v])
  /\ K \subseteq DOMAIN F.chains[w].of
  /\ R.chains[w] = TakeOut(F.chains[w], K)
  /\ \A v \in Workers : v # w => R.chains[v] = F.chains[v]

\* Chains that go take their pieces with them.
LEMMA HeldWithout ==
    ASSUME NEW F, NEW R, NEW w, NEW K, ChainsGo(F, R, w, K)
    PROVE  Cardinality(Held(R)) = Cardinality(Held(F)) - Cardinality(Pieces(F.chains[w], K))
<1> DEFINE T == F.chains[w]
           P == {w} \X Pieces(T, K)
<1>0. /\ w \in Workers /\ Capacity \in Nat /\ K \subseteq DOMAIN F.chains[w].of
      /\ F.chains \in [Workers -> Tables(FragmentKeys, ChainStates)]
      /\ \A v \in Workers : ChainTable(F.chains[v])
  BY DEF ChainsGo
<1> USE <1>0
<1>1. /\ R.chains[w] = TakeOut(T, K)
      /\ \A v \in Workers : v # w => R.chains[v] = F.chains[v]
  BY DEF ChainsGo
<1>2. ChainTable(T)
  OBVIOUS
<1>3. /\ DOMAIN TakeOut(T, K).of = DOMAIN T.of \ K
      /\ \A k \in DOMAIN T.of \ K : TakeOut(T, K).of[k] = T.of[k]
  BY <1>2, TakeOutKeeps DEF ChainTable
<1>4. Held(R) = Held(F) \ P
  <2>1. ASSUME NEW x \in Held(R) PROVE x \in Held(F) \ P
    <3>1. PICK v \in Workers : \E k \in DOMAIN R.chains[v].of :
              \E i \in 1 .. Len(R.chains[v].of[k].payload) : x = <<v, <<k, i>>>>
      BY <2>1, HeldIs
    <3>2. PICK k \in DOMAIN R.chains[v].of :
              \E i \in 1 .. Len(R.chains[v].of[k].payload) : x = <<v, <<k, i>>>>
      BY <3>1
    <3>3. PICK i \in 1 .. Len(R.chains[v].of[k].payload) : x = <<v, <<k, i>>>>
      BY <3>2
    <3>4. CASE v # w
      <4>1. R.chains[v] = F.chains[v]
        BY <1>1, <3>4
      <4>2. x \in Held(F)
        BY <3>3, <4>1, HeldIs
      <4>3. x \notin P
        BY <3>3, <3>4
      <4> QED
        BY <4>2, <4>3
    <3>5. CASE v = w
      <4>1. k \in DOMAIN T.of /\ k \notin K /\ R.chains[v].of[k] = T.of[k]
        BY <1>1, <1>3, <3>2, <3>5
      <4>2. x \in Held(F)
        BY <3>3, <3>5, <4>1, HeldIs
      <4>3. x \notin P
        BY <3>3, <4>1 DEF Pieces
      <4> QED
        BY <4>2, <4>3
    <3> QED
      BY <3>4, <3>5
  <2>2. ASSUME NEW x \in Held(F), x \notin P PROVE x \in Held(R)
    <3>1. PICK v \in Workers : \E k \in DOMAIN F.chains[v].of :
              \E i \in 1 .. Len(F.chains[v].of[k].payload) : x = <<v, <<k, i>>>>
      BY <2>2, HeldIs
    <3>2. PICK k \in DOMAIN F.chains[v].of :
              \E i \in 1 .. Len(F.chains[v].of[k].payload) : x = <<v, <<k, i>>>>
      BY <3>1
    <3>3. PICK i \in 1 .. Len(F.chains[v].of[k].payload) : x = <<v, <<k, i>>>>
      BY <3>2
    <3>4. CASE v # w
      <4>1. R.chains[v] = F.chains[v]
        BY <1>1, <3>4
      <4> QED
        BY <3>3, <4>1, HeldIs
    <3>5. CASE v = w
      <4>1. k \notin K
        <5>1. SUFFICES ASSUME k \in K PROVE FALSE
          OBVIOUS
        <5>2. <<k, i>> \in {k} \X (1 .. Len(T.of[k].payload))
          BY <3>3, <3>5
        <5>3. <<k, i>> \in Pieces(T, K)
          BY <5>1, <5>2 DEF Pieces
        <5> QED
          BY <2>2, <3>3, <3>5, <5>3
      <4>2. k \in DOMAIN R.chains[w].of /\ R.chains[w].of[k] = T.of[k]
        BY <1>1, <1>3, <3>2, <3>5, <4>1
      <4> QED
        BY <3>3, <3>5, <4>2, HeldIs
    <3> QED
      BY <3>4, <3>5
  <2> QED
    BY <2>1, <2>2
<1>5. P \subseteq Held(F)
  BY DEF Held, Pieces
<1>6. IsFiniteSet(Held(F))
  BY HeldFinite
<1>7. IsFiniteSet(Pieces(T, K))
  BY <1>2, PiecesFinite
<1>8. Cardinality(P) = Cardinality(Pieces(T, K))
  BY <1>7, TaggedCardinality
<1>9. Held(F) \cap P = P
  BY <1>5
<1> HIDE DEF P, T
<1>10. Cardinality(Held(F) \ P) = Cardinality(Held(F)) - Cardinality(Held(F) \cap P)
  BY <1>6, FS_Difference
<1> QED
  BY <1>4, <1>8, <1>9, <1>10 DEF T

\* A chain that comes brings its pieces.
LEMMA HeldWith ==
    ASSUME NEW F, F.chains \in [Workers -> Tables(FragmentKeys, ChainStates)],
           \A v \in Workers : ChainTable(F.chains[v]),
           NEW w \in Workers, NEW k \in FragmentKeys, NEW c \in ChainStates, Capacity \in Nat,
           k \notin DOMAIN F.chains[w].of, Cardinality(DOMAIN F.chains[w].of) < Capacity,
           NEW R, R.chains = [F.chains EXCEPT ![w] = Put(F.chains[w], k, c)]
    PROVE  Cardinality(Held(R)) = Cardinality(Held(F)) + Len(c.payload)
<1> DEFINE T == F.chains[w]
           n == Len(c.payload)
           P == {w} \X ({k} \X (1 .. n))
<1>1. /\ R.chains[w] = Put(T, k, c)
      /\ \A v \in Workers : v # w => R.chains[v] = F.chains[v]
  OBVIOUS
<1>2. ChainTable(T)
  OBVIOUS
<1>3. /\ DOMAIN Put(T, k, c).of = DOMAIN T.of \cup {k} /\ Put(T, k, c).of[k] = c
      /\ \A j \in DOMAIN T.of : j # k => Put(T, k, c).of[j] = T.of[j]
  BY <1>2, PutKeeps DEF ChainTable
<1>4. Held(R) = Held(F) \cup P
  <2>1. ASSUME NEW x \in Held(R) PROVE x \in Held(F) \cup P
    <3>1. PICK v \in Workers : \E j \in DOMAIN R.chains[v].of :
              \E i \in 1 .. Len(R.chains[v].of[j].payload) : x = <<v, <<j, i>>>>
      BY <2>1, HeldIs
    <3>2. PICK j \in DOMAIN R.chains[v].of :
              \E i \in 1 .. Len(R.chains[v].of[j].payload) : x = <<v, <<j, i>>>>
      BY <3>1
    <3>3. PICK i \in 1 .. Len(R.chains[v].of[j].payload) : x = <<v, <<j, i>>>>
      BY <3>2
    <3>4. CASE v # w
      <4>1. R.chains[v] = F.chains[v]
        BY <1>1, <3>4
      <4> QED
        BY <3>3, <4>1, HeldIs
    <3>5. CASE v = w /\ j # k
      <4>1. j \in DOMAIN T.of /\ R.chains[v].of[j] = T.of[j]
        BY <1>1, <1>3, <3>2, <3>5
      <4> QED
        BY <3>3, <3>5, <4>1, HeldIs
    <3>6. CASE v = w /\ j = k
      BY <1>1, <1>3, <3>3, <3>6
    <3> QED
      BY <3>4, <3>5, <3>6
  <2>2. ASSUME NEW x \in Held(F) PROVE x \in Held(R)
    <3>1. PICK v \in Workers : \E j \in DOMAIN F.chains[v].of :
              \E i \in 1 .. Len(F.chains[v].of[j].payload) : x = <<v, <<j, i>>>>
      BY <2>2, HeldIs
    <3>2. PICK j \in DOMAIN F.chains[v].of :
              \E i \in 1 .. Len(F.chains[v].of[j].payload) : x = <<v, <<j, i>>>>
      BY <3>1
    <3>3. PICK i \in 1 .. Len(F.chains[v].of[j].payload) : x = <<v, <<j, i>>>>
      BY <3>2
    <3>4. j \in DOMAIN R.chains[v].of /\ R.chains[v].of[j] = F.chains[v].of[j]
      <4>1. CASE v # w
        BY <1>1, <3>2, <4>1
      <4>2. CASE v = w
        <5>1. j # k
          BY <3>2, <4>2
        <5> QED
          BY <1>1, <1>3, <3>2, <4>2, <5>1
      <4> QED
        BY <4>1, <4>2
    <3> QED
      BY <3>3, <3>4, HeldIs
  <2>3. ASSUME NEW x \in P PROVE x \in Held(R)
    <3>1. PICK i \in 1 .. n : x = <<w, <<k, i>>>>
      BY <2>3
    <3>2. k \in DOMAIN R.chains[w].of /\ R.chains[w].of[k] = c
      BY <1>1, <1>3
    <3> QED
      BY <3>1, <3>2, HeldIs
  <2> QED
    BY <2>1, <2>2, <2>3
<1>5. Held(F) \cap P = {}
  <2>1. ASSUME NEW x \in Held(F), x \in P PROVE FALSE
    <3>1. PICK v \in Workers : \E j \in DOMAIN F.chains[v].of :
              \E i \in 1 .. Len(F.chains[v].of[j].payload) : x = <<v, <<j, i>>>>
      BY <2>1, HeldIs
    <3>2. PICK j \in DOMAIN F.chains[v].of :
              \E i \in 1 .. Len(F.chains[v].of[j].payload) : x = <<v, <<j, i>>>>
      BY <3>1
    <3>3. v = w /\ j = k
      BY <2>1, <3>2
    <3> QED
      BY <3>2, <3>3
  <2> QED
    BY <2>1
<1>6. IsFiniteSet(Held(F)) /\ Cardinality(Held(F)) \in Nat
  BY HeldFinite
<1>7. n \in Nat
  <2>1. c.payload \in Seq(Names)
    BY DEF ChainStates
  <2> QED
    BY <2>1, LenProperties
<1> HIDE DEF n
<1>8. IsFiniteSet(1 .. n) /\ Cardinality(1 .. n) = n
  BY <1>7, FS_Interval
<1>9. IsFiniteSet({k} \X (1 .. n)) /\ Cardinality({k} \X (1 .. n)) = n
  BY <1>8, TaggedCardinality
<1>10. IsFiniteSet(P) /\ Cardinality(P) = n
  BY <1>9, TaggedCardinality
<1> HIDE DEF P
<1>11. Cardinality(Held(F) \cup P)
         = Cardinality(Held(F)) + Cardinality(P) - Cardinality(Held(F) \cap P)
  BY <1>6, <1>10, FS_Union
<1>12. Cardinality(Held(F) \cap P) = 0
  BY <1>5, FS_EmptySet
<1> QED
  BY <1>4, <1>6, <1>7, <1>10, <1>11, <1>12 DEF n

----------------------------------------------------------------------------
(* The fragments' state: nothing joined over a gap, nothing withheld.      *)

\* Pieces that follow each other in one message.
Successive(s) == \A i \in 1 .. Len(s) - 1 : s[i + 1] = <<s[i][1], s[i][2] + 1>>

\* A chain expects the number after that of its last piece, with more to come.
ChainWhole(k, c) ==
  /\ Successive(c.payload) /\ c.payload # <<>>
  /\ \E m \in Fragments(wire, k[1]) :
       /\ m.channel = k[2] /\ m.more /\ ~m.drop
       /\ Last(c.payload) = <<m.id, m.piece>> /\ c.next = (m.sn + 1) % c.modulus

\* An uninterrupted run is what the chain holds, or a whole message and handed.
RunOpen(F, k) ==
  LET r == F.run[k]
      T == F.chains[Host(k[1])]
  IN  /\ k \in DOMAIN T.of /\ T.of[k].payload = r.pieces
      /\ r.exact => T.of[k].modulus = W.modulus
RunDone(F, k) ==
  LET p == F.run[k].pieces
  IN  p \in F.handed /\ Last(p)[2] = W.pieces[Last(p)[1]]
RunWhole(F, k) == F.run[k].pieces # <<>> => RunOpen(F, k) \/ RunDone(F, k)

HandedWhole(F) == \A p \in F.handed : p[1][2] = 1 => p \in WholeMessages

FragWhole(F) ==
  /\ \A w \in Workers : \A k \in DOMAIN F.chains[w].of : ChainWhole(k, F.chains[w].of[k])
  /\ HandedWhole(F)
  /\ \A k \in FragmentKeys : RunWhole(F, k)

FragOK(F) == FragExact(F) /\ FragWhole(F)

\* No run.
LEMMA NoRunIs == NoRun \in Runs /\ NoRun.pieces = <<>>
BY DEF NoRun, Runs

\* A state put together from good parts.
LEMMA IsFragExact ==
    ASSUME NEW c \in [Workers -> Tables(FragmentKeys, ChainStates)],
           NEW r \in [Workers -> Tables(Flows, {W.modulus})],
           NEW u \in Int, NEW h \in SUBSET Seq(Names), NEW n \in [FragmentKeys -> Runs],
           \A w \in Workers : ChainTable(c[w]) /\ ResolutionTable(r[w]),
           NEW F, F = [chains |-> c, resolutions |-> r, used |-> u, handed |-> h, run |-> n],
           u = Cardinality(Held(F)), u <= Budget
    PROVE  FragExact(F)
<1>1. F \in FragStates
  BY DEF FragStates
<1>2. F.chains = c /\ F.resolutions = r /\ F.used = u
  OBVIOUS
<1> QED
  BY <1>1, <1>2 DEF FragExact

\* The parts of a good state.
LEMMA FragParts ==
    ASSUME NEW F, FragExact(F)
    PROVE  /\ F = [chains |-> F.chains, resolutions |-> F.resolutions, used |-> F.used,
                   handed |-> F.handed, run |-> F.run]
           /\ F.chains \in [Workers -> Tables(FragmentKeys, ChainStates)]
           /\ F.resolutions \in [Workers -> Tables(Flows, {W.modulus})]
           /\ F.used \in Int /\ F.handed \in SUBSET Seq(Names) /\ F.run \in [FragmentKeys -> Runs]
           /\ \A w \in Workers : ChainTable(F.chains[w]) /\ ResolutionTable(F.resolutions[w])
           /\ F.used = Cardinality(Held(F)) /\ F.used <= Budget
BY DEF FragExact, FragStates

\* What a worker knows of resolutions has no part in the chains.
LEMMA SetResolutions ==
    ASSUME NEW F, FragOK(F), NEW w \in Workers, NEW T, ResolutionTable(T)
    PROVE  LET R == [F EXCEPT !.resolutions[w] = T] IN
           /\ FragOK(R) /\ R.chains = F.chains /\ R.run = F.run /\ R.handed = F.handed
           /\ R.used = F.used /\ R.resolutions[w] = T
<1> DEFINE R == [F EXCEPT !.resolutions[w] = T]
           r == [F.resolutions EXCEPT ![w] = T]
<1>1. /\ F = [chains |-> F.chains, resolutions |-> F.resolutions, used |-> F.used,
              handed |-> F.handed, run |-> F.run]
      /\ F.chains \in [Workers -> Tables(FragmentKeys, ChainStates)]
      /\ F.resolutions \in [Workers -> Tables(Flows, {W.modulus})]
      /\ F.used \in Int /\ F.handed \in SUBSET Seq(Names) /\ F.run \in [FragmentKeys -> Runs]
      /\ \A v \in Workers : ChainTable(F.chains[v]) /\ ResolutionTable(F.resolutions[v])
      /\ F.used = Cardinality(Held(F)) /\ F.used <= Budget
  BY FragParts DEF FragOK
<1>2. R = [chains |-> F.chains, resolutions |-> r, used |-> F.used, handed |-> F.handed,
           run |-> F.run]
  BY <1>1
<1>3. r \in [Workers -> Tables(Flows, {W.modulus})]
      /\ \A v \in Workers : ResolutionTable(r[v])
  BY <1>1 DEF ResolutionTable, TableExact
<1>4. /\ R.chains = F.chains /\ R.run = F.run /\ R.handed = F.handed
      /\ R.used = F.used /\ R.resolutions[w] = T
  BY <1>1, <1>2
<1> HIDE DEF R, r
<1>5. Held(R) = Held(F)
  BY <1>4 DEF Held
<1>6. FragExact(R)
  BY <1>1, <1>2, <1>3, <1>5, IsFragExact
<1>7. FragWhole(R)
  BY <1>4 DEF FragOK, FragWhole, HandedWhole, RunWhole, RunOpen, RunDone
<1> QED
  BY <1>4, <1>6, <1>7 DEF FragOK, R

\* The run of a key may be set to one that its chain bears out.
LEMMA SetRun ==
    ASSUME NEW F, FragOK(F), NEW k \in FragmentKeys, NEW r \in Runs, r.pieces = <<>>
    PROVE  FragOK([F EXCEPT !.run[k] = r])
<1> DEFINE R == [F EXCEPT !.run[k] = r]
           n == [F.run EXCEPT ![k] = r]
<1>1. /\ F = [chains |-> F.chains, resolutions |-> F.resolutions, used |-> F.used,
              handed |-> F.handed, run |-> F.run]
      /\ F.chains \in [Workers -> Tables(FragmentKeys, ChainStates)]
      /\ F.resolutions \in [Workers -> Tables(Flows, {W.modulus})]
      /\ F.used \in Int /\ F.handed \in SUBSET Seq(Names) /\ F.run \in [FragmentKeys -> Runs]
      /\ \A v \in Workers : ChainTable(F.chains[v]) /\ ResolutionTable(F.resolutions[v])
      /\ F.used = Cardinality(Held(F)) /\ F.used <= Budget
  BY FragParts DEF FragOK
<1>2. R = [chains |-> F.chains, resolutions |-> F.resolutions, used |-> F.used,
           handed |-> F.handed, run |-> n]
  BY <1>1
<1>3. n \in [FragmentKeys -> Runs] /\ n[k] = r /\ \A j \in FragmentKeys : j # k => n[j] = F.run[j]
  BY <1>1
<1>4. R.chains = F.chains /\ R.run = n /\ R.handed = F.handed
  BY <1>2
<1> HIDE DEF R, n
<1>5. Held(R) = Held(F)
  BY <1>4 DEF Held
<1>6. FragExact(R)
  BY <1>1, <1>2, <1>3, <1>5, IsFragExact
<1>7. ASSUME NEW j \in FragmentKeys PROVE RunWhole(R, j)
  <2>1. CASE j = k
    BY <1>3, <1>4, <2>1 DEF RunWhole
  <2>2. CASE j # k
    <3>1. RunWhole(F, j)
      BY DEF FragOK, FragWhole
    <3> QED
      BY <1>3, <1>4, <2>2, <3>1 DEF RunWhole, RunOpen, RunDone
  <2> QED
    BY <2>1, <2>2
<1>8. FragWhole(R)
  BY <1>4, <1>7 DEF FragOK, FragWhole, HandedWhole
<1> QED
  BY <1>6, <1>8 DEF FragOK, R

\* Chains that go give their bytes back and end their runs.
LEMMA RemoveChainsKeeps ==
    ASSUME NEW F, FragOK(F), NEW w \in Workers, NEW K, Capacity \in Nat
    PROVE  LET R == RemoveChains(F, w, K)
               gone == K \cap DOMAIN F.chains[w].of
           IN
           /\ FragOK(R)
           /\ R.chains = [F.chains EXCEPT ![w] = TakeOut(F.chains[w], gone)]
           /\ R.used = F.used - Cardinality(Pieces(F.chains[w], gone))
           /\ R.handed = F.handed /\ R.resolutions = F.resolutions
           /\ \A k \in FragmentKeys : R.run[k] = IF k \in gone THEN NoRun ELSE F.run[k]
<1> DEFINE R == RemoveChains(F, w, K)
           gone == K \cap DOMAIN F.chains[w].of
           T == TakeOut(F.chains[w], gone)
           c == [F.chains EXCEPT ![w] = T]
           u == F.used - Cardinality(Pieces(F.chains[w], gone))
           n == [k \in FragmentKeys |-> IF k \in gone THEN NoRun ELSE F.run[k]]
<1>1. /\ F = [chains |-> F.chains, resolutions |-> F.resolutions, used |-> F.used,
              handed |-> F.handed, run |-> F.run]
      /\ F.chains \in [Workers -> Tables(FragmentKeys, ChainStates)]
      /\ F.resolutions \in [Workers -> Tables(Flows, {W.modulus})]
      /\ F.used \in Int /\ F.handed \in SUBSET Seq(Names) /\ F.run \in [FragmentKeys -> Runs]
      /\ \A v \in Workers : ChainTable(F.chains[v]) /\ ResolutionTable(F.resolutions[v])
      /\ F.used = Cardinality(Held(F)) /\ F.used <= Budget
  BY FragParts DEF FragOK
<1>2. R = [chains |-> c, resolutions |-> F.resolutions, used |-> u, handed |-> F.handed,
           run |-> n]
  <2>1. R = [F EXCEPT !.chains = c, !.used = u, !.run = n]
    BY DEF RemoveChains
  <2> HIDE DEF R, c, u, n
  <2> QED
    BY <1>1, <2>1
<1>3. gone \subseteq DOMAIN F.chains[w].of /\ ChainTable(F.chains[w])
  BY <1>1
<1>4. /\ ChainTable(T) /\ DOMAIN T.of = DOMAIN F.chains[w].of \ gone
      /\ \A k \in DOMAIN T.of : T.of[k] = F.chains[w].of[k]
  BY <1>3, TakeOutKeeps DEF ChainTable
<1>5. /\ c \in [Workers -> Tables(FragmentKeys, ChainStates)] /\ c[w] = T
      /\ \A v \in Workers : ChainTable(c[v]) /\ (v # w => c[v] = F.chains[v])
  <2>1. T \in Tables(FragmentKeys, ChainStates)
    BY <1>4 DEF ChainTable, TableExact
  <2>2. ChainTable(T)
    BY <1>4
  <2>3. \A v \in Workers : ChainTable(F.chains[v])
    BY <1>1
  <2>4. F.chains \in [Workers -> Tables(FragmentKeys, ChainStates)]
    BY <1>1
  <2> HIDE DEF T
  <2>5. c \in [Workers -> Tables(FragmentKeys, ChainStates)] /\ c[w] = T
    BY <2>1, <2>4
  <2>6. \A v \in Workers : v # w => c[v] = F.chains[v]
    BY <2>4
  <2> QED
    BY <2>2, <2>3, <2>5, <2>6
<1>6. R.chains = c /\ R.run = n /\ R.handed = F.handed /\ R.resolutions = F.resolutions
      /\ R.used = u
  BY <1>2
<1>7. R.chains = [F.chains EXCEPT ![w] = TakeOut(F.chains[w], gone)]
  BY <1>6
<1>8. /\ n \in [FragmentKeys -> Runs]
      /\ \A k \in FragmentKeys : n[k] = IF k \in gone THEN NoRun ELSE F.run[k]
  BY <1>1, NoRunIs
<1> HIDE DEF R, c, n, T, gone
<1>9. Cardinality(Held(R)) = Cardinality(Held(F)) - Cardinality(Pieces(F.chains[w], gone))
  <2>1. F.chains \in [Workers -> Tables(FragmentKeys, ChainStates)]
    BY <1>1
  <2>2. \A v \in Workers : ChainTable(F.chains[v])
    BY <1>1
  <2>3. gone \subseteq DOMAIN F.chains[w].of
    BY <1>3
  <2>4. R.chains[w] = TakeOut(F.chains[w], gone)
    BY <1>5, <1>6 DEF T
  <2>5. \A v \in Workers : v # w => R.chains[v] = F.chains[v]
    BY <1>5, <1>6
  <2>6. ChainsGo(F, R, w, gone)
    BY <2>1, <2>2, <2>3, <2>4, <2>5 DEF ChainsGo
  <2> QED
    BY <2>6, HeldWithout
<1>10. Cardinality(Pieces(F.chains[w], gone)) \in Nat
  BY <1>3, PiecesFinite
<1>11. Budget \in Nat
  BY TransportAssumption
<1>12. u \in Int /\ u = Cardinality(Held(R)) /\ u <= Budget
  BY <1>1, <1>9, <1>10, <1>11
<1> HIDE DEF u
<1>13. FragExact(R)
  BY <1>1, <1>2, <1>5, <1>8, <1>12, IsFragExact
<1>14. ASSUME NEW v \in Workers, NEW k \in DOMAIN R.chains[v].of
       PROVE  k \in DOMAIN F.chains[v].of /\ R.chains[v].of[k] = F.chains[v].of[k]
  BY <1>4, <1>5, <1>6
<1>15. ASSUME NEW v \in Workers, NEW k \in DOMAIN R.chains[v].of
       PROVE  ChainWhole(k, R.chains[v].of[k])
  BY <1>14 DEF FragOK, FragWhole
<1>16. ASSUME NEW k \in FragmentKeys PROVE RunWhole(R, k)
  <2>1. CASE k \in gone
    BY <1>6, <1>8, <2>1, NoRunIs DEF RunWhole
  <2>2. CASE k \notin gone
    <3>1. RunWhole(F, k) /\ R.run[k] = F.run[k]
      BY <1>6, <1>8, <2>2 DEF FragOK, FragWhole
    <3>2. ASSUME k \in DOMAIN F.chains[Host(k[1])].of
          PROVE  /\ k \in DOMAIN R.chains[Host(k[1])].of
                 /\ R.chains[Host(k[1])].of[k] = F.chains[Host(k[1])].of[k]
      <4>1. CASE Host(k[1]) = w
        <5>1. R.chains[w] = T
          BY <1>5, <1>6
        <5> QED
          BY <1>4, <2>2, <3>2, <4>1, <5>1
      <4>2. CASE Host(k[1]) # w
        <5>1. R.chains[Host(k[1])] = F.chains[Host(k[1])]
          BY <1>7, <4>2, <1>1
        <5> QED
          BY <3>2, <5>1
      <4> QED
        BY <4>1, <4>2
    <3>3. RunOpen(F, k) => RunOpen(R, k)
      BY <3>1, <3>2 DEF RunOpen
    <3>4. RunDone(F, k) => RunDone(R, k)
      BY <1>6, <3>1 DEF RunDone
    <3> QED
      BY <3>1, <3>3, <3>4 DEF RunWhole
  <2> QED
    BY <2>1, <2>2
<1>17. FragWhole(R)
  BY <1>6, <1>15, <1>16 DEF FragOK, FragWhole, HandedWhole
<1> QED
  BY <1>6, <1>7, <1>8, <1>13, <1>17 DEF FragOK, R, u, gone

\* The table from which they go, by itself.
LEMMA RemoveChainsTable ==
    ASSUME NEW F, FragOK(F), NEW w \in Workers, NEW K
    PROVE  RemoveChains(F, w, K).chains[w]
             = TakeOut(F.chains[w], K \cap DOMAIN F.chains[w].of)
<1> DEFINE T == TakeOut(F.chains[w], K \cap DOMAIN F.chains[w].of)
<1>1. /\ F = [chains |-> F.chains, resolutions |-> F.resolutions, used |-> F.used,
              handed |-> F.handed, run |-> F.run]
      /\ F.chains \in [Workers -> Tables(FragmentKeys, ChainStates)]
  BY FragParts DEF FragOK
<1>2. \E u, n : RemoveChains(F, w, K)
                 = [F EXCEPT !.chains = [F.chains EXCEPT ![w] = T], !.used = u, !.run = n]
  BY DEF RemoveChains
<1> HIDE DEF T
<1>3. [F.chains EXCEPT ![w] = T][w] = T
  BY <1>1
<1>4. RemoveChains(F, w, K).chains = [F.chains EXCEPT ![w] = T]
  BY <1>1, <1>2
<1> QED
  BY <1>3, <1>4 DEF T

\* remember_direction_resolution and the look-ups that move an entry.
LEMMA RememberKeeps ==
    ASSUME NEW F, FragOK(F), NEW w \in Workers, NEW f \in Flows, wire \in DOMAIN Wires
    PROVE  FragOK(RememberDirection(F, w, f, W.modulus))
<1> DEFINE T == F.resolutions[w]
           U == TakeOut(T, Oldest(T, f))
           V == Put(U, f, W.modulus)
<1>1. Capacity \in Nat \ {0}
  BY WireFacts
<1>2. TableExact(T, Flows, {W.modulus})
  BY FragParts DEF FragOK, ResolutionTable
<1> HIDE DEF T
<1>3. TableExact(U, Flows, {W.modulus})
  BY <1>1, <1>2, TakeOutKeeps
<1>4. f \in DOMAIN U.of \/ Cardinality(DOMAIN U.of) < Capacity
  BY <1>1, <1>2, OldestMakesRoom
<1>5. RememberDirection(F, w, f, W.modulus) = [F EXCEPT !.resolutions[w] = V]
  BY DEF RememberDirection, T
<1> HIDE DEF U
<1>6. ResolutionTable(V)
  BY <1>1, <1>3, <1>4, PutKeeps DEF ResolutionTable
<1> HIDE DEF V
<1> QED
  BY <1>5, <1>6, SetResolutions

\* A resolution that is used is the latest one.
LEMMA TouchKeeps ==
    ASSUME NEW F, FragOK(F), NEW w \in Workers, NEW f \in Flows, wire \in DOMAIN Wires
    PROVE  LET R == TouchResolution(F, w, f) IN
           FragOK(R) /\ R.chains = F.chains /\ R.run = F.run /\ R.handed = F.handed
<1> DEFINE T == F.resolutions[w]
           V == Put(T, f, T.of[f])
<1>1. Capacity \in Nat
  BY WireFacts
<1>2. CASE f \in DOMAIN T.of
  <2>1. TableExact(T, Flows, {W.modulus})
    BY FragParts DEF FragOK, ResolutionTable
  <2>2. TouchResolution(F, w, f) = [F EXCEPT !.resolutions[w] = V]
    BY <1>2 DEF TouchResolution
  <2>3. T.of[f] \in {W.modulus}
    BY <1>2, <2>1, TableForm
  <2> HIDE DEF T
  <2>4. ResolutionTable(V)
    BY <1>1, <1>2, <2>1, <2>3, PutKeeps DEF ResolutionTable
  <2> HIDE DEF V
  <2> QED
    BY <2>2, <2>4, SetResolutions
<1>3. CASE f \notin DOMAIN T.of
  BY <1>3 DEF TouchResolution
<1> QED
  BY <1>2, <1>3

\* The resolution that a fragment is read with.
LEMMA SnMaskIs ==
    ASSUME NEW F, FragOK(F), NEW w \in Workers, NEW f \in Flows
    PROVE  SnMask(F, w, f) \in {W.modulus, SnModulus}
<1>1. TableExact(F.resolutions[w], Flows, {W.modulus})
  BY FragParts DEF FragOK, ResolutionTable
<1>2. \A k \in DOMAIN F.resolutions[w].of : F.resolutions[w].of[k] \in {W.modulus}
  BY <1>1, TableForm
<1> QED
  BY <1>2 DEF SnMask

----------------------------------------------------------------------------
(* A fragment.                                                             *)

\* In a channel the next number is the next piece.
LEMMA NextFragment ==
    ASSUME wire \in DOMAIN Wires, NEW f \in Flows, NEW a \in Fragments(wire, f),
           NEW n \in Fragments(wire, f), n.channel = a.channel
    PROVE  /\ a.sn \in Nat /\ a.sn < W.modulus
           /\ n.id = a.id /\ n.piece = a.piece + 1 => n.sn = (a.sn + 1) % W.modulus
           /\ a.more /\ ~a.drop /\ n.sn = (a.sn + 1) % W.modulus
                => n.id = a.id /\ n.piece = a.piece + 1
<1>1. a.sn \in 0 .. W.modulus - 1
  BY FragmentAssumption DEF W
<1>2. W.modulus \in Nat \ {0}
  BY WireFacts
<1>3. n.id = a.id /\ n.piece = a.piece + 1 => n.sn = (a.sn + 1) % W.modulus
  BY FragmentAssumption DEF W
<1>4. a.more /\ ~a.drop /\ n.sn = (a.sn + 1) % W.modulus => n.id = a.id /\ n.piece = a.piece + 1
  BY FragmentAssumption DEF W
<1>5. a.sn \in Nat /\ a.sn < W.modulus
  BY <1>1, <1>2
<1> QED
  BY <1>3, <1>4, <1>5

\* What the assumptions say of a fragment.
LEMMA FragmentFacts ==
    ASSUME wire \in DOMAIN Wires, NEW f \in Flows, NEW m \in Fragments(wire, f)
    PROVE  /\ {m.first, m.more, m.drop} \subseteq BOOLEAN /\ m.sn \in Nat /\ m.sn < W.modulus
           /\ m.piece \in Nat \ {0} /\ m.piece <= W.pieces[m.id] /\ W.pieces[m.id] \in Nat \ {0}
           /\ m.id \in DOMAIN W.pieces
           /\ m.first => m.piece = 1
           /\ ~m.drop => (m.more <=> m.piece < W.pieces[m.id])
           /\ <<m.id, m.piece>> \in Names /\ <<f, m.channel>> \in FragmentKeys
           /\ \A n \in Fragments(wire, f) : n.channel = m.channel =>
                /\ n.id = m.id /\ n.piece = m.piece + 1 => n.sn = (m.sn + 1) % W.modulus
                /\ m.more /\ ~m.drop /\ n.sn = (m.sn + 1) % W.modulus
                     => n.id = m.id /\ n.piece = m.piece + 1
<1>1. /\ {m.first, m.more, m.drop} \subseteq BOOLEAN /\ m.sn \in 0 .. W.modulus - 1
      /\ m.id \in DOMAIN W.pieces /\ m.piece \in 1 .. W.pieces[m.id]
      /\ m.first => m.piece = 1
      /\ ~m.drop => (m.more <=> m.piece < W.pieces[m.id])
      /\ \A n \in Fragments(wire, f) : n.channel = m.channel =>
           /\ n.id = m.id /\ n.piece = m.piece + 1 => n.sn = (m.sn + 1) % W.modulus
           /\ m.more /\ ~m.drop /\ n.sn = (m.sn + 1) % W.modulus
                => n.id = m.id /\ n.piece = m.piece + 1
  BY FragmentAssumption DEF W
<1>2. W.modulus \in Nat \ {0}
  BY WireFacts
<1>3. W.pieces[m.id] \in Nat \ {0}
  <2>1. W.pieces \in [DOMAIN W.pieces -> Nat \ {0}]
    BY WireAssumption DEF W
  <2> QED
    BY <1>1, <2>1
<1>4. <<m.id, m.piece>> \in Names
  BY DEF Names
<1>5. <<f, m.channel>> \in FragmentKeys
  <2> DEFINE C == {{n.channel : n \in Fragments(v, g)} : v \in DOMAIN Wires, g \in Flows}
  <2>1. m.channel \in {n.channel : n \in Fragments(wire, f)}
    OBVIOUS
  <2>2. {n.channel : n \in Fragments(wire, f)} \in C
    OBVIOUS
  <2>4. FragmentKeys = Flows \X UNION C
    BY DEF FragmentKeys
  <2> HIDE DEF C
  <2>3. m.channel \in UNION C
    BY <2>1, <2>2
  <2> QED
    BY <2>3, <2>4
<1>6. m.sn \in Nat /\ m.sn < W.modulus
  BY <1>1, <1>2
<1>7. m.piece \in Nat \ {0} /\ m.piece <= W.pieces[m.id]
  BY <1>1, <1>3
<1> QED
  BY <1>1, <1>3, <1>4, <1>5, <1>6, <1>7

\* The next number, counted with the resolution of the sender or without
\* having seen it.
LEMMA NextNumber ==
    ASSUME NEW s \in Nat, NEW n \in Nat, NEW a \in Nat, NEW b \in Nat, NEW x \in {a, b},
           s < a, n < a, a <= b
    PROVE  /\ n = (s + 1) % x => n = (s + 1) % a
           /\ n = (s + 1) % a /\ (x = a \/ n # 0) => n = (s + 1) % x
<1>1. ASSUME NEW y \in Nat, s < y PROVE (s + 1) % y = IF s + 1 = y THEN 0 ELSE s + 1
  <2>1. CASE s + 1 = y
    BY <1>1, <2>1
  <2>2. CASE s + 1 # y
    <3>1. s + 1 \in 0 .. y - 1
      BY <1>1, <2>2
    <3> QED
      BY <2>2, <3>1
  <2> QED
    BY <2>1, <2>2
<1>2. (s + 1) % a = IF s + 1 = a THEN 0 ELSE s + 1
  BY <1>1
<1>3. (s + 1) % b = IF s + 1 = b THEN 0 ELSE s + 1
  BY <1>1
<1> HIDE <1>1
<1>4. CASE x = a
  BY <1>2, <1>4
<1>5. CASE x = b
  BY <1>2, <1>3, <1>5
<1> QED
  BY <1>4, <1>5

\* The next piece, after a sequence of pieces.
LEMMA SuccessiveAppend ==
    ASSUME NEW S, NEW s \in Seq(S), NEW x \in S, Successive(s),
           s # <<>> => x = <<Last(s)[1], Last(s)[2] + 1>>
    PROVE  /\ Append(s, x) \in Seq(S) /\ Len(Append(s, x)) = Len(s) + 1
           /\ Successive(Append(s, x)) /\ Append(s, x) # <<>> /\ Last(Append(s, x)) = x
<1> DEFINE t == Append(s, x)
<1>1. /\ t \in Seq(S) /\ Len(t) = Len(s) + 1 /\ t # <<>> /\ t[Len(s) + 1] = x
      /\ \A i \in 1 .. Len(s) : t[i] = s[i]
  BY AppendProperties
<1>2. Len(s) \in Nat
  BY LenProperties
<1> HIDE DEF t
<1>3. Last(t) = x
  BY <1>1 DEF Last
<1>4. ASSUME NEW i \in 1 .. Len(t) - 1 PROVE t[i + 1] = <<t[i][1], t[i][2] + 1>>
  <2>1. i \in 1 .. Len(s)
    BY <1>1, <1>2
  <2>2. CASE i = Len(s)
    <3>1. s # <<>>
      BY <2>1, EmptySeq
    <3>2. x = <<s[i][1], s[i][2] + 1>>
      BY <2>2, <3>1 DEF Last
    <3> QED
      BY <1>1, <2>1, <2>2, <3>2
  <2>3. CASE i # Len(s)
    <3>1. i \in 1 .. Len(s) - 1 /\ i + 1 \in 1 .. Len(s)
      BY <1>2, <2>1, <2>3
    <3>2. s[i + 1] = <<s[i][1], s[i][2] + 1>>
      BY <3>1 DEF Successive
    <3> QED
      BY <1>1, <2>1, <3>1, <3>2
  <2> QED
    BY <2>2, <2>3
<1>5. Successive(t)
  BY <1>4 DEF Successive
<1> QED
  BY <1>1, <1>3, <1>5 DEF t

\* Pieces that follow each other up to the last one of their message, from the
\* first one, are the message.
LEMMA SuccessiveWhole ==
    ASSUME wire \in DOMAIN Wires, NEW f \in Flows, NEW m \in Fragments(wire, f),
           NEW s \in Seq(Names), Successive(s), s # <<>>, Last(s) = <<m.id, m.piece>>,
           m.piece = W.pieces[m.id], s[1][2] = 1
    PROVE  s \in WholeMessages
<1> DEFINE N == Len(s)
           T == {n \in 0 .. N : \A i \in 1 .. n : s[i] = <<s[1][1], i>>}
<1>1. N \in Nat \ {0} /\ s \in [1 .. N -> Names]
  BY EmptySeq, LenProperties
<1>2. \A i \in 1 .. N - 1 : s[i + 1] = <<s[i][1], s[i][2] + 1>>
  BY DEF Successive
<1>3. s[N] = <<m.id, m.piece>>
  BY DEF Last
<1>4. s[1] = <<s[1][1], 1>>
  <2>1. s[1] \in Names
    BY <1>1
  <2> QED
    BY <2>1 DEF Names
<1> HIDE DEF N
<1>5. 0 \in T
  BY <1>1
<1>6. ASSUME NEW n \in 0 .. N, n < N, n \in T PROVE n + 1 \in T
  <2>1. n + 1 \in 0 .. N /\ 1 .. n + 1 = (1 .. n) \cup {n + 1}
    BY <1>1, <1>6
  <2>2. s[n + 1] = <<s[1][1], n + 1>>
    <3>1. CASE n = 0
      BY <1>4, <3>1
    <3>2. CASE n # 0
      <4>1. n \in 1 .. N - 1 /\ n \in 1 .. n
        BY <1>1, <1>6, <3>2
      <4>2. s[n] = <<s[1][1], n>>
        BY <1>6, <4>1
      <4> QED
        BY <1>2, <4>1, <4>2
    <3> QED
      BY <3>1, <3>2
  <2>3. \A i \in 1 .. n : s[i] = <<s[1][1], i>>
    BY <1>6
  <2> QED
    BY <2>1, <2>2, <2>3
<1> HIDE DEF T
<1>7. 0 .. N \subseteq T
  BY <1>1, <1>5, <1>6, BoundedInduction
<1>8. \A i \in 1 .. N : s[i] = <<s[1][1], i>>
  <2>1. N \in T
    BY <1>1, <1>7
  <2> QED
    BY <2>1 DEF T
<1>9. s[1][1] = m.id /\ N = W.pieces[m.id] /\ m.id \in DOMAIN W.pieces
  <2>1. s[N] = <<s[1][1], N>>
    BY <1>1, <1>8
  <2>2. m.id \in DOMAIN W.pieces
    BY FragmentFacts
  <2>3. <<s[1][1], N>> = <<m.id, m.piece>>
    BY <1>3, <2>1
  <2>4. s[1][1] = m.id /\ N = m.piece
    BY <2>3
  <2> QED
    BY <2>2, <2>4
<1>10. s = [i \in 1 .. W.pieces[m.id] |-> <<m.id, i>>]
  BY <1>1, <1>8, <1>9
<1> QED
  BY <1>9, <1>10 DEF WholeMessages

\* The chain that a fragment extends, and what extends it: the pieces of the
\* chain are a stretch of one message, and an uninterrupted run is not refused.
LEMMA ExtendForm ==
    ASSUME wire \in DOMAIN Wires, NEW F, FragOK(F), NEW f \in Flows, NEW m \in Fragments(wire, f)
    PROVE  LET w    == Host(f)
               key  == <<f, m.channel>>
               mask == SnMask(F, w, f)
               c    == OpenChain(F, w, key, m, mask)
               d    == ExtendChain(c, m)
               r    == ExtendRun(F, w, f, m)
           IN  /\ c \in ChainStates /\ d \in ChainStates /\ r \in Runs
               /\ Len(d.payload) = Len(c.payload) + 1
               /\ d.payload # <<>> /\ Last(d.payload) = <<m.id, m.piece>>
               /\ d.next = (m.sn + 1) % d.modulus
               /\ c.next = m.sn => Successive(d.payload)
               /\ r.pieces # <<>> =>
                    /\ c.next = m.sn /\ d.payload = r.pieces
                    /\ r.exact => d.modulus = W.modulus
<1> DEFINE w    == Host(f)
           key  == <<f, m.channel>>
           p    == <<m.id, m.piece>>
           mask == SnMask(F, w, f)
           c    == OpenChain(F, w, key, m, mask)
           d    == ExtendChain(c, m)
           r    == ExtendRun(F, w, f, m)
           T    == F.chains[w]
           old  == F.run[key]
<1>1. /\ {m.first, m.more, m.drop} \subseteq BOOLEAN /\ m.sn \in Nat /\ m.sn < W.modulus
      /\ m.piece \in Nat \ {0} /\ m.piece <= W.pieces[m.id] /\ p \in Names
      /\ m.first => m.piece = 1 /\ key \in FragmentKeys
      /\ W.pieces[m.id] \in Nat \ {0}
  BY FragmentFacts
<1>2. w \in Workers /\ W.modulus \in Nat \ {0} /\ W.modulus <= SnModulus /\ SnModulus \in Nat \ {0}
  BY WireFacts
<1>k. key \in FragmentKeys
  BY FragmentFacts
<1>3. mask \in {W.modulus, SnModulus}
  BY <1>2, SnMaskIs
<1>4. ChainTable(T) /\ F.run \in [FragmentKeys -> Runs]
  BY <1>2, FragParts DEF FragOK
<1>5. \A k \in DOMAIN T.of : T.of[k] \in ChainStates /\ ChainWhole(k, T.of[k])
  BY <1>2, <1>4, TableForm DEF ChainTable, FragOK, FragWhole
<1>6. old \in Runs /\ RunWhole(F, key)
  BY <1>4, <1>k DEF FragOK, FragWhole
<1>7. c = IF m.first
          THEN [Chain(F, w, key, mask) EXCEPT !.payload = <<>>, !.next = m.sn, !.modulus = mask]
          ELSE IF Chain(F, w, key, mask).next = NoSn
               THEN [Chain(F, w, key, mask) EXCEPT !.next = m.sn]
               ELSE Chain(F, w, key, mask)
  BY DEF OpenChain
<1>8. /\ key \in DOMAIN T.of => Chain(F, w, key, mask) = [T.of[key] EXCEPT !.age = 0]
      /\ key \notin DOMAIN T.of => Chain(F, w, key, mask) = NewChain(mask)
  BY DEF Chain
<1> DEFINE o == T.of[key]
<1>9. /\ m.first => Len(c.payload) = 0 /\ c.payload = <<>> /\ c.next = m.sn /\ c.modulus = mask
      /\ c \in ChainStates
      /\ ~m.first /\ key \in DOMAIN T.of =>
            c.payload = o.payload /\ c.next = o.next /\ c.modulus = o.modulus
      /\ ~m.first /\ key \notin DOMAIN T.of => c.payload = <<>> /\ c.next = m.sn
  <2> HIDE DEF mask, w, c
  <2> DEFINE b == Chain(F, w, key, mask)
  <2>0. <<>> \in Seq(Names) /\ Len(<<>>) = 0
    OBVIOUS
  <2>1. b \in ChainStates
    <3>1. CASE key \in DOMAIN T.of
      <4>1. o \in ChainStates
        BY <1>5, <3>1
      <4>2. b = [o EXCEPT !.age = 0]
        BY <1>8, <3>1
      <4> HIDE DEF o, b
      <4> QED
        BY <4>1, <4>2 DEF ChainStates
    <3>2. CASE key \notin DOMAIN T.of
      <4>1. b = [next |-> -1, modulus |-> mask, payload |-> <<>>, age |-> 0]
        BY <1>8, <3>2 DEF NewChain, NoSn
      <4> HIDE DEF b
      <4> QED
        BY <1>3, <2>0, <4>1 DEF ChainStates
    <3> QED
      BY <3>1, <3>2
  <2>2. key \in DOMAIN T.of =>
          b.payload = o.payload /\ b.next = o.next /\ b.modulus = o.modulus /\ o.next # NoSn
    <3> SUFFICES ASSUME key \in DOMAIN T.of
                 PROVE  b.payload = o.payload /\ b.next = o.next /\ b.modulus = o.modulus
                        /\ o.next # NoSn
      OBVIOUS
    <3>1. o \in ChainStates /\ ChainWhole(key, o)
      BY <1>5
    <3>2. PICK a \in Fragments(wire, f) : o.next = (a.sn + 1) % o.modulus
      BY <3>1 DEF ChainWhole
    <3>3. a.sn \in Nat /\ o.modulus \in Nat \ {0}
      BY <1>2, <3>1, FragmentFacts DEF ChainStates
    <3> HIDE DEF o
    <3>4. o.next \in Nat
      BY <3>2, <3>3
    <3> QED
      BY <1>8, <3>1, <3>4 DEF ChainStates, NoSn, o
  <2>3. key \notin DOMAIN T.of => b.payload = <<>> /\ b.next = NoSn
    BY <1>8 DEF NewChain
  <2>4. c = IF m.first THEN [b EXCEPT !.payload = <<>>, !.next = m.sn, !.modulus = mask]
            ELSE IF b.next = NoSn THEN [b EXCEPT !.next = m.sn] ELSE b
    BY <1>7
  <2> HIDE DEF b, o
  <2>5. CASE m.first
    <3>1. c = [b EXCEPT !.payload = <<>>, !.next = m.sn, !.modulus = mask]
      BY <2>4, <2>5
    <3>2. c.payload = <<>> /\ c.next = m.sn /\ c.modulus = mask /\ c \in ChainStates
      <4>1. m.sn \in Int /\ <<>> \in Seq(Names)
        BY <1>1, <2>0
      <4>2. /\ b = [next |-> b.next, modulus |-> b.modulus, payload |-> b.payload, age |-> b.age]
            /\ b.age \in Nat
        BY <2>1 DEF ChainStates
      <4>3. c = [next |-> m.sn, modulus |-> mask, payload |-> <<>>, age |-> b.age]
        BY <3>1, <4>2
      <4>4. c.payload = <<>> /\ c.next = m.sn /\ c.modulus = mask
        BY <4>3
      <4>5. c \in ChainStates
        BY <1>3, <4>1, <4>2, <4>3 DEF ChainStates
      <4> QED
        BY <4>4, <4>5
    <3>3. Len(c.payload) = 0
      BY <2>0, <3>2
    <3> QED
      BY <2>5, <3>2, <3>3
  <2>6. CASE ~m.first /\ key \in DOMAIN T.of
    BY <2>1, <2>2, <2>4, <2>6
  <2>7. CASE ~m.first /\ key \notin DOMAIN T.of
    BY <1>1, <2>1, <2>3, <2>4, <2>7 DEF ChainStates
  <2> QED
    BY <2>5, <2>6, <2>7
<1>10. c.payload \in Seq(Names) /\ Len(c.payload) \in Nat /\ c.modulus \in {W.modulus, SnModulus}
  <2>1. c.payload \in Seq(Names) /\ c.modulus \in {W.modulus, SnModulus}
    BY <1>9 DEF ChainStates
  <2> QED
    BY <2>1, LenProperties
<1>11. /\ d \in ChainStates /\ d.payload = Append(c.payload, p) /\ d.modulus = c.modulus
       /\ d.next = (m.sn + 1) % d.modulus
  <2>1. d = [c EXCEPT !.payload = Append(@, p), !.next = (m.sn + 1) % c.modulus]
    BY DEF ExtendChain
  <2>2. Append(c.payload, p) \in Seq(Names) /\ (m.sn + 1) % c.modulus \in Int
    BY <1>1, <1>2, <1>10, AppendProperties
  <2>3. c \in ChainStates
    BY <1>9
  <2> HIDE DEF c, d, p
  <2> QED
    BY <2>1, <2>2, <2>3 DEF ChainStates
<1>12. Len(d.payload) = Len(c.payload) + 1 /\ d.payload # <<>> /\ Last(d.payload) = p
  <2> HIDE DEF c, d, p
  <2>1. /\ Len(Append(c.payload, p)) = Len(c.payload) + 1 /\ Append(c.payload, p) # <<>>
        /\ Append(c.payload, p)[Len(c.payload) + 1] = p
    BY <1>1, <1>10, AppendProperties
  <2> QED
    BY <1>11, <2>1 DEF Last
\* What the chain under the key, if any, was last extended by.
<1>13. ASSUME key \in DOMAIN T.of
       PROVE  /\ Successive(o.payload) /\ o.payload # <<>> /\ o.modulus \in {W.modulus, SnModulus}
              /\ \E a \in Fragments(wire, f) :
                   /\ a.channel = m.channel /\ a.more /\ ~a.drop
                   /\ Last(o.payload) = <<a.id, a.piece>> /\ o.next = (a.sn + 1) % o.modulus
  BY <1>5, <1>13 DEF ChainWhole, ChainStates
<1>14. c.next = m.sn => Successive(d.payload)
  <2> SUFFICES ASSUME c.next = m.sn PROVE Successive(d.payload)
    OBVIOUS
  <2>1. CASE m.first \/ key \notin DOMAIN T.of
    <3>1. c.payload = <<>>
      BY <1>9, <2>1
    <3>2. Successive(<<>>)
      BY DEF Successive
    <3>3. d.payload = Append(c.payload, p) /\ p \in Names /\ c.payload \in Seq(Names)
      BY <1>1, <1>10, <1>11
    <3> HIDE DEF c, d, p
    <3>4. Successive(c.payload) /\ ~(c.payload # <<>>)
      BY <3>1, <3>2
    <3>5. Successive(Append(c.payload, p))
      BY <3>3, <3>4, SuccessiveAppend
    <3> QED
      BY <3>3, <3>5
  <2>2. CASE ~m.first /\ key \in DOMAIN T.of
    <3>1. c.payload = o.payload /\ c.next = o.next /\ c.modulus = o.modulus
      BY <1>9, <2>2
    <3>2. PICK a \in Fragments(wire, f) :
             /\ a.channel = m.channel /\ a.more /\ ~a.drop
             /\ Last(o.payload) = <<a.id, a.piece>> /\ o.next = (a.sn + 1) % o.modulus
      BY <1>13, <2>2
    <3>3. a.sn \in Nat /\ a.sn < W.modulus
      BY FragmentFacts
    <3>4. m.sn = (a.sn + 1) % W.modulus
      <4>1. m.sn = (a.sn + 1) % o.modulus /\ o.modulus \in {W.modulus, SnModulus}
        BY <1>13, <2>2, <3>1, <3>2
      <4> HIDE DEF o
      <4> QED
        BY <1>1, <1>2, <3>3, <4>1, NextNumber
    <3>5. m.id = a.id /\ m.piece = a.piece + 1
      BY <3>2, <3>4, NextFragment
    <3>6. p = <<Last(o.payload)[1], Last(o.payload)[2] + 1>>
      BY <3>2, <3>5
    <3>7. Successive(o.payload)
      BY <1>13, <2>2
    <3> HIDE DEF c, d, p, o
    <3> QED
      BY <1>1, <1>10, <1>11, <3>1, <3>6, <3>7, SuccessiveAppend
  <2> QED
    BY <2>1, <2>2
\* The run goes on only with the piece that the chain expects.
<1>15. r \in Runs /\ (r.pieces # <<>> =>
          c.next = m.sn /\ d.payload = r.pieces /\ (r.exact => d.modulus = W.modulus))
  <2>1. CASE m.first
    <3>1. r = [pieces |-> <<p>>, exact |-> mask = W.modulus]
      BY <2>1 DEF ExtendRun
    <3>2. c.payload = <<>> /\ c.next = m.sn /\ c.modulus = mask
      BY <1>9, <2>1
    <3>3. <<p>> \in Seq(Names) /\ Append(<<>>, p) = <<p>>
      BY <1>1
    <3> HIDE DEF c, d, p, mask, r
    <3>4. r.pieces = <<p>> /\ r.exact = (mask = W.modulus) /\ r \in Runs
      BY <3>1, <3>3 DEF Runs
    <3> QED
      BY <1>11, <3>2, <3>3, <3>4
  <2>2. CASE ~m.first /\ old.pieces # <<>>
             /\ p = <<Last(old.pieces)[1], Last(old.pieces)[2] + 1>>
             /\ (old.exact \/ m.sn # 0)
    <3>1. r = [old EXCEPT !.pieces = Append(@, p)]
      BY <2>2 DEF ExtendRun
    <3>2. r \in Runs /\ r.pieces = Append(old.pieces, p) /\ r.exact = old.exact
      <4>1. old.pieces \in Seq(Names)
        BY <1>6 DEF Runs
      <4>2. Append(old.pieces, p) \in Seq(Names)
        BY <1>1, <4>1, AppendProperties
      <4> HIDE DEF p, r, old
      <4> QED
        BY <1>6, <3>1, <4>2 DEF Runs
    <3>3. m.id = Last(old.pieces)[1] /\ m.piece = Last(old.pieces)[2] + 1
      BY <2>2
    <3>4. ~RunDone(F, key)
      <4> SUFFICES ASSUME RunDone(F, key) PROVE FALSE
        OBVIOUS
      <4>1. Last(old.pieces)[2] = W.pieces[Last(old.pieces)[1]]
        BY DEF RunDone
      <4>2. m.piece = W.pieces[m.id] + 1
        BY <3>3, <4>1
      <4> QED
        BY <1>1, <4>2
    <3>5. key \in DOMAIN T.of /\ o.payload = old.pieces /\ (old.exact => o.modulus = W.modulus)
      BY <1>6, <2>2, <3>4 DEF RunWhole, RunOpen
    <3>6. c.payload = o.payload /\ c.next = o.next /\ c.modulus = o.modulus
      BY <1>9, <2>2, <3>5
    <3>7. PICK a \in Fragments(wire, f) :
             /\ a.channel = m.channel /\ a.more /\ ~a.drop
             /\ Last(o.payload) = <<a.id, a.piece>> /\ o.next = (a.sn + 1) % o.modulus
      BY <1>13, <3>5
    <3>8. m.id = a.id /\ m.piece = a.piece + 1
      BY <3>3, <3>5, <3>7
    <3>9. m.sn = (a.sn + 1) % W.modulus /\ a.sn \in Nat /\ a.sn < W.modulus
      BY <3>7, <3>8, NextFragment
    <3>10. m.sn = (a.sn + 1) % o.modulus
      <4>1. o.modulus \in {W.modulus, SnModulus} /\ (o.modulus = W.modulus \/ m.sn # 0)
        BY <1>13, <2>2, <3>5
      <4> HIDE DEF o
      <4> QED
        BY <1>1, <1>2, <3>9, <4>1, NextNumber
    <3> HIDE DEF c, d, p, o, r, old
    <3> QED
      BY <1>11, <3>2, <3>5, <3>6, <3>7, <3>10
  <2>3. CASE ~m.first /\ ~(old.pieces # <<>>
             /\ p = <<Last(old.pieces)[1], Last(old.pieces)[2] + 1>>
             /\ (old.exact \/ m.sn # 0))
    <3>1. r = NoRun
      BY <2>3 DEF ExtendRun
    <3> HIDE DEF r
    <3> QED
      BY <3>1, NoRunIs
  <2> QED
    BY <2>1, <2>2, <2>3
<1> QED
  BY <1>9, <1>11, <1>12, <1>14, <1>15

\* A fragment with more to come is parked with its chain.
LEMMA ParkKeeps ==
    ASSUME wire \in DOMAIN Wires, NEW F, FragOK(F), NEW f \in Flows, NEW m \in Fragments(wire, f),
           m.more, ~m.drop,
           <<f, m.channel>> \notin DOMAIN F.chains[Host(f)].of,
           Cardinality(DOMAIN F.chains[Host(f)].of) < Capacity,
           NEW d \in ChainStates, Successive(d.payload), d.payload # <<>>,
           Last(d.payload) = <<m.id, m.piece>>, d.next = (m.sn + 1) % d.modulus,
           NEW r \in Runs,
           r.pieces # <<>> => d.payload = r.pieces /\ (r.exact => d.modulus = W.modulus),
           F.used + Len(d.payload) <= Budget
    PROVE  FragOK([[F EXCEPT !.run[<<f, m.channel>>] = r]
                     EXCEPT !.chains[Host(f)] = Put(@, <<f, m.channel>>, d),
                            !.used = F.used + Len(d.payload)])
<1> DEFINE w   == Host(f)
           key == <<f, m.channel>>
           u   == F.used + Len(d.payload)
           T   == Put(F.chains[w], key, d)
           c   == [F.chains EXCEPT ![w] = T]
           n   == [F.run EXCEPT ![key] = r]
           R   == [[F EXCEPT !.run[key] = r] EXCEPT !.chains[w] = Put(@, key, d), !.used = u]
<1>1. /\ F = [chains |-> F.chains, resolutions |-> F.resolutions, used |-> F.used,
              handed |-> F.handed, run |-> F.run]
      /\ F.chains \in [Workers -> Tables(FragmentKeys, ChainStates)]
      /\ F.resolutions \in [Workers -> Tables(Flows, {W.modulus})]
      /\ F.used \in Int /\ F.handed \in SUBSET Seq(Names) /\ F.run \in [FragmentKeys -> Runs]
      /\ \A v \in Workers : ChainTable(F.chains[v]) /\ ResolutionTable(F.resolutions[v])
      /\ F.used = Cardinality(Held(F)) /\ F.used <= Budget
  BY FragParts DEF FragOK
<1>2. w \in Workers /\ Capacity \in Nat /\ key \in FragmentKeys
  BY WireFacts, FragmentFacts
<1>3. R = [chains |-> c, resolutions |-> F.resolutions, used |-> u, handed |-> F.handed,
           run |-> n]
  <2>1. R = [F EXCEPT !.chains = c, !.used = u, !.run = n]
    <3> HIDE DEF u
    <3> QED
      BY <1>1, <1>2
  <2> HIDE DEF R, c, u, n
  <2> QED
    BY <1>1, <2>1
<1>4. ChainTable(F.chains[w])
  BY <1>1, <1>2
<1>5. /\ ChainTable(T) /\ DOMAIN T.of = DOMAIN F.chains[w].of \cup {key} /\ T.of[key] = d
      /\ \A j \in DOMAIN F.chains[w].of : j # key => T.of[j] = F.chains[w].of[j]
  BY <1>2, <1>4, PutKeeps DEF ChainTable
<1>6. T \in Tables(FragmentKeys, ChainStates)
  BY <1>5 DEF ChainTable, TableExact
<1>7. R.chains = c /\ R.run = n /\ R.handed = F.handed /\ R.used = u
  BY <1>3
<1>8. R.chains = [F.chains EXCEPT ![w] = Put(F.chains[w], key, d)]
  BY <1>7
<1> HIDE DEF T
<1>9. /\ c \in [Workers -> Tables(FragmentKeys, ChainStates)] /\ c[w] = T
      /\ \A v \in Workers : v # w => c[v] = F.chains[v]
  BY <1>1, <1>2, <1>6
<1>10. \A v \in Workers : ChainTable(c[v])
  BY <1>1, <1>5, <1>9
<1>11. n \in [FragmentKeys -> Runs] /\ n[key] = r /\ \A j \in FragmentKeys : j # key => n[j] = F.run[j]
  BY <1>1, <1>2
<1> HIDE DEF R, c, n, key
<1>12. Cardinality(Held(R)) = Cardinality(Held(F)) + Len(d.payload)
  <2>1. F.chains \in [Workers -> Tables(FragmentKeys, ChainStates)]
    BY <1>1
  <2>2. \A v \in Workers : ChainTable(F.chains[v])
    BY <1>1
  <2>3. key \notin DOMAIN F.chains[w].of /\ Cardinality(DOMAIN F.chains[w].of) < Capacity
    BY DEF key
  <2> HIDE DEF w
  <2> QED
    BY <1>2, <1>8, <2>1, <2>2, <2>3, HeldWith
<1>13. Len(d.payload) \in Nat
  <2>1. d.payload \in Seq(Names)
    BY DEF ChainStates
  <2> QED
    BY <2>1, LenProperties
<1>14. u \in Int /\ u = Cardinality(Held(R)) /\ u <= Budget
  BY <1>1, <1>12, <1>13
<1> HIDE DEF u
<1>15. FragExact(R)
  BY <1>1, <1>3, <1>9, <1>10, <1>11, <1>14, IsFragExact
<1>16. ChainWhole(key, d)
  <2>1. key[1] = f /\ key[2] = m.channel
    BY DEF key
  <2> QED
    BY <2>1 DEF ChainWhole
<1>17. ASSUME NEW v \in Workers, NEW k \in DOMAIN R.chains[v].of
       PROVE  ChainWhole(k, R.chains[v].of[k])
  <2>1. CASE v # w
    <3>1. R.chains[v] = F.chains[v]
      BY <1>7, <1>9, <2>1
    <3> QED
      BY <1>17, <3>1 DEF FragOK, FragWhole
  <2>2. CASE v = w /\ k = key
    BY <1>5, <1>7, <1>9, <1>16, <2>2
  <2>3. CASE v = w /\ k # key
    <3>1. k \in DOMAIN F.chains[w].of /\ R.chains[w].of[k] = F.chains[w].of[k]
      BY <1>5, <1>7, <1>9, <1>17, <2>3
    <3> QED
      BY <1>2, <2>3, <3>1 DEF FragOK, FragWhole
  <2> QED
    BY <2>1, <2>2, <2>3
<1>18. ASSUME NEW k \in FragmentKeys PROVE RunWhole(R, k)
  <2>1. CASE k = key
    <3>1. R.run[k] = r
      BY <1>7, <1>11, <2>1
    <3>2. key \in DOMAIN R.chains[w].of /\ R.chains[w].of[key] = d
      BY <1>5, <1>7, <1>9
    <3>3. Host(k[1]) = w
      BY <2>1 DEF key
    <3>4. r.pieces # <<>> => RunOpen(R, k)
      BY <2>1, <3>1, <3>2, <3>3 DEF RunOpen
    <3> QED
      BY <3>1, <3>4 DEF RunWhole
  <2>2. CASE k # key
    <3>1. RunWhole(F, k) /\ R.run[k] = F.run[k]
      BY <1>7, <1>11, <2>2 DEF FragOK, FragWhole
    <3>2. ASSUME k \in DOMAIN F.chains[Host(k[1])].of
          PROVE  /\ k \in DOMAIN R.chains[Host(k[1])].of
                 /\ R.chains[Host(k[1])].of[k] = F.chains[Host(k[1])].of[k]
      <4>1. CASE Host(k[1]) = w
        <5>1. R.chains[w] = T
          BY <1>7, <1>9
        <5>2. k \in DOMAIN F.chains[w].of
          BY <3>2, <4>1
        <5>3. k \in DOMAIN T.of /\ T.of[k] = F.chains[w].of[k]
          BY <1>5, <2>2, <5>2
        <5> QED
          BY <4>1, <5>1, <5>3
      <4>2. CASE Host(k[1]) # w
        <5>1. R.chains[Host(k[1])] = F.chains[Host(k[1])]
          BY <1>1, <1>8, <4>2
        <5> QED
          BY <3>2, <5>1
      <4> QED
        BY <4>1, <4>2
    <3>3. RunOpen(F, k) => RunOpen(R, k)
      BY <3>1, <3>2 DEF RunOpen
    <3>4. RunDone(F, k) => RunDone(R, k)
      BY <1>7, <3>1 DEF RunDone
    <3> QED
      BY <3>1, <3>3, <3>4 DEF RunWhole
  <2> QED
    BY <2>1, <2>2
<1>19. FragWhole(R)
  BY <1>7, <1>17, <1>18 DEF FragOK, FragWhole, HandedWhole
<1> QED
  BY <1>15, <1>19 DEF FragOK, R, u, key

\* The last fragment hands its chain to the decoder.
LEMMA HandKeeps ==
    ASSUME wire \in DOMAIN Wires, NEW F, FragOK(F), NEW f \in Flows, NEW m \in Fragments(wire, f),
           ~m.more, ~m.drop,
           NEW d \in ChainStates, Successive(d.payload), d.payload # <<>>,
           Last(d.payload) = <<m.id, m.piece>>,
           NEW r \in Runs, r.pieces # <<>> => d.payload = r.pieces
    PROVE  FragOK([[F EXCEPT !.run[<<f, m.channel>>] = r]
                     EXCEPT !.handed = @ \cup {d.payload}])
<1> DEFINE key == <<f, m.channel>>
           p   == d.payload
           h   == F.handed \cup {p}
           n   == [F.run EXCEPT ![key] = r]
           R   == [[F EXCEPT !.run[key] = r] EXCEPT !.handed = @ \cup {p}]
<1>1. /\ F = [chains |-> F.chains, resolutions |-> F.resolutions, used |-> F.used,
              handed |-> F.handed, run |-> F.run]
      /\ F.chains \in [Workers -> Tables(FragmentKeys, ChainStates)]
      /\ F.resolutions \in [Workers -> Tables(Flows, {W.modulus})]
      /\ F.used \in Int /\ F.handed \in SUBSET Seq(Names) /\ F.run \in [FragmentKeys -> Runs]
      /\ \A v \in Workers : ChainTable(F.chains[v]) /\ ResolutionTable(F.resolutions[v])
      /\ F.used = Cardinality(Held(F)) /\ F.used <= Budget
  BY FragParts DEF FragOK
<1>2. key \in FragmentKeys
  BY FragmentFacts
<1>3. R = [chains |-> F.chains, resolutions |-> F.resolutions, used |-> F.used, handed |-> h,
           run |-> n]
  <2>1. R = [F EXCEPT !.handed = h, !.run = n]
    BY <1>1, <1>2
  <2> HIDE DEF R, h, n
  <2> QED
    BY <1>1, <2>1
<1>4. R.chains = F.chains /\ R.run = n /\ R.handed = h
  BY <1>3
<1>5. p \in Seq(Names)
  BY DEF ChainStates
<1>6. h \in SUBSET Seq(Names)
  BY <1>1, <1>5
<1>7. n \in [FragmentKeys -> Runs] /\ n[key] = r /\ \A j \in FragmentKeys : j # key => n[j] = F.run[j]
  BY <1>1, <1>2
<1> HIDE DEF R, n
<1>8. Held(R) = Held(F)
  BY <1>4 DEF Held
<1>9. FragExact(R)
  BY <1>1, <1>3, <1>6, <1>7, <1>8, IsFragExact
<1>10. m.piece = W.pieces[m.id]
  <2>1. /\ {m.first, m.more, m.drop} \subseteq BOOLEAN /\ m.piece \in Nat \ {0}
        /\ m.piece <= W.pieces[m.id] /\ W.pieces[m.id] \in Nat \ {0}
        /\ ~m.drop => (m.more <=> m.piece < W.pieces[m.id])
    BY FragmentFacts
  <2>2. ~(m.piece < W.pieces[m.id])
    BY <2>1
  <2> QED
    BY <2>1, <2>2
<1>11. p[1][2] = 1 => p \in WholeMessages
  <2> HIDE DEF p
  <2> QED
    BY <1>5, <1>10, SuccessiveWhole DEF p
<1>12. HandedWhole(R)
  BY <1>4, <1>11 DEF FragOK, FragWhole, HandedWhole
<1>13. ASSUME NEW k \in FragmentKeys PROVE RunWhole(R, k)
  <2>1. CASE k = key
    <3>1. R.run[k] = r
      BY <1>4, <1>7, <2>1
    <3>2. Last(p)[2] = W.pieces[Last(p)[1]]
      BY <1>10
    <3>3. r.pieces # <<>> => r.pieces \in R.handed /\ Last(r.pieces)[2] = W.pieces[Last(r.pieces)[1]]
      BY <1>4, <3>2
    <3> QED
      BY <3>1, <3>3 DEF RunWhole, RunDone
  <2>2. CASE k # key
    <3>1. RunWhole(F, k) /\ R.run[k] = F.run[k]
      BY <1>4, <1>7, <2>2 DEF FragOK, FragWhole
    <3> HIDE DEF key
    <3> QED
      BY <1>4, <3>1 DEF RunWhole, RunOpen, RunDone
  <2> QED
    BY <2>1, <2>2
<1>14. FragWhole(R)
  BY <1>4, <1>12, <1>13 DEF FragOK, FragWhole
<1> QED
  BY <1>9, <1>14 DEF FragOK, R

\* A fragment and its chain, when there is room for it.
LEMMA ContinueKeeps ==
    ASSUME wire \in DOMAIN Wires, NEW F, FragOK(F), NEW f \in Flows, NEW m \in Fragments(wire, f),
           ~m.drop,
           \/ <<f, m.channel>> \in DOMAIN F.chains[Host(f)].of
           \/ Cardinality(DOMAIN F.chains[Host(f)].of) < Capacity
    PROVE  FragOK(ContinueChain(F, Host(f), f, m))
<1> DEFINE w    == Host(f)
           key  == <<f, m.channel>>
           c    == OpenChain(F, w, key, m, SnMask(F, w, f))
           d    == ExtendChain(c, m)
           E    == RemoveChain(F, w, key)
           r    == ExtendRun(F, w, f, m)
           used == E.used + Len(c.payload)
           over == Len(d.payload) > ChainBytes \/ used + 1 > Budget
           I    == [E EXCEPT !.run[key] = IF over THEN NoRun ELSE r]
<1>1. ContinueChain(F, w, f, m) =
        IF c.next # m.sn \/ over THEN I
        ELSE IF m.more THEN [I EXCEPT !.chains[w] = Put(@, key, d), !.used = used + 1]
        ELSE [I EXCEPT !.handed = @ \cup {d.payload}]
  BY DEF ContinueChain
<1>2. w \in Workers /\ Capacity \in Nat \ {0} /\ key \in FragmentKeys
  BY WireFacts, FragmentFacts
<1>3. TableExact(F.chains[w], FragmentKeys, ChainStates)
  BY <1>2, FragParts DEF FragOK, ChainTable
<1>4. FragOK(E) /\ E.chains[w] = TakeOut(F.chains[w], {key} \cap DOMAIN F.chains[w].of)
  <2>1. w \in Workers /\ Capacity \in Nat
    BY <1>2
  <2> HIDE DEF w, key
  <2>2. FragOK(RemoveChains(F, w, {key}))
    BY <2>1, RemoveChainsKeeps
  <2>3. RemoveChains(F, w, {key}).chains[w]
          = TakeOut(F.chains[w], {key} \cap DOMAIN F.chains[w].of)
    BY <2>1, RemoveChainsTable
  <2> QED
    BY <2>2, <2>3 DEF RemoveChain
<1>5. DOMAIN E.chains[w].of = DOMAIN F.chains[w].of \ {key}
  <2> DEFINE K == {key} \cap DOMAIN F.chains[w].of
  <2>1. DOMAIN TakeOut(F.chains[w], K).of = DOMAIN F.chains[w].of \ K
    BY <1>2, <1>3, TakeOutKeeps
  <2> HIDE DEF E
  <2> QED
    BY <1>4, <2>1
<1> HIDE DEF E
<1>6. key \notin DOMAIN E.chains[w].of /\ Cardinality(DOMAIN E.chains[w].of) < Capacity
  <2> DEFINE D == DOMAIN F.chains[w].of
  <2>1. IsFiniteSet(D) /\ Cardinality(D) \in Nat /\ Cardinality(D) <= Capacity
    BY <1>3, TableForm
  <2>2. Cardinality(D \ {key}) = IF key \in D THEN Cardinality(D) - 1 ELSE Cardinality(D)
    <3> HIDE DEF D
    <3> QED
      BY <2>1, FS_RemoveElement
  <2>3. key \in D \/ Cardinality(D) < Capacity
    OBVIOUS
  <2>4. DOMAIN E.chains[w].of = D \ {key}
    BY <1>5
  <2> HIDE DEF D, key
  <2> QED
    BY <1>2, <2>1, <2>2, <2>3, <2>4
<1>7. /\ c \in ChainStates /\ d \in ChainStates /\ r \in Runs
      /\ Len(d.payload) = Len(c.payload) + 1
      /\ d.payload # <<>> /\ Last(d.payload) = <<m.id, m.piece>>
      /\ d.next = (m.sn + 1) % d.modulus
      /\ c.next = m.sn => Successive(d.payload)
      /\ r.pieces # <<>> =>
           /\ c.next = m.sn /\ d.payload = r.pieces
           /\ r.exact => d.modulus = W.modulus
  BY ExtendForm
<1>8. Len(c.payload) \in Nat /\ E.used \in Int
  <2>1. c.payload \in Seq(Names)
    BY <1>7 DEF ChainStates
  <2>2. E.used \in Int
    BY <1>4, FragParts DEF FragOK
  <2> QED
    BY <2>1, <2>2, LenProperties
<1> HIDE DEF c, d, r
<1>9. CASE (c.next # m.sn \/ over)
  <2> DEFINE q == IF over THEN NoRun ELSE r
  <2>1. q \in Runs /\ q.pieces = <<>>
    BY <1>7, <1>9, NoRunIs
  <2>2. ContinueChain(F, w, f, m) = [E EXCEPT !.run[key] = q]
    BY <1>1, <1>9
  <2> HIDE DEF q, key, w
  <2> QED
    BY <1>2, <1>4, <2>1, <2>2, SetRun DEF w
<1>10. CASE c.next = m.sn /\ ~over
  <2>1. I = [E EXCEPT !.run[key] = r]
    BY <1>10
  <2>2. /\ Successive(d.payload)
        /\ r.pieces # <<>> => d.payload = r.pieces /\ (r.exact => d.modulus = W.modulus)
    BY <1>7, <1>10
  <2>3. CASE m.more
    <3>1. used + 1 = E.used + Len(d.payload)
      BY <1>7, <1>8
    <3>2. E.used + Len(d.payload) <= Budget
      <4>1. Budget \in Nat
        BY TransportAssumption
      <4> QED
        BY <1>7, <1>8, <1>10, <4>1
    <3>3. ContinueChain(F, w, f, m) =
            [[E EXCEPT !.run[key] = r]
               EXCEPT !.chains[w] = Put(@, key, d), !.used = E.used + Len(d.payload)]
      BY <1>1, <1>10, <2>1, <2>3, <3>1
    <3>4. /\ key \notin DOMAIN E.chains[w].of /\ Cardinality(DOMAIN E.chains[w].of) < Capacity
          /\ d \in ChainStates /\ d.payload # <<>> /\ Last(d.payload) = <<m.id, m.piece>>
          /\ d.next = (m.sn + 1) % d.modulus /\ r \in Runs /\ FragOK(E) /\ ~m.drop
      BY <1>4, <1>6, <1>7, <1>10
    <3> HIDE DEF used, over, I
    <3>5. FragOK([[E EXCEPT !.run[key] = r]
               EXCEPT !.chains[w] = Put(@, key, d), !.used = E.used + Len(d.payload)])
      BY <2>2, <2>3, <3>2, <3>4, ParkKeeps
    <3> HIDE DEF w, key
    <3> QED
      BY <3>3, <3>5 DEF w
  <2>4. CASE ~m.more
    <3>1. ContinueChain(F, w, f, m) =
            [[E EXCEPT !.run[key] = r] EXCEPT !.handed = @ \cup {d.payload}]
      BY <1>1, <1>10, <2>1, <2>4
    <3>2. /\ d \in ChainStates /\ d.payload # <<>> /\ Last(d.payload) = <<m.id, m.piece>>
          /\ r \in Runs /\ FragOK(E) /\ ~m.drop
      BY <1>4, <1>7, <1>10
    <3> HIDE DEF used, over, I
    <3>3. FragOK([[E EXCEPT !.run[key] = r] EXCEPT !.handed = @ \cup {d.payload}])
      BY <2>2, <2>4, <3>2, HandKeeps
    <3> HIDE DEF w, key
    <3> QED
      BY <3>1, <3>3 DEF w
  <2> QED
    BY <2>3, <2>4
<1> QED
  BY <1>9, <1>10

\* accept_fragment.
LEMMA AcceptKeeps ==
    ASSUME wire \in DOMAIN Wires, NEW F, FragOK(F), NEW f \in Flows, NEW m \in Fragments(wire, f)
    PROVE  FragOK(AcceptFragment(F, Host(f), f, m))
<1> DEFINE w   == Host(f)
           key == <<f, m.channel>>
           G   == TouchResolution(F, w, f)
           O   == Oldest(G.chains[w], key)
           H   == RemoveChains(G, w, O)
<1>1. AcceptFragment(F, w, f, m) =
        IF m.drop THEN RemoveChain(G, w, key) ELSE ContinueChain(H, w, f, m)
  BY DEF AcceptFragment
<1>2. w \in Workers /\ Capacity \in Nat \ {0} /\ key \in FragmentKeys
  BY WireFacts, FragmentFacts
<1>3. FragOK(G)
  BY <1>2, TouchKeeps
<1>4. FragOK(RemoveChain(G, w, key))
  BY <1>2, <1>3, RemoveChainsKeeps DEF RemoveChain
<1>5. TableExact(G.chains[w], FragmentKeys, ChainStates)
  BY <1>2, <1>3, FragParts DEF FragOK, ChainTable
<1>6. O \cap DOMAIN G.chains[w].of = O
  <2>1. CASE O = {}
    BY <2>1
  <2>2. CASE O # {}
    <3> DEFINE T == G.chains[w]
    <3>1. O = {Head(T.order)} /\ Cardinality(DOMAIN T.of) >= Capacity
      BY <2>2 DEF Oldest
    <3>2. /\ T.order \in Seq(FragmentKeys) /\ QueueExact(T.order, DOMAIN T.of)
          /\ IsFiniteSet(DOMAIN T.of) /\ Cardinality(DOMAIN T.of) \in Nat
      BY <1>5, TableForm
    <3>3. Head(T.order) \in DOMAIN T.of
      <4> HIDE DEF T, O
      <4>1. DOMAIN T.of # {}
        BY <1>2, <3>1, <3>2, FS_EmptySet
      <4>2. T.order # <<>>
        BY <3>2, <4>1, QueueForm
      <4> QED
        BY <3>2, <4>2, QueueTail
    <3> QED
      BY <3>1, <3>3
  <2> QED
    BY <2>1, <2>2
<1> DEFINE U == TakeOut(G.chains[w], O)
<1>7. key \in DOMAIN U.of \/ Cardinality(DOMAIN U.of) < Capacity
  <2> HIDE DEF G, key
  <2> QED
    BY <1>2, <1>5, OldestMakesRoom
<1>8. FragOK(H) /\ H.chains[w] = U
  <2>1. w \in Workers /\ Capacity \in Nat /\ FragOK(G)
    BY <1>2, <1>3
  <2> HIDE DEF G, O, w, key
  <2>2. FragOK(RemoveChains(G, w, O))
    BY <2>1, RemoveChainsKeeps
  <2>3. RemoveChains(G, w, O).chains[w] = TakeOut(G.chains[w], O \cap DOMAIN G.chains[w].of)
    BY <2>1, RemoveChainsTable
  <2> QED
    BY <1>6, <2>2, <2>3
<1> HIDE DEF U, O, G, H
<1>9. CASE m.drop
  BY <1>1, <1>4, <1>9
<1>10. CASE ~m.drop
  <2>1. key \in DOMAIN H.chains[w].of \/ Cardinality(DOMAIN H.chains[w].of) < Capacity
    BY <1>7, <1>8
  <2>2. FragOK(ContinueChain(H, w, f, m))
    BY <1>8, <1>10, <2>1, ContinueKeeps
  <2> QED
    BY <1>1, <1>10, <2>2
<1> QED
  BY <1>9, <1>10

\* expand_fragments.
LEMMA ExpandMessageKeeps ==
    ASSUME wire \in DOMAIN Wires, NEW F, FragOK(F), NEW f \in Flows, NEW m \in ToSet(Stream(f))
    PROVE  FragOK(ExpandMessage(F, Host(f), f, m))
<1>1. Host(f) \in Workers /\ (m.kind \in {"initack", "join"} => m.modulus = W.modulus)
  BY WireFacts
<1>2. ReverseFlow[f] \in Flows
  BY TransportAssumption
<1>3. CASE m.kind = "initack"
  <2>1. ExpandMessage(F, Host(f), f, m)
          = RememberDirection(RememberDirection(F, Host(f), f, W.modulus), Host(f),
                              ReverseFlow[f], W.modulus)
    BY <1>1, <1>3 DEF ExpandMessage
  <2>2. FragOK(RememberDirection(F, Host(f), f, W.modulus))
    BY <1>1, RememberKeeps
  <2> QED
    BY <1>1, <1>2, <2>1, <2>2, RememberKeeps
<1>4. CASE m.kind = "join"
  <2>1. ExpandMessage(F, Host(f), f, m) = RememberDirection(F, Host(f), f, W.modulus)
    BY <1>1, <1>4 DEF ExpandMessage
  <2> QED
    BY <1>1, <2>1, RememberKeeps
<1>5. CASE m.kind = "fragment"
  <2>1. m \in Fragments(wire, f)
    BY <1>5 DEF Fragments, Stream, W
  <2>2. ExpandMessage(F, Host(f), f, m) = AcceptFragment(F, Host(f), f, m)
    BY <1>5 DEF ExpandMessage
  <2> QED
    BY <2>1, <2>2, AcceptKeeps
<1>6. CASE m.kind \notin {"initack", "join", "fragment"}
  BY <1>6 DEF ExpandMessage
<1> QED
  BY <1>3, <1>4, <1>5, <1>6

\* expand_fragments, all messages: a loop.
LEMMA ExpandFragmentsKeeps ==
    ASSUME wire \in DOMAIN Wires, NEW F, FragOK(F), NEW f \in Flows,
           NEW msgs \in Seq(ToSet(Stream(f)))
    PROVE  FragOK(ExpandFragments(F, Host(f), f, msgs))
<1> DEFINE w == Host(f)
           N == Len(msgs)
           S == {X \in FragStates : FragOK(X)}
           Is(g) == g = [n \in 0 .. Len(msgs) |->
                           IF n = 0 THEN F ELSE ExpandMessage(g[n - 1], w, f, msgs[n])]
           u == CHOOSE g : Is(g)
           H == [x \in (1 .. N) \X S |-> ExpandMessage(x[2], w, f, msgs[x[1]])]
<1>1. ExpandFragments(F, w, f, msgs) = u[Len(msgs)]
  BY DEF ExpandFragments
<1>2. N \in Nat /\ \A n \in 1 .. N : msgs[n] \in ToSet(Stream(f))
  BY LenProperties
<1>3. F \in S
  BY DEF FragOK, FragExact
<1>4. ASSUME NEW n \in 1 .. N, NEW X \in S PROVE ExpandMessage(X, w, f, msgs[n]) \in S
  <2>1. FragOK(ExpandMessage(X, w, f, msgs[n]))
    BY <1>2, ExpandMessageKeeps
  <2> QED
    BY <2>1 DEF FragOK, FragExact
<1> HIDE DEF S
<1>5. /\ H \in [(1 .. N) \X S -> S]
      /\ \A n \in 1 .. N, X \in S : H[<<n, X>>] = ExpandMessage(X, w, f, msgs[n])
  BY <1>4
<1> HIDE DEF H
<1>6. PICK g \in [0 .. N -> S] : g[0] = F /\ \A n \in 1 .. N : g[n] = H[<<n, g[n - 1]>>]
  <2>1. H \in BoundedTurns(S, N)
    BY <1>5 DEF BoundedTurns
  <2>2. BoundedIterations(S, F, N, H) # {}
    BY <1>2, <1>3, <2>1, BoundedRecursion
  <2> QED
    BY <2>2 DEF BoundedIterations
<1>7. ASSUME NEW n \in 1 .. N PROVE g[n] = ExpandMessage(g[n - 1], w, f, msgs[n])
  <2>1. n - 1 \in 0 .. N
    BY <1>2
  <2> QED
    BY <1>5, <1>6, <2>1
<1>8. Is(g)
  <2>1. ASSUME NEW n \in 0 .. N
        PROVE  g[n] = IF n = 0 THEN F ELSE ExpandMessage(g[n - 1], w, f, msgs[n])
    <3>1. n # 0 => n \in 1 .. N
      OBVIOUS
    <3> QED
      BY <1>6, <1>7, <3>1
  <2> QED
    BY <1>6, <2>1
<1>9. Is(u)
  BY <1>8
<1> HIDE DEF u
<1>10. /\ u[0] = F
       /\ \A n \in 1 .. N : u[n] = ExpandMessage(u[n - 1], w, f, msgs[n])
  <2>1. ASSUME NEW n \in 0 .. N
        PROVE  u[n] = IF n = 0 THEN F ELSE ExpandMessage(u[n - 1], w, f, msgs[n])
    BY <1>9, Zenon
  <2>2. 0 \in 0 .. N /\ \A n \in 1 .. N : n \in 0 .. N /\ n # 0
    BY <1>2
  <2> HIDE DEF N
  <2> QED
    BY <2>1, <2>2
<1> HIDE DEF Is
<1>11. 0 .. N \subseteq {n \in 0 .. N : u[n] \in S}
  <2> DEFINE T == {n \in 0 .. N : u[n] \in S}
  <2>1. 0 \in T
    BY <1>2, <1>3, <1>10
  <2>2. ASSUME NEW n \in 0 .. N, n < N, n \in T PROVE n + 1 \in T
    <3>1. n + 1 \in 1 .. N /\ n + 1 \in 0 .. N /\ (n + 1) - 1 = n
      BY <1>2, <2>2
    <3>2. u[n + 1] = ExpandMessage(u[n], w, f, msgs[n + 1])
      BY <1>10, <3>1
    <3> QED
      BY <1>4, <2>2, <3>1, <3>2
  <2> HIDE DEF T
  <2>3. 0 .. N \subseteq T
    BY <1>2, <2>1, <2>2, BoundedInduction
  <2> QED
    BY <2>3 DEF T
<1>12. u[N] \in S
  BY <1>2, <1>11
<1> QED
  BY <1>1, <1>12 DEF S

----------------------------------------------------------------------------
(* The fragments' state over a step of a worker.                           *)

\* remove_tcp_flow, of chains and resolutions.
LEMMA RemoveFlowStateKeeps ==
    ASSUME wire \in DOMAIN Wires, NEW F, FragOK(F), NEW w \in Workers, NEW f \in Flows
    PROVE  FragOK(RemoveFlowState(F, w, f))
<1> DEFINE G == RemoveFlowChains(F, w, {f})
           T == G.resolutions[w]
<1>1. Capacity \in Nat
  BY WireFacts
<1>2. FragOK(G)
  BY <1>1, RemoveChainsKeeps DEF RemoveFlowChains
<1>3. TableExact(T, Flows, {W.modulus})
  BY <1>2, FragParts DEF FragOK, ResolutionTable
<1>4. RemoveFlowState(F, w, f) = [G EXCEPT !.resolutions[w] = TakeOut(T, {f})]
  BY DEF RemoveFlowState
<1> HIDE DEF T, G
<1>5. ResolutionTable(TakeOut(T, {f}))
  BY <1>1, <1>3, TakeOutKeeps DEF ResolutionTable
<1> QED
  BY <1>2, <1>4, <1>5, SetResolutions

\* The worker drops all it has.
LEMMA DropKeeps ==
    ASSUME wire \in DOMAIN Wires, NEW F, FragOK(F), NEW w \in Workers
    PROVE  FragOK([RemoveChains(F, w, FragmentKeys) EXCEPT !.resolutions[w] = NoTable])
<1>1. Capacity \in Nat
  BY WireFacts
<1>2. FragOK(RemoveChains(F, w, FragmentKeys))
  BY <1>1, RemoveChainsKeeps
<1>3. ResolutionTable(NoTable)
  BY <1>1, NoTableIs DEF ResolutionTable
<1> QED
  BY <1>2, <1>3, SetResolutions

\* A chain only gets older.
LEMMA OlderForm ==
    ASSUME NEW T, ChainTable(T)
    PROVE  /\ ChainTable(Older(T)) /\ DOMAIN Older(T).of = DOMAIN T.of
           /\ \A k \in DOMAIN T.of :
                /\ Older(T).of[k].payload = T.of[k].payload /\ Older(T).of[k].next = T.of[k].next
                /\ Older(T).of[k].modulus = T.of[k].modulus
<1> DEFINE g == [k \in DOMAIN T.of |-> OlderChain(T.of[k])]
<1>1. /\ T = [of |-> T.of, order |-> T.order] /\ DOMAIN T.of \subseteq FragmentKeys
      /\ \A k \in DOMAIN T.of : T.of[k] \in ChainStates
      /\ T.order \in Seq(FragmentKeys) /\ QueueExact(T.order, DOMAIN T.of)
      /\ Cardinality(DOMAIN T.of) <= Capacity
  BY TableForm DEF ChainTable
<1>2. Older(T) = [of |-> g, order |-> T.order]
  <2>1. Older(T) = [T EXCEPT !.of = g]
    BY DEF Older
  <2> HIDE DEF g
  <2> QED
    BY <1>1, <2>1
<1>3. ASSUME NEW k \in DOMAIN T.of
      PROVE  /\ g[k] \in ChainStates /\ g[k].payload = T.of[k].payload
             /\ g[k].next = T.of[k].next /\ g[k].modulus = T.of[k].modulus
  <2>1. T.of[k] \in ChainStates
    BY <1>1
  <2>2. Timeout \in Nat
    BY TransportAssumption
  <2> DEFINE c == T.of[k]
  <2>3. g[k] = [c EXCEPT !.age = IF @ < Timeout THEN @ + 1 ELSE @]
    BY DEF OlderChain
  <2>4. c \in ChainStates
    BY <2>1
  <2> HIDE DEF c, g
  <2>5. g[k] \in ChainStates /\ g[k].payload = c.payload /\ g[k].next = c.next /\ g[k].modulus = c.modulus
    BY <2>2, <2>3, <2>4 DEF ChainStates
  <2> QED
    BY <2>5 DEF c
<1>4. g \in [DOMAIN T.of -> ChainStates]
  BY <1>3
<1>5. Older(T).of = g /\ DOMAIN g = DOMAIN T.of
  BY <1>2
<1> HIDE DEF g
<1>6. ChainTable(Older(T))
  BY <1>1, <1>2, <1>4, IsTable DEF ChainTable
<1> QED
  BY <1>3, <1>5, <1>6

\* Time goes on: all chains get older.
LEMMA TickKeeps ==
    ASSUME wire \in DOMAIN Wires, NEW F, FragOK(F)
    PROVE  FragOK([F EXCEPT !.chains = [w \in Workers |-> Older(@[w])]])
<1> DEFINE c == [w \in Workers |-> Older(F.chains[w])]
           R == [F EXCEPT !.chains = c]
<1>1. /\ F = [chains |-> F.chains, resolutions |-> F.resolutions, used |-> F.used,
              handed |-> F.handed, run |-> F.run]
      /\ F.chains \in [Workers -> Tables(FragmentKeys, ChainStates)]
      /\ F.resolutions \in [Workers -> Tables(Flows, {W.modulus})]
      /\ F.used \in Int /\ F.handed \in SUBSET Seq(Names) /\ F.run \in [FragmentKeys -> Runs]
      /\ \A v \in Workers : ChainTable(F.chains[v]) /\ ResolutionTable(F.resolutions[v])
      /\ F.used = Cardinality(Held(F)) /\ F.used <= Budget
  BY FragParts DEF FragOK
<1>2. R = [chains |-> c, resolutions |-> F.resolutions, used |-> F.used,
           handed |-> F.handed, run |-> F.run]
  BY <1>1
<1>3. ASSUME NEW w \in Workers
      PROVE  /\ ChainTable(c[w]) /\ DOMAIN c[w].of = DOMAIN F.chains[w].of
             /\ c[w] \in Tables(FragmentKeys, ChainStates)
             /\ \A k \in DOMAIN c[w].of :
                  /\ c[w].of[k].payload = F.chains[w].of[k].payload
                  /\ c[w].of[k].next = F.chains[w].of[k].next
                  /\ c[w].of[k].modulus = F.chains[w].of[k].modulus
  <2>1. c[w] = Older(F.chains[w]) /\ ChainTable(F.chains[w])
    BY <1>1
  <2> HIDE DEF c
  <2>2. ChainTable(c[w]) => c[w] \in Tables(FragmentKeys, ChainStates)
    BY DEF ChainTable, TableExact
  <2> QED
    BY <2>1, <2>2, OlderForm
<1>4. c \in [Workers -> Tables(FragmentKeys, ChainStates)]
  BY <1>3
<1>5. R.chains = c /\ R.handed = F.handed /\ R.run = F.run
  BY <1>2
<1>6. [F EXCEPT !.chains = [w \in Workers |-> Older(@[w])]] = R
  OBVIOUS
<1> HIDE DEF R, c
<1>7. Held(R) = Held(F)
  <2>1. ASSUME NEW x PROVE x \in Held(R) <=> x \in Held(F)
    <3>1. /\ x \in Held(F) <=> \E w \in Workers : \E k \in DOMAIN F.chains[w].of :
                               \E i \in 1 .. Len(F.chains[w].of[k].payload) : x = <<w, <<k, i>>>>
          /\ x \in Held(R) <=> \E w \in Workers : \E k \in DOMAIN c[w].of :
                               \E i \in 1 .. Len(c[w].of[k].payload) : x = <<w, <<k, i>>>>
      BY <1>5, HeldIs
    <3> QED
      BY <1>3, <3>1
  <2> QED
    BY <2>1
<1>8. FragExact(R)
  BY <1>1, <1>2, <1>3, <1>4, <1>7, IsFragExact
<1>9. ASSUME NEW w \in Workers, NEW k \in DOMAIN R.chains[w].of
      PROVE  ChainWhole(k, R.chains[w].of[k])
  <2>1. k \in DOMAIN F.chains[w].of
    BY <1>3, <1>5
  <2>2. ChainWhole(k, F.chains[w].of[k])
    BY <2>1 DEF FragOK, FragWhole
  <2> QED
    BY <1>3, <1>5, <2>1, <2>2 DEF ChainWhole
<1>10. ASSUME NEW k \in FragmentKeys PROVE RunWhole(R, k)
  <2>1. RunWhole(F, k)
    BY DEF FragOK, FragWhole
  <2>2. RunOpen(F, k) => RunOpen(R, k)
    <3> SUFFICES ASSUME RunOpen(F, k) PROVE RunOpen(R, k)
      OBVIOUS
    <3> DEFINE w == Host(k[1])
    <3>1. k \in DOMAIN F.chains[w].of
      BY DEF RunOpen
    <3>2. w \in Workers
      BY WireFacts DEF FragmentKeys
    <3> QED
      BY <1>3, <1>5, <3>1, <3>2 DEF RunOpen
  <2> QED
    BY <1>5, <2>1, <2>2 DEF RunWhole, RunDone
<1>11. FragWhole(R)
  BY <1>5, <1>9, <1>10 DEF FragOK, FragWhole, HandedWhole
<1> QED
  BY <1>6, <1>8, <1>11 DEF FragOK

\* At the start nothing is held.
LEMMA FragStart ==
    ASSUME wire \in DOMAIN Wires,
           frag = [chains |-> [w \in Workers |-> NoTable],
                   resolutions |-> [w \in Workers |-> NoTable], used |-> 0,
                   handed |-> {}, run |-> [k \in FragmentKeys |-> NoRun]]
    PROVE  FragOK(frag)
<1> DEFINE c == [w \in Workers |-> NoTable]
           n == [k \in FragmentKeys |-> NoRun]
<1>1. Capacity \in Nat /\ Budget \in Nat
  BY WireFacts, TransportAssumption
<1>2. /\ ChainTable(NoTable) /\ ResolutionTable(NoTable) /\ DOMAIN NoTable.of = {}
  BY <1>1, NoTableIs DEF ChainTable, ResolutionTable
<1>3. /\ c \in [Workers -> Tables(FragmentKeys, ChainStates)]
      /\ c \in [Workers -> Tables(Flows, {W.modulus})]
  BY <1>2 DEF ChainTable, ResolutionTable, TableExact
<1>4. n \in [FragmentKeys -> Runs] /\ \A k \in FragmentKeys : n[k].pieces = <<>>
  BY NoRunIs
<1>5. \A w \in Workers : c[w] = NoTable
  OBVIOUS
<1>6. frag = [chains |-> c, resolutions |-> c, used |-> 0, handed |-> {}, run |-> n]
  OBVIOUS
<1> HIDE DEF c, n
<1>7. frag.chains = c /\ frag.handed = {} /\ frag.run = n
  BY <1>6
<1>8. Held(frag) = {}
  <2>1. ASSUME NEW x \in Held(frag) PROVE FALSE
    BY <1>2, <1>5, <1>7, <2>1, HeldIs
  <2> QED
    BY <2>1
<1>9. Cardinality(Held(frag)) = 0
  BY <1>8, FS_EmptySet
<1>10. FragExact(frag)
  <2>1. /\ 0 \in Int /\ {} \in SUBSET Seq(Names) /\ 0 <= Budget /\ 0 = Cardinality(Held(frag))
        /\ \A w \in Workers : ChainTable(c[w]) /\ ResolutionTable(c[w])
    BY <1>1, <1>2, <1>5, <1>9
  <2> QED
    BY <1>3, <1>4, <1>6, <2>1, IsFragExact
<1>11. FragWhole(frag)
  BY <1>2, <1>4, <1>5, <1>7 DEF FragWhole, HandedWhole, RunWhole
<1> QED
  BY <1>10, <1>11 DEF FragOK

\* What the invariant says of the messages.
LEMMA MessagesFromFrag ==
    ASSUME wire \in DOMAIN Wires, FragOK(frag)
    PROVE  MessagesIntact /\ BudgetExact
<1>1. BudgetExact
  BY FragParts DEF FragOK, BudgetExact
<1>2. ChainsWhole
  BY DEF FragOK, FragWhole, HandedWhole, ChainsWhole
<1>3. ASSUME NEW k \in FragmentKeys, frag.run[k].pieces \in WholeMessages
      PROVE  frag.run[k].pieces \in frag.handed
  <2> DEFINE p == frag.run[k].pieces
  <2>1. PICK id \in DOMAIN W.pieces : p = [i \in 1 .. W.pieces[id] |-> <<id, i>>]
    BY <1>3 DEF WholeMessages
  <2>2. W.pieces[id] \in Nat \ {0}
    <3>1. W.pieces \in [DOMAIN W.pieces -> Nat \ {0}]
      BY WireAssumption DEF W
    <3> QED
      BY <3>1
  <2>3. p # <<>> /\ Len(p) = W.pieces[id] /\ Last(p) = <<id, W.pieces[id]>>
    <3> HIDE DEF p
    <3>1. DOMAIN p = 1 .. W.pieces[id] /\ 1 \in DOMAIN p
      BY <2>1, <2>2
    <3>2. Len(p) = W.pieces[id]
      BY <2>1, <2>2
    <3> QED
      BY <2>1, <2>2, <3>1, <3>2 DEF Last
  <2>4. RunOpen(frag, k) \/ RunDone(frag, k)
    BY <2>3 DEF FragOK, FragWhole, RunWhole
  <2>5. ~RunOpen(frag, k)
    <3> SUFFICES ASSUME RunOpen(frag, k) PROVE FALSE
      OBVIOUS
    <3> DEFINE w == Host(k[1])
               c == frag.chains[w].of[k]
    <3>1. k \in DOMAIN frag.chains[w].of /\ c.payload = p
      BY DEF RunOpen
    <3>2. k[1] \in Flows
      BY DEF FragmentKeys
    <3>3. w \in Workers
      BY <3>2, WireFacts
    <3>4. ChainWhole(k, c)
      BY <3>1, <3>3 DEF FragOK, FragWhole
    <3> HIDE DEF c, w, p
    <3>5. PICK m \in Fragments(wire, k[1]) : m.more /\ ~m.drop /\ Last(p) = <<m.id, m.piece>>
      BY <3>1, <3>4 DEF ChainWhole
    <3>6. m.id = id /\ m.piece = W.pieces[id]
      BY <2>3, <3>5
    <3>7. m.piece < W.pieces[m.id]
      BY <3>2, <3>5, FragmentFacts
    <3> QED
      BY <2>2, <3>6, <3>7
  <2> QED
    BY <2>4, <2>5 DEF RunDone
<1> QED
  BY <1>1, <1>2, <1>3 DEF MessagesIntact, RunsHanded

----------------------------------------------------------------------------
(* The wire that was chosen stays, and all that is said in terms of it.    *)

\* What depends on the wire alone.
LEMMA SameWire ==
    ASSUME wire' = wire
    PROVE  /\ W' = W /\ Capacity' = Capacity /\ Names' = Names /\ ChainStates' = ChainStates
           /\ WholeMessages' = WholeMessages /\ FragStates' = FragStates
<1>1. W' = W
  BY DEF W
<1>2. Capacity' = Capacity
  BY <1>1 DEF Capacity
<1>3. Names' = Names
  BY DEF Names
<1>4. ChainStates' = ChainStates
  BY <1>1, <1>3 DEF ChainStates
<1>5. WholeMessages' = WholeMessages
  BY <1>1 DEF WholeMessages
<1>6. Runs' = Runs
  BY <1>3 DEF Runs
<1>7. FragStates' = FragStates
  BY <1>1, <1>3, <1>4, <1>6 DEF FragStates
<1> QED
  BY <1>1, <1>2, <1>3, <1>4, <1>5, <1>7

\* The fragments' state says the same after a step.
LEMMA SameFrag ==
    ASSUME wire' = wire
    PROVE  \A F : FragOK(F) => FragOK(F)'
<1>1. \A K, X, T : TableExact(T, K, X)' <=> TableExact(T, K, X)
  BY SameWire DEF TableExact, TableBounded
<1>2. /\ \A T : ChainTable(T)' <=> ChainTable(T)
      /\ \A T : ResolutionTable(T)' <=> ResolutionTable(T)
  BY <1>1, SameWire DEF ChainTable, ResolutionTable
<1>3. \A F : FragExact(F)' <=> FragExact(F)
  BY <1>2, SameWire DEF FragExact
<1>4. \A k, c : ChainWhole(k, c)' <=> ChainWhole(k, c)
  BY DEF ChainWhole
<1>5. \A F, k : /\ RunOpen(F, k)' <=> RunOpen(F, k)
                /\ RunDone(F, k)' <=> RunDone(F, k)
  BY SameWire DEF RunOpen, RunDone, Host
<1>6. \A F : HandedWhole(F)' <=> HandedWhole(F)
  BY SameWire DEF HandedWhole
<1>7. \A F : FragWhole(F)' <=> FragWhole(F)
  BY <1>4, <1>5, <1>6 DEF FragWhole, RunWhole
<1> QED
  BY <1>3, <1>7 DEF FragOK

----------------------------------------------------------------------------
(* Sequence numbers.                                                       *)

\* A position has its number on the circle, and positions nearer to each other
\* than half the circle compare as their numbers do.
LEMMA SeqnoIs ==
    ASSUME NEW p \in Nat, p < SeqModulus
    PROVE  /\ Seqno(p) = IF InitialSeq + p < SeqModulus THEN InitialSeq + p
                         ELSE (InitialSeq + p) - SeqModulus
           /\ Seqno(p) \in 0 .. SeqModulus - 1
<1>1. SeqModulus \in Nat \ {0} /\ InitialSeq \in 0 .. SeqModulus - 1
  BY TransportAssumption
<1>2. CASE InitialSeq + p < SeqModulus
  <2>1. InitialSeq + p \in 0 .. SeqModulus - 1
    BY <1>1, <1>2
  <2>2. ((InitialSeq + p) % SeqModulus) = InitialSeq + p
    BY <1>1, <2>1, ModSmall
  <2> QED
    BY <1>1, <1>2, <2>1, <2>2 DEF Seqno, SeqAdd
<1>3. CASE ~(InitialSeq + p < SeqModulus)
  <2>1. InitialSeq + p \in SeqModulus .. 2 * SeqModulus - 1
    BY <1>1, <1>3
  <2>2. ((InitialSeq + p) % SeqModulus) = (InitialSeq + p) - SeqModulus
    BY <1>1, <2>1, ModOver
  <2> QED
    BY <1>1, <1>3, <2>1, <2>2 DEF Seqno, SeqAdd
<1> QED
  BY <1>2, <1>3

\* Sequence numbers, some bytes on.
LEMMA SeqnoAdd ==
    ASSUME NEW p \in Nat, NEW n \in Nat, p + n < SeqModulus \div 2
    PROVE  SeqAdd(Seqno(p), n) = Seqno(p + n)
<1>1. /\ SeqModulus \in Nat \ {0} /\ InitialSeq \in 0 .. SeqModulus - 1
      /\ p < SeqModulus /\ n < SeqModulus /\ p + n < SeqModulus /\ p + n \in Nat
  BY TransportAssumption
<1>2. /\ Seqno(p) = IF InitialSeq + p < SeqModulus THEN InitialSeq + p
                    ELSE (InitialSeq + p) - SeqModulus
      /\ Seqno(p + n) = IF InitialSeq + (p + n) < SeqModulus THEN InitialSeq + (p + n)
                        ELSE (InitialSeq + (p + n)) - SeqModulus
      /\ Seqno(p) \in 0 .. SeqModulus - 1
  BY <1>1, SeqnoIs
<1> DEFINE x == Seqno(p) + n
<1>3. x \in 0 .. 2 * SeqModulus - 1
  BY <1>1, <1>2
<1>4. (x % SeqModulus) = IF x < SeqModulus THEN x ELSE x - SeqModulus
  <2> HIDE DEF x
  <2>1. CASE x < SeqModulus
    BY <1>1, <1>3, <2>1, ModSmall
  <2>2. CASE ~(x < SeqModulus)
    <3>1. x \in SeqModulus .. 2 * SeqModulus - 1
      BY <1>1, <1>3, <2>2
    <3> QED
      BY <1>1, <2>2, <3>1, ModOver
  <2> QED
    BY <2>1, <2>2
<1>5. SeqAdd(Seqno(p), n) = (x % SeqModulus)
  BY DEF SeqAdd
<1> DEFINE y == x % SeqModulus
<1>6. y = IF x < SeqModulus THEN x ELSE x - SeqModulus
  BY <1>4
<1>7. SeqAdd(Seqno(p), n) = y
  BY <1>5
<1> HIDE DEF y
<1> QED
  BY <1>1, <1>2, <1>6, <1>7

\* The distance of two sequence numbers.
LEMMA SeqnoMinus ==
    ASSUME NEW p \in Nat, NEW q \in Nat, p < SeqModulus \div 2, q < SeqModulus \div 2
    PROVE  ((Seqno(p) - Seqno(q)) % SeqModulus)
             = IF q <= p THEN p - q ELSE (p - q) + SeqModulus
<1>1. /\ SeqModulus \in Nat \ {0} /\ InitialSeq \in 0 .. SeqModulus - 1
      /\ p < SeqModulus /\ q < SeqModulus
  BY TransportAssumption
<1>2. /\ Seqno(p) = IF InitialSeq + p < SeqModulus THEN InitialSeq + p
                    ELSE (InitialSeq + p) - SeqModulus
      /\ Seqno(q) = IF InitialSeq + q < SeqModulus THEN InitialSeq + q
                    ELSE (InitialSeq + q) - SeqModulus
      /\ Seqno(p) \in 0 .. SeqModulus - 1 /\ Seqno(q) \in 0 .. SeqModulus - 1
  BY <1>1, SeqnoIs
<1> DEFINE x == Seqno(p) - Seqno(q)
<1>3. x \in (-SeqModulus) .. SeqModulus - 1
  BY <1>1, <1>2
<1>4. (x % SeqModulus) = IF x < 0 THEN x + SeqModulus ELSE x
  <2> HIDE DEF x
  <2>1. CASE x < 0
    <3>1. x \in (-SeqModulus) .. -1
      BY <1>1, <1>3, <2>1
    <3> QED
      BY <1>1, <2>1, <3>1, ModUnder
  <2>2. CASE ~(x < 0)
    <3>1. x \in 0 .. SeqModulus - 1
      BY <1>1, <1>3, <2>2
    <3> QED
      BY <1>1, <2>2, <3>1, ModSmall
  <2> QED
    BY <2>1, <2>2
<1> DEFINE y == x % SeqModulus
<1>5. y = IF x < 0 THEN x + SeqModulus ELSE x
  BY <1>4
<1>6. y = IF q <= p THEN p - q ELSE (p - q) + SeqModulus
  <2> HIDE DEF y
  <2> QED
    BY <1>1, <1>2, <1>5
<1> QED
  BY <1>6

\* Within half of their range sequence numbers are in order of the bytes.
LEMMA SeqnoOrder ==
    ASSUME NEW p \in Nat, NEW q \in Nat, p < SeqModulus \div 2, q < SeqModulus \div 2
    PROVE  /\ SeqBefore(Seqno(p), Seqno(q)) <=> p < q
           /\ SeqLte(Seqno(p), Seqno(q)) <=> p <= q
           /\ Seqno(p) = Seqno(q) => p = q
<1>1. SeqModulus \in Nat \ {0} /\ InitialSeq \in 0 .. SeqModulus - 1
  BY TransportAssumption
<1>2. SeqBefore(Seqno(p), Seqno(q)) <=> p < q
  <2> DEFINE y == (Seqno(p) - Seqno(q)) % SeqModulus
  <2>1. y = IF q <= p THEN p - q ELSE (p - q) + SeqModulus
    BY SeqnoMinus
  <2>2. SeqBefore(Seqno(p), Seqno(q)) <=> y >= SeqModulus \div 2
    BY DEF SeqBefore
  <2> HIDE DEF y
  <2>3. CASE q <= p
    BY <1>1, <2>1, <2>2, <2>3
  <2>4. CASE ~(q <= p)
    <3>1. (p - q) + SeqModulus >= SeqModulus \div 2
      BY <1>1
    <3> QED
      BY <1>1, <2>1, <2>2, <2>4, <3>1
  <2> QED
    BY <2>3, <2>4
<1>3. Seqno(p) = Seqno(q) => p = q
  <2>1. p < SeqModulus /\ q < SeqModulus
    BY <1>1
  <2>2. /\ Seqno(p) = IF InitialSeq + p < SeqModulus THEN InitialSeq + p
                      ELSE (InitialSeq + p) - SeqModulus
        /\ Seqno(q) = IF InitialSeq + q < SeqModulus THEN InitialSeq + q
                      ELSE (InitialSeq + q) - SeqModulus
    BY <2>1, SeqnoIs
  <2> QED
    BY <1>1, <2>1, <2>2
<1> QED
  BY <1>2, <1>3 DEF SeqLte

----------------------------------------------------------------------------
(* Bytes in the queue.                                                     *)

\* Lists of segments, by what they are for the count.
Lengths == [bytes : Seq(Nat), seq : Nat]
IsTally(s, u) ==
  /\ u \in [0 .. Len(s) -> Int] /\ u[0] = 0
  /\ \A n \in 1 .. Len(s) : u[n] = u[n - 1] + Len(s[n].bytes)

\* Segments have lengths.
LEMMA LengthsForm ==
    ASSUME NEW s \in Seq(Lengths)
    PROVE  /\ Len(s) \in Nat /\ DOMAIN s = 1 .. Len(s)
           /\ \A n \in 1 .. Len(s) : s[n] \in Lengths /\ Len(s[n].bytes) \in Nat
<1>1. Len(s) \in Nat /\ DOMAIN s = 1 .. Len(s) /\ \A n \in 1 .. Len(s) : s[n] \in Lengths
  BY LenProperties
<1>2. ASSUME NEW n \in 1 .. Len(s) PROVE Len(s[n].bytes) \in Nat
  <2>1. s[n].bytes \in Seq(Nat)
    BY <1>1 DEF Lengths
  <2> QED
    BY <2>1, LenProperties
<1> QED
  BY <1>1, <1>2

\* Bytes is what the one running count of lengths ends at.
LEMMA BytesCounted ==
    ASSUME NEW s \in Seq(Lengths)
    PROVE  \E u : IsTally(s, u) /\ Bytes(s) = u[Len(s)]
<1> DEFINE N == Len(s)
           lens == [n \in DOMAIN s |-> Len(s[n].bytes)]
           u == CHOOSE g : g = [n \in 0 .. N |-> IF n = 0 THEN 0 ELSE g[n - 1] + lens[n]]
<1>1. N \in Nat /\ DOMAIN s = 1 .. N /\ \A n \in 1 .. N : s[n] \in Lengths
  BY LenProperties
<1>2. \A n \in 1 .. N : lens[n] = Len(s[n].bytes) /\ lens[n] \in Int
  BY LengthsForm
<1>3. Bytes(s) = u[N]
  BY DEF Bytes
<1> HIDE DEF lens
<1>4. u \in [0 .. N -> Int] /\ u[0] = 0 /\ \A n \in 1 .. N : u[n] = u[n - 1] + lens[n]
  <2> HIDE DEF N
  <2> QED
    BY <1>1, <1>2, RunningSum
<1> HIDE DEF u
<1>5. IsTally(s, u)
  BY <1>2, <1>4 DEF IsTally
<1> QED
  BY <1>3, <1>5

\* Any tally ends with the number of bytes.
LEMMA BytesAre ==
    ASSUME NEW s \in Seq(Lengths), NEW v, IsTally(s, v)
    PROVE  Bytes(s) = v[Len(s)]
<1> DEFINE N == Len(s)
<1>1. PICK u : IsTally(s, u) /\ Bytes(s) = u[Len(s)]
  BY BytesCounted
<1>2. N \in Nat /\ \A n \in 1 .. N : Len(s[n].bytes) \in Nat
  BY LengthsForm
<1> DEFINE T == {n \in 0 .. N : u[n] = v[n]}
<1>3. 0 \in T
  BY <1>1, <1>2 DEF IsTally
<1>4. ASSUME NEW n \in 0 .. N, n < N, n \in T PROVE n + 1 \in T
  <2>1. n + 1 \in 1 .. N /\ n + 1 \in 0 .. N /\ (n + 1) - 1 = n
    BY <1>2, <1>4
  <2>2. /\ u[n + 1] = u[(n + 1) - 1] + Len(s[n + 1].bytes)
        /\ v[n + 1] = v[(n + 1) - 1] + Len(s[n + 1].bytes)
    BY <1>1, <2>1 DEF IsTally
  <2> QED
    BY <1>4, <2>1, <2>2
<1> HIDE DEF T
<1>5. 0 .. N \subseteq T
  BY <1>2, <1>3, <1>4, BoundedInduction
<1> QED
  BY <1>1, <1>2, <1>5 DEF T

\* No segments, no bytes.
LEMMA BytesOfNone == Bytes(<<>>) = 0
<1>1. <<>> \in Seq(Lengths) /\ Len(<<>>) = 0
  OBVIOUS
<1>2. IsTally(<<>>, [n \in 0 .. 0 |-> 0])
  BY <1>1 DEF IsTally
<1> QED
  BY <1>1, <1>2, BytesAre

\* A count never goes down.
LEMMA TallyGrows ==
    ASSUME NEW s \in Seq(Lengths), NEW u, IsTally(s, u), NEW m \in 0 .. Len(s)
    PROVE  u[m] >= 0 /\ u[m] <= u[Len(s)]
<1> DEFINE N == Len(s)
           T == {n \in 0 .. N : u[n] >= 0 /\ (m <= n => u[m] <= u[n])}
<1>1. N \in Nat /\ \A n \in 1 .. N : Len(s[n].bytes) \in Nat
  BY LengthsForm
<1>2. u \in [0 .. N -> Int] /\ u[0] = 0 /\ \A n \in 1 .. N : u[n] = u[n - 1] + Len(s[n].bytes)
  BY DEF IsTally
<1>3. 0 \in T
  BY <1>1, <1>2
<1>4. ASSUME NEW n \in 0 .. N, n < N, n \in T PROVE n + 1 \in T
  <2>1. n + 1 \in 1 .. N /\ n + 1 \in 0 .. N /\ (n + 1) - 1 = n
    BY <1>1, <1>4
  <2>2. u[n + 1] = u[n] + Len(s[n + 1].bytes) /\ Len(s[n + 1].bytes) \in Nat /\ u[n] \in Int
    BY <1>1, <1>2, <2>1
  <2>3. u[n + 1] >= 0 /\ u[n] <= u[n + 1]
    BY <1>4, <2>2
  <2>4. CASE m = n + 1
    BY <2>1, <2>2, <2>3, <2>4
  <2>5. CASE m # n + 1
    <3>1. m <= n + 1 => m <= n
      BY <1>1, <2>5
    <3>2. u[m] \in Int
      BY <1>2
    <3> QED
      BY <1>4, <2>1, <2>2, <2>3, <3>1, <3>2
  <2> QED
    BY <2>4, <2>5
<1> HIDE DEF T
<1>5. 0 .. N \subseteq T
  BY <1>1, <1>3, <1>4, BoundedInduction
<1>6. m \in T /\ N \in T
  BY <1>1, <1>5
<1> QED
  BY <1>6 DEF T

\* Without its first m segments a list has what the count says after m.
LEMMA BytesOfRest ==
    ASSUME NEW s \in Seq(Lengths), NEW u, IsTally(s, u), NEW m \in 0 .. Len(s)
    PROVE  /\ SubSeq(s, m + 1, Len(s)) \in Seq(Lengths)
           /\ Bytes(SubSeq(s, m + 1, Len(s))) = u[Len(s)] - u[m]
<1> DEFINE N == Len(s)
           r == SubSeq(s, m + 1, N)
           v == [n \in 0 .. N - m |-> u[m + n] - u[m]]
<1>1. N \in Nat /\ m \in Nat /\ m <= N /\ \A n \in 1 .. N : s[n] \in Lengths /\ Len(s[n].bytes) \in Nat
  BY LengthsForm
<1>2. /\ r \in Seq(Lengths) /\ Len(r) = N - m
      /\ \A n \in 1 .. N - m : r[n] = s[m + n]
  <2>1. \A i \in m + 1 .. N : s[i] \in Lengths
    BY <1>1
  <2>2. /\ r \in Seq(Lengths) /\ Len(r) = IF m + 1 <= N THEN N - (m + 1) + 1 ELSE 0
        /\ \A i \in 1 .. N - (m + 1) + 1 : r[i] = s[(m + 1) + i - 1]
    <3> HIDE DEF N
    <3> QED
      BY <1>1, <2>1, SubSeqProperties
  <2> HIDE DEF r, N
  <2>3. Len(r) = N - m
    BY <1>1, <2>2
  <2>4. ASSUME NEW n \in 1 .. N - m PROVE r[n] = s[m + n]
    <3>1. n \in 1 .. N - (m + 1) + 1 /\ (m + 1) + n - 1 = m + n
      BY <1>1
    <3> QED
      BY <2>2, <3>1
  <2> QED
    BY <2>2, <2>3, <2>4
<1>3. u \in [0 .. N -> Int] /\ u[0] = 0 /\ \A n \in 1 .. N : u[n] = u[n - 1] + Len(s[n].bytes)
  BY DEF IsTally
<1> HIDE DEF r
<1>4. ASSUME NEW n \in 0 .. N - m PROVE v[n] \in Int /\ m + n \in 0 .. N
  <2>1. m + n \in 0 .. N /\ m \in 0 .. N
    BY <1>1
  <2>2. u[m + n] \in Int /\ u[m] \in Int
    <3>1. u \in [0 .. N -> Int]
      BY <1>3
    <3> HIDE DEF N
    <3> QED
      BY <2>1, <3>1
  <2>3. v[n] = u[m + n] - u[m]
    OBVIOUS
  <2> HIDE DEF v, N
  <2> QED
    BY <2>1, <2>2, <2>3
<1>5. v \in [0 .. Len(r) -> Int]
  BY <1>2, <1>4
<1>6. v[0] = 0
  <2>1. 0 \in 0 .. N - m /\ m + 0 = m /\ u[m] \in Int
    BY <1>1, <1>3
  <2> QED
    BY <2>1
<1>7. ASSUME NEW n \in 1 .. Len(r) PROVE v[n] = v[n - 1] + Len(r[n].bytes)
  <2>1. /\ n \in 0 .. N - m /\ n - 1 \in 0 .. N - m /\ m + n \in 1 .. N /\ m + (n - 1) = (m + n) - 1
        /\ m \in 0 .. N /\ (m + n) - 1 \in 0 .. N
    BY <1>1, <1>2
  <2>2. u[m + n] = u[(m + n) - 1] + Len(s[m + n].bytes) /\ Len(s[m + n].bytes) \in Nat
    BY <1>1, <1>3, <2>1
  <2>3. v[n] = u[m + n] - u[m] /\ v[n - 1] = u[(m + n) - 1] - u[m]
    BY <2>1
  <2>4. r[n] = s[m + n]
    BY <1>2
  <2>5. u[m] \in Int /\ u[(m + n) - 1] \in Int /\ u[m + n] \in Int
    <3>1. m + n \in 0 .. N
      BY <1>1, <2>1
    <3> HIDE DEF N
    <3> QED
      BY <1>3, <2>1, <3>1
  <2>6. v[n] = v[n - 1] + Len(s[m + n].bytes)
    <3> HIDE DEF v, N
    <3> DEFINE x == u[m + n]
               y == u[(m + n) - 1]
               z == u[m]
               l == Len(s[m + n].bytes)
    <3>1. x = y + l /\ v[n] = x - z /\ v[n - 1] = y - z
      BY <2>2, <2>3
    <3>2. x \in Int /\ y \in Int /\ z \in Int /\ l \in Nat
      BY <2>2, <2>5
    <3> HIDE DEF x, y, z, l
    <3>3. v[n] = v[n - 1] + l
      BY <3>1, <3>2
    <3> QED
      BY <3>3 DEF l
  <2> QED
    BY <2>4, <2>6
<1>8. v[N - m] = u[N] - u[m]
  <2>1. N - m \in 0 .. N - m /\ m + (N - m) = N
    BY <1>1
  <2> QED
    BY <2>1
<1> HIDE DEF v
<1>9. IsTally(r, v)
  BY <1>5, <1>6, <1>7 DEF IsTally
<1>10. Bytes(r) = v[Len(r)]
  BY <1>2, <1>9, BytesAre
<1> QED
  BY <1>2, <1>8, <1>10 DEF r

\* A segment put in adds its bytes.
LEMMA BytesOfInsert ==
    ASSUME NEW s \in Seq(Lengths), NEW g \in Lengths, NEW i \in 1 .. Len(s) + 1
    PROVE  LET r == InsertAt(s, i, g) IN
           /\ r \in Seq(Lengths) /\ Len(r) = Len(s) + 1 /\ r[i] = g
           /\ \A n \in 1 .. i - 1 : r[n] = s[n]
           /\ \A n \in i + 1 .. Len(s) + 1 : r[n] = s[n - 1]
           /\ Bytes(r) = Bytes(s) + Len(g.bytes)
<1> DEFINE N == Len(s)
           r == InsertAt(s, i, g)
           L == Len(g.bytes)
<1>1. N \in Nat /\ i \in Nat /\ 1 <= i /\ i <= N + 1
  BY LenProperties
<1>2. L \in Nat
  BY LenProperties DEF Lengths
<1>3. /\ r \in Seq(Lengths) /\ Len(r) = N + 1 /\ r[i] = g
      /\ \A n \in 1 .. i - 1 : r[n] = s[n]
      /\ \A n \in i + 1 .. N + 1 : r[n] = s[n - 1]
  <2> DEFINE S == Lengths
  <2>1. s \in Seq(S) /\ g \in S
    OBVIOUS
  <2> HIDE DEF S, L
  <2>2. InsertAt(s, i, g) \in Seq(S)
    BY <2>1, InsertAtForm
  <2>3. /\ Len(InsertAt(s, i, g)) = Len(s) + 1 /\ InsertAt(s, i, g)[i] = g
        /\ \A n \in 1 .. i - 1 : InsertAt(s, i, g)[n] = s[n]
    BY <2>1, InsertAtForm
  <2>4. ASSUME NEW n \in i + 1 .. Len(s) + 1 PROVE InsertAt(s, i, g)[n] = s[n - 1]
    <3>1. i \in 1 .. Len(s) + 1
      OBVIOUS
    <3> QED
      BY <2>1, <3>1, InsertAtForm
  <2> QED
    BY <2>2, <2>3, <2>4 DEF S
<1> HIDE DEF r
<1>4. PICK u : IsTally(s, u) /\ Bytes(s) = u[Len(s)]
  BY BytesCounted
<1>5. u \in [0 .. N -> Int] /\ u[0] = 0 /\ \A n \in 1 .. N : u[n] = u[n - 1] + Len(s[n].bytes)
  BY <1>4 DEF IsTally
<1> DEFINE v == [n \in 0 .. N + 1 |-> IF n < i THEN u[n] ELSE u[n - 1] + L]
<1>6. v \in [0 .. Len(r) -> Int] /\ v[0] = 0
  <2>1. ASSUME NEW n \in 0 .. N + 1 PROVE v[n] \in Int
    <3>1. CASE n < i
      <4>1. n \in 0 .. N
        BY <1>1, <3>1
      <4> QED
        BY <1>5, <3>1, <4>1
    <3>2. CASE ~(n < i)
      <4>1. n - 1 \in 0 .. N
        BY <1>1, <3>2
      <4>2. u[n - 1] \in Int /\ v[n] = u[n - 1] + L
        BY <1>5, <3>2, <4>1
      <4> HIDE DEF v, L
      <4> QED
        BY <1>2, <4>2
    <3> QED
      BY <3>1, <3>2
  <2>2. v[0] = 0
    BY <1>1, <1>5
  <2> QED
    BY <1>3, <2>1, <2>2
<1>7. ASSUME NEW n \in 1 .. N + 1 PROVE v[n] = v[n - 1] + Len(r[n].bytes)
  <2>1. n \in 0 .. N + 1 /\ n - 1 \in 0 .. N + 1 /\ n - 1 \in 0 .. N
    BY <1>1
  <2>2. CASE n < i
    <3>1. n \in 1 .. N /\ n - 1 < i /\ n \in 1 .. i - 1
      BY <1>1, <2>2
    <3>2. r[n] = s[n] /\ u[n] = u[n - 1] + Len(s[n].bytes)
      BY <1>3, <1>5, <3>1
    <3>3. v[n] = u[n] /\ v[n - 1] = u[n - 1]
      BY <2>1, <2>2, <3>1
    <3> QED
      BY <3>2, <3>3
  <2>3. CASE n = i
    <3>1. v[n] = u[n - 1] + L /\ v[n - 1] = u[n - 1]
      BY <1>1, <2>1, <2>3
    <3> QED
      BY <1>3, <2>3, <3>1
  <2>4. CASE n > i
    <3>1. n - 1 \in 1 .. N /\ ~(n - 1 < i) /\ ~(n < i) /\ n \in i + 1 .. N + 1 /\ (n - 1) - 1 \in 0 .. N
      BY <1>1, <2>4
    <3>2. r[n] = s[n - 1] /\ u[n - 1] = u[(n - 1) - 1] + Len(s[n - 1].bytes)
      BY <1>3, <1>5, <3>1
    <3>3. v[n] = u[n - 1] + L /\ v[n - 1] = u[(n - 1) - 1] + L
      BY <2>1, <3>1
    <3>4. u[(n - 1) - 1] \in Int /\ Len(s[n - 1].bytes) \in Nat
      <4>1. s[n - 1] \in Lengths
        BY <3>1
      <4>2. s[n - 1].bytes \in Seq(Nat)
        BY <4>1 DEF Lengths
      <4> QED
        BY <1>5, <3>1, <4>2, LenProperties
    <3> HIDE DEF v, L
    <3> QED
      BY <1>2, <3>2, <3>3, <3>4
  <2> QED
    BY <1>1, <2>2, <2>3, <2>4
<1>8. v[N + 1] = u[N] + L
  <2>1. N + 1 \in 0 .. N + 1 /\ ~(N + 1 < i) /\ (N + 1) - 1 = N
    BY <1>1
  <2> QED
    BY <2>1
<1> HIDE DEF v
<1>9. IsTally(r, v)
  BY <1>3, <1>6, <1>7 DEF IsTally
<1>10. Bytes(r) = v[Len(r)]
  BY <1>3, <1>9, BytesAre
<1> QED
  BY <1>3, <1>4, <1>8, <1>10 DEF r

----------------------------------------------------------------------------
(* Batches.                                                                *)

\* The bytes of a flow.
Positions(f) == 0 .. StreamLen(f) - 1

\* frame_batches cuts its bytes in two, at the front of a batch.
LEMMA BatchesForm ==
    ASSUME wire \in DOMAIN Wires, NEW f \in Flows, NEW bytes \in Seq(Positions(f))
    PROVE  LET r == FrameBatches(f, bytes) IN
           /\ r.read \in Seq(Positions(f)) /\ r.rest \in Seq(Positions(f))
           /\ r.msgs \in Seq(ToSet(Stream(f)))
           /\ Len(r.read) + Len(r.rest) = Len(bytes)
           /\ \A i \in 1 .. Len(r.read) : r.read[i] = bytes[i]
           /\ \A i \in 1 .. Len(r.rest) : r.rest[i] = bytes[Len(r.read) + i]
           /\ ~r.failed => Len(r.rest) < BatchLen
           /\ ~r.failed /\ DOMAIN r.msgs # {} => Len(bytes) >= 1 /\ (bytes[1] % BatchLen) = 0
<1> DEFINE B == BatchLen
           L == Len(bytes)
           n == L \div B
           head(i) == bytes[B * (i - 1) + 1]
           msg(i) == Stream(f)[head(i) \div B + 1]
           bad == {i \in 1 .. n : head(i) % B # 0 \/ msg(i).kind = "bad"}
           k == IF bad = {} THEN n ELSE Min(bad) - 1
           S == ToSet(Stream(f))
           P == Positions(f)
<1>1. /\ B \in Nat \ {0} /\ L \in Nat /\ \A i \in 1 .. L : bytes[i] \in P
      /\ Stream(f) \in Seq(S)
  BY WireFacts, LenProperties
<1>2. n \in Nat /\ B * n <= L /\ L < B * n + B /\ B * n \in Nat
  <2> HIDE DEF B, L
  <2>1. n \in Nat /\ (L % B) \in 0 .. B - 1 /\ L = B * n + (L % B)
    BY <1>1, DivForm
  <2> DEFINE bn == B * n
             r == L % B
  <2>2. bn \in Nat
    BY <1>1, <2>1
  <2>3. r \in 0 .. B - 1 /\ L = bn + r
    BY <2>1
  <2> HIDE DEF bn, r
  <2>4. bn <= L /\ L < bn + B
    BY <1>1, <2>2, <2>3
  <2> QED
    BY <2>1, <2>2, <2>4 DEF bn
<1>3. ASSUME NEW i \in 1 .. n
      PROVE  /\ B * (i - 1) + 1 \in 1 .. L /\ head(i) \in P /\ msg(i) \in S
  <2> HIDE DEF n, B, L
  <2>1. i - 1 \in Nat /\ i \in Nat /\ B * (i - 1) \in Nat
    BY <1>1
  <2>2. B * (i - 1) <= B * (n - 1)
    BY <1>1, <1>2, TimesMono
  <2>3. B * (n - 1) = B * n - B
    BY <1>1, <1>2, TimesLess
  <2> DEFINE x == B * (i - 1)
             y == B * n
             z == B * (n - 1)
  <2>4. x <= z /\ z = y - B /\ x \in Nat /\ y \in Nat /\ y <= L
    BY <1>2, <2>1, <2>2, <2>3
  <2> HIDE DEF x, y, z
  <2>5. x + 1 \in 1 .. L
    BY <1>1, <2>4
  <2>6. head(i) \in P
    BY <1>1, <2>5 DEF x
  <2> DEFINE h == head(i)
  <2>7. h \in Nat /\ h < B * Len(Stream(f)) /\ Len(Stream(f)) \in Nat
    <3>1. h \in P /\ Len(Stream(f)) \in Nat /\ B \in Nat
      BY <1>1, <2>6, LenProperties
    <3> HIDE DEF h
    <3>2. B * Len(Stream(f)) \in Nat
      BY <3>1
    <3> QED
      BY <3>1, <3>2 DEF Positions, StreamLen, B
  <2> HIDE DEF h
  <2>8. h \div B \in 0 .. Len(Stream(f)) - 1
    BY <1>1, <2>7, DivBound
  <2>9. h \div B + 1 \in 1 .. Len(Stream(f))
    BY <2>7, <2>8
  <2>10. Stream(f)[h \div B + 1] \in S
    BY <1>1, <2>9
  <2> QED
    BY <2>5, <2>6, <2>10 DEF x, h
<1>4. k \in 0 .. n
  <2>1. CASE bad = {}
    BY <1>2, <2>1
  <2>2. CASE bad # {}
    <3>1. bad \subseteq Nat /\ bad \subseteq 1 .. n
      BY <1>2
    <3> HIDE DEF bad, n
    <3>2. Min(bad) \in 1 .. n
      BY <2>2, <3>1, MinIs
    <3>3. k = Min(bad) - 1
      BY <2>2
    <3> QED
      BY <1>2, <3>2, <3>3
  <2> QED
    BY <2>1, <2>2
<1> DEFINE read == SubSeq(bytes, 1, B * k)
           rest == SubSeq(bytes, B * k + 1, L)
           msgs == [i \in 1 .. k |-> msg(i)]
<1>5. FrameBatches(f, bytes) = [read |-> read, rest |-> rest, msgs |-> msgs, failed |-> bad # {}]
  BY DEF FrameBatches
<1>6. msgs \in Seq(S) /\ DOMAIN msgs = 1 .. k
  <2> HIDE DEF k, n, msg, S
  <2>1. \A i \in 1 .. k : msg(i) \in S
    BY <1>2, <1>3, <1>4
  <2>2. k \in Nat
    BY <1>2, <1>4
  <2> QED
    BY <2>1, <2>2
<1>7. B * k \in Nat /\ B * k <= L /\ (bad = {} => L < B * k + B)
  <2>1. bad = {} => k = n
    OBVIOUS
  <2> HIDE DEF k, n, B, bad
  <2>2. B * k \in Nat
    BY <1>1, <1>2, <1>4
  <2>3. B * k <= B * n
    BY <1>1, <1>2, <1>4, TimesMono
  <2> DEFINE x == B * k
             y == B * n
  <2>4. x \in Nat /\ y \in Nat /\ x <= y /\ y <= L /\ L < y + B /\ (bad = {} => x = y)
    BY <1>2, <2>1, <2>2, <2>3
  <2> HIDE DEF x, y
  <2>5. x <= L /\ (bad = {} => L < x + B)
    BY <1>1, <2>4
  <2> QED
    BY <2>2, <2>5 DEF x
<1> DEFINE b == B * k
<1>8. b \in Nat /\ b <= L /\ (bad = {} => L < b + B) /\ read = SubSeq(bytes, 1, b)
      /\ rest = SubSeq(bytes, b + 1, L)
  BY <1>7
<1>9. bad = {} /\ DOMAIN msgs # {} => L >= 1 /\ (bytes[1] % B) = 0
  <2>1. SUFFICES ASSUME bad = {}, DOMAIN msgs # {} PROVE L >= 1 /\ (bytes[1] % B) = 0
    OBVIOUS
  <2>2. 1 \in 1 .. n
    <3>1. k = n /\ k \in Nat
      BY <1>2, <2>1
    <3> HIDE DEF k, n, msgs
    <3> QED
      BY <1>6, <2>1, <3>1
  <2>3. (head(1) % B) = 0
    BY <2>1, <2>2
  <2>4. B * (1 - 1) + 1 = 1
    BY <1>1
  <2>5. 1 \in 1 .. L
    BY <1>3, <2>2, <2>4
  <2> QED
    BY <1>1, <2>3, <2>4, <2>5
<1> HIDE DEF b, read, rest, bad, msgs, B, L, k, P, S
<1>10. /\ read \in Seq(P) /\ Len(read) = b
       /\ \A i \in 1 .. b : read[i] = bytes[i]
  <2>1. \A i \in 1 .. b : bytes[i] \in P
    BY <1>1, <1>8
  <2>2. /\ read \in Seq(P) /\ Len(read) = IF 1 <= b THEN b - 1 + 1 ELSE 0
        /\ \A i \in 1 .. b - 1 + 1 : read[i] = bytes[1 + i - 1]
    BY <1>8, <2>1, SubSeqProperties
  <2>3. ASSUME NEW i \in 1 .. b PROVE read[i] = bytes[i]
    <3>1. i \in 1 .. b - 1 + 1 /\ 1 + i - 1 = i
      BY <1>8
    <3> QED
      BY <2>2, <3>1
  <2>4. Len(read) = b
    BY <1>8, <2>2
  <2> QED
    BY <2>2, <2>3, <2>4
<1>11. /\ rest \in Seq(P) /\ Len(rest) = L - b
       /\ \A i \in 1 .. L - b : rest[i] = bytes[b + i]
  <2>1. \A i \in b + 1 .. L : bytes[i] \in P
    BY <1>1, <1>8
  <2>2. /\ rest \in Seq(P) /\ Len(rest) = IF b + 1 <= L THEN L - (b + 1) + 1 ELSE 0
        /\ \A i \in 1 .. L - (b + 1) + 1 : rest[i] = bytes[(b + 1) + i - 1]
    BY <1>1, <1>8, <2>1, SubSeqProperties
  <2>3. ASSUME NEW i \in 1 .. L - b PROVE rest[i] = bytes[b + i]
    <3>1. i \in 1 .. L - (b + 1) + 1 /\ (b + 1) + i - 1 = b + i
      BY <1>1, <1>8
    <3> QED
      BY <2>2, <3>1
  <2>4. Len(rest) = L - b
    BY <1>1, <1>8, <2>2
  <2> QED
    BY <2>2, <2>3, <2>4
<1> DEFINE r == FrameBatches(f, bytes)
<1>12. r.read = read /\ r.rest = rest /\ r.msgs = msgs /\ (r.failed <=> bad # {})
  <2>1. r = [read |-> read, rest |-> rest, msgs |-> msgs, failed |-> bad # {}]
    BY <1>5
  <2> DEFINE z == bad # {}
  <2>2. z \in BOOLEAN /\ r = [read |-> read, rest |-> rest, msgs |-> msgs, failed |-> z]
    BY <2>1
  <2> HIDE DEF r, z
  <2>3. r.read = read /\ r.rest = rest /\ r.msgs = msgs /\ r.failed = z
    BY <2>2
  <2> QED
    BY <2>2, <2>3 DEF z
<1>13. Len(read) + Len(rest) = L /\ (bad = {} => Len(rest) < B)
  BY <1>1, <1>8, <1>10, <1>11
<1> HIDE DEF r
<1>14. /\ r.read \in Seq(P) /\ r.rest \in Seq(P) /\ r.msgs \in Seq(S)
       /\ Len(r.read) + Len(r.rest) = L
       /\ \A i \in 1 .. Len(r.read) : r.read[i] = bytes[i]
       /\ \A i \in 1 .. Len(r.rest) : r.rest[i] = bytes[Len(r.read) + i]
  BY <1>6, <1>10, <1>11, <1>12, <1>13
<1>15. /\ ~r.failed => Len(r.rest) < B
       /\ ~r.failed /\ DOMAIN r.msgs # {} => L >= 1 /\ (bytes[1] % B) = 0
  BY <1>9, <1>12, <1>13
<1> QED
  BY <1>14, <1>15 DEF r, P, S, B, L

----------------------------------------------------------------------------
(* TCP flows.                                                              *)

SegmentStates(f) == [seq : Nat, bytes : Seq(Positions(f))]
TcpStates(f) ==
  [aligned : BOOLEAN, next : Nat, segments : Seq(SegmentStates(f)), queued : Int,
   buffer : Seq(Positions(f)), read : Seq(Positions(f)), from : Nat, known : BOOLEAN]

\* A queued segment is a part of the stream, under the number of its first byte.
SegmentWhole(g) ==
  /\ g.bytes # <<>> /\ Consecutive(g.bytes, g.bytes[1])
  /\ g.seq = Seqno(g.bytes[1])

\* The position after the last byte that a flow has taken, and what it has
\* taken since it was aligned.
Reached(t) == t.from + Len(t.read) + Len(t.buffer)
DoneWhole(f, t) ==
  /\ Consecutive(t.read \o t.buffer, t.from) /\ (t.from % BatchLen) = 0
  /\ t.next = Seqno(Reached(t)) /\ Reached(t) <= StreamLen(f)

QueueWhole(t) ==
  /\ t.queued = Bytes(t.segments)
  /\ \A i \in 1 .. Len(t.segments) : SegmentWhole(t.segments[i])

FlowExact(f, t) ==
  /\ t \in TcpStates(f) /\ QueueWhole(t)
  /\ t.queued <= QueueBytes /\ Len(t.segments) <= QueueSegments
  /\ IF t.aligned THEN t.known /\ DoneWhole(f, t) /\ Len(t.buffer) < BatchLen
     ELSE t.segments = <<>>

\* Bytes of the stream beyond those taken are in the queue.
InQueue(t, X) ==
  \A p \in X : p >= Reached(t) => \E i \in 1 .. Len(t.segments) : p \in ToSet(t.segments[i].bytes)

\* The fields of a flow.
LEMMA TcpParts ==
    ASSUME wire \in DOMAIN Wires, NEW f \in Flows, NEW t \in TcpStates(f)
    PROVE  /\ t = [aligned |-> t.aligned, next |-> t.next, segments |-> t.segments,
                   queued |-> t.queued, buffer |-> t.buffer, read |-> t.read,
                   from |-> t.from, known |-> t.known]
           /\ t.aligned \in BOOLEAN /\ t.known \in BOOLEAN /\ t.next \in Nat /\ t.queued \in Int
           /\ t.segments \in Seq(SegmentStates(f)) /\ t.from \in Nat
           /\ t.buffer \in Seq(Positions(f)) /\ t.read \in Seq(Positions(f))
           /\ Len(t.buffer) \in Nat /\ Len(t.read) \in Nat /\ Len(t.segments) \in Nat
           /\ Reached(t) \in Nat
<1>1. /\ t = [aligned |-> t.aligned, next |-> t.next, segments |-> t.segments,
                   queued |-> t.queued, buffer |-> t.buffer, read |-> t.read,
                   from |-> t.from, known |-> t.known]
      /\ t.aligned \in BOOLEAN /\ t.known \in BOOLEAN /\ t.next \in Nat /\ t.queued \in Int
      /\ t.segments \in Seq(SegmentStates(f)) /\ t.from \in Nat
      /\ t.buffer \in Seq(Positions(f)) /\ t.read \in Seq(Positions(f))
  BY DEF TcpStates
<1>2. Len(t.buffer) \in Nat /\ Len(t.read) \in Nat /\ Len(t.segments) \in Nat
  BY <1>1, LenProperties
<1>3. Reached(t) \in Nat
  BY <1>1, <1>2 DEF Reached
<1> QED
  BY <1>1, <1>2, <1>3

\* A flow put together from its fields.
LEMMA IsTcpState ==
    ASSUME NEW f \in Flows, NEW a \in BOOLEAN, NEW k \in BOOLEAN, NEW n \in Nat, NEW q \in Int,
           NEW s \in Seq(SegmentStates(f)), NEW m \in Nat, NEW b \in Seq(Positions(f)),
           NEW r \in Seq(Positions(f))
    PROVE  [aligned |-> a, next |-> n, segments |-> s, queued |-> q, buffer |-> b, read |-> r,
            from |-> m, known |-> k] \in TcpStates(f)
BY DEF TcpStates

\* What the assumptions say of a stream.
LEMMA StreamIs ==
    ASSUME wire \in DOMAIN Wires, NEW f \in Flows
    PROVE  /\ StreamLen(f) \in Nat /\ StreamLen(f) < SeqModulus \div 2 /\ SeqModulus \in Nat \ {0}
           /\ Positions(f) \subseteq Nat /\ \A p : p \in Positions(f) <=> p \in Nat /\ p < StreamLen(f)
<1>1. /\ BatchLen \in Nat \ {0} /\ Stream(f) \in Seq(ToSet(Stream(f)))
      /\ BatchLen * Len(Stream(f)) < SeqModulus \div 2 /\ SeqModulus \in Nat \ {0}
  BY WireFacts, TransportAssumption
<1>2. Len(Stream(f)) \in Nat
  BY <1>1, LenProperties
<1>3. StreamLen(f) \in Nat /\ StreamLen(f) < SeqModulus \div 2
  BY <1>1, <1>2 DEF StreamLen
<1> QED
  BY <1>1, <1>3 DEF Positions

\* What is known of one segment.
LEMMA SegmentForm ==
    ASSUME wire \in DOMAIN Wires, NEW f \in Flows, NEW g \in SegmentStates(f)
    PROVE  /\ g \in Lengths /\ g.seq \in Nat /\ g.bytes \in Seq(Positions(f)) /\ Len(g.bytes) \in Nat
           /\ SegmentWhole(g) =>
                /\ Len(g.bytes) >= 1 /\ g.bytes[1] \in Nat /\ g.bytes[1] + Len(g.bytes) <= StreamLen(f)
                /\ \A i \in 1 .. Len(g.bytes) : g.bytes[i] = g.bytes[1] + i - 1
                /\ \A p : p \in ToSet(g.bytes)
                     <=> p \in g.bytes[1] .. (g.bytes[1] + Len(g.bytes)) - 1
<1> DEFINE P == Positions(f)
           c == g.bytes
           n == Len(c)
<1>1. g.seq \in Nat /\ c \in Seq(P) /\ g = [seq |-> g.seq, bytes |-> c]
  BY DEF SegmentStates
<1>2. n \in Nat /\ DOMAIN c = 1 .. n /\ \A i \in 1 .. n : c[i] \in P
  BY <1>1, LenProperties
<1>3. P \subseteq Nat /\ \A p \in P : p < StreamLen(f)
  BY StreamIs
<1>4. g \in Lengths
  <2>1. c \in Seq(Nat)
    BY <1>1, <1>3
  <2> QED
    BY <1>1, <2>1 DEF Lengths
<1>5. ASSUME SegmentWhole(g)
      PROVE  /\ n >= 1 /\ c[1] \in Nat /\ c[1] + n <= StreamLen(f)
             /\ \A i \in 1 .. n : c[i] = c[1] + i - 1
             /\ \A p : p \in ToSet(c) <=> p \in c[1] .. (c[1] + n) - 1
  <2>1. c # <<>> /\ \A i \in 1 .. n : c[i] = c[1] + i - 1
    BY <1>5 DEF SegmentWhole, Consecutive
  <2>2. n >= 1
    BY <1>1, <1>2, <2>1, EmptySeq
  <2> HIDE DEF P, c, n
  <2>0. 1 \in 1 .. n /\ n \in 1 .. n
    BY <1>2, <2>2
  <2>n. c[1] \in P /\ c[n] \in P
    BY <1>2, <2>0
  <2>3. c[1] \in Nat
    BY <1>3, <2>n
  <2>4. c[n] = c[1] + n - 1 /\ c[n] < StreamLen(f) /\ c[n] \in Nat
    BY <1>3, <2>0, <2>1, <2>n
  <2>5. c[1] + n <= StreamLen(f)
    <3>1. StreamLen(f) \in Nat
      BY StreamIs
    <3> QED
      BY <1>2, <2>3, <2>4, <3>1
  <2>6. ASSUME NEW p PROVE p \in ToSet(c) <=> p \in c[1] .. (c[1] + n) - 1
    <3>1. ASSUME p \in ToSet(c) PROVE p \in c[1] .. (c[1] + n) - 1
      <4>1. PICK i \in 1 .. n : p = c[i]
        BY <1>2, <3>1 DEF ToSet
      <4> QED
        BY <1>2, <2>1, <2>3, <4>1
    <3>2. ASSUME p \in c[1] .. (c[1] + n) - 1 PROVE p \in ToSet(c)
      <4>1. (p - c[1]) + 1 \in 1 .. n /\ c[1] + ((p - c[1]) + 1) - 1 = p
        BY <1>2, <2>3, <3>2
      <4>2. c[(p - c[1]) + 1] = p
        BY <2>1, <4>1
      <4> QED
        BY <1>2, <4>1, <4>2 DEF ToSet
    <3> QED
      BY <3>1, <3>2
  <2> QED
    BY <2>1, <2>2, <2>3, <2>5, <2>6
<1> HIDE DEF P
<1> QED
  BY <1>1, <1>2, <1>4, <1>5 DEF P

\* A flow that is forgotten or starts over.
LEMMA NoFlowExact ==
    ASSUME wire \in DOMAIN Wires, NEW f \in Flows, NEW t, t \in {NoFlow, ResetAlignment(NoFlow)}
    PROVE  FlowExact(f, t) /\ ~t.aligned
<1>1. PICK k \in BOOLEAN : t = [aligned |-> FALSE, next |-> 0, segments |-> <<>>, queued |-> 0,
                               buffer |-> <<>>, read |-> <<>>, from |-> 0, known |-> k]
  BY DEF NoFlow, ResetAlignment
<1>2. t \in TcpStates(f)
  <2>1. <<>> \in Seq(SegmentStates(f)) /\ <<>> \in Seq(Positions(f))
    OBVIOUS
  <2> QED
    BY <1>1, <2>1 DEF TcpStates
<1>3. t.segments = <<>> /\ t.queued = 0 /\ t.aligned = FALSE
  BY <1>1
<1>4. Len(<<>>) = 0
  OBVIOUS
<1>5. QueueWhole(t)
  BY <1>3, <1>4, BytesOfNone DEF QueueWhole
<1>6. 0 <= QueueBytes /\ 0 <= QueueSegments
  BY TransportAssumption
<1> QED
  BY <1>2, <1>3, <1>4, <1>5, <1>6 DEF FlowExact

\* What a segment gives: the bytes from the one expected on.
NewBytes(t, g) ==
  IF SeqLte(SeqAdd(g.seq, Len(g.bytes)), t.next) THEN <<>>
  ELSE SubSeq(g.bytes, ((t.next - g.seq) % SeqModulus) + 1, Len(g.bytes))

\* Sequence numbers are numbers.
LEMMA SeqAddType ==
    ASSUME NEW x \in Int, NEW n \in Int
    PROVE  SeqAdd(x, n) \in Nat
<1>1. SeqModulus \in Nat \ {0}
  BY TransportAssumption
<1> DEFINE y == x + n
<1>2. y \in Int
  OBVIOUS
<1> HIDE DEF y
<1>3. (y % SeqModulus) \in Nat
  BY <1>1, <1>2
<1> QED
  BY <1>3 DEF SeqAdd, y

\* The bytes that a segment gives are bytes of the stream.
LEMMA NewBytesType ==
    ASSUME wire \in DOMAIN Wires, NEW f \in Flows, NEW t \in TcpStates(f), NEW g \in SegmentStates(f)
    PROVE  NewBytes(t, g) \in Seq(Positions(f)) /\ Len(NewBytes(t, g)) \in Nat
<1> DEFINE P == Positions(f)
           o == (t.next - g.seq) % SeqModulus
           n == Len(g.bytes)
<1>1. g.bytes \in Seq(P) /\ n \in Nat /\ \A i \in 1 .. n : g.bytes[i] \in P
  BY SegmentForm, LenProperties
<1>2. o \in Nat
  <2>1. t.next \in Nat /\ g.seq \in Nat /\ SeqModulus \in Nat \ {0}
    BY TcpParts, SegmentForm, TransportAssumption
  <2> DEFINE y == t.next - g.seq
  <2>2. y \in Int
    BY <2>1
  <2> HIDE DEF y
  <2>3. (y % SeqModulus) \in Nat
    BY <2>1, <2>2
  <2> QED
    BY <2>3 DEF y
<1> HIDE DEF P, o, n
<1>3. SubSeq(g.bytes, o + 1, n) \in Seq(P)
  <2>1. \A i \in o + 1 .. n : g.bytes[i] \in P
    BY <1>1, <1>2
  <2> QED
    BY <1>1, <1>2, <2>1, SubSeqProperties
<1>4. <<>> \in Seq(P)
  OBVIOUS
<1>5. NewBytes(t, g) \in Seq(P)
  BY <1>3, <1>4 DEF NewBytes, o, n
<1> QED
  BY <1>5, LenProperties DEF P

\* A segment that is taken: the fields of its flow.
LEMMA TakeForm ==
    ASSUME wire \in DOMAIN Wires, NEW f \in Flows, NEW t \in TcpStates(f), NEW g \in SegmentStates(f)
    PROVE  LET u == TakeSegment(t, g) IN
           /\ u \in TcpStates(f)
           /\ u.aligned = t.aligned /\ u.known = t.known /\ u.segments = t.segments
           /\ u.queued = t.queued - Len(g.bytes) /\ u.buffer = t.buffer \o NewBytes(t, g)
           /\ u.next = SeqAdd(t.next, Len(NewBytes(t, g))) /\ u.read = t.read /\ u.from = t.from
<1> DEFINE h == NewBytes(t, g)
           u == TakeSegment(t, g)
<1>1. h \in Seq(Positions(f)) /\ Len(h) \in Nat
  BY NewBytesType
<1>2. u = [t EXCEPT !.queued = @ - Len(g.bytes), !.buffer = @ \o h, !.next = SeqAdd(@, Len(h))]
  BY DEF TakeSegment, NewBytes
<1> HIDE DEF h, u
<1>3. /\ t = [aligned |-> t.aligned, next |-> t.next, segments |-> t.segments,
                   queued |-> t.queued, buffer |-> t.buffer, read |-> t.read,
                   from |-> t.from, known |-> t.known]
      /\ t.aligned \in BOOLEAN /\ t.known \in BOOLEAN /\ t.next \in Nat /\ t.queued \in Int
      /\ t.segments \in Seq(SegmentStates(f)) /\ t.from \in Nat
      /\ t.buffer \in Seq(Positions(f)) /\ t.read \in Seq(Positions(f))
  BY TcpParts
<1>4. u = [aligned |-> t.aligned, next |-> SeqAdd(t.next, Len(h)), segments |-> t.segments,
           queued |-> t.queued - Len(g.bytes), buffer |-> t.buffer \o h, read |-> t.read,
           from |-> t.from, known |-> t.known]
  BY <1>2, <1>3
<1>5. t.buffer \o h \in Seq(Positions(f))
  BY <1>1, <1>3, ConcatProperties
<1>6. SeqAdd(t.next, Len(h)) \in Nat /\ t.queued - Len(g.bytes) \in Int
  BY <1>1, <1>3, SeqAddType, SegmentForm
<1>7. u \in TcpStates(f)
  BY <1>3, <1>4, <1>5, <1>6, IsTcpState
<1> QED
  BY <1>4, <1>7 DEF h, u

\* A segment that is due leaves no gap, and none of its bytes missing.
LEMMA TakeKeeps ==
    ASSUME wire \in DOMAIN Wires, NEW f \in Flows, NEW t \in TcpStates(f), DoneWhole(f, t),
           NEW g \in SegmentStates(f), SegmentWhole(g), ~SeqBefore(t.next, g.seq)
    PROVE  LET u == TakeSegment(t, g) IN
           /\ DoneWhole(f, u) /\ Reached(t) <= Reached(u)
           /\ \A p \in ToSet(g.bytes) : p < Reached(u)
<1> DEFINE h == NewBytes(t, g)
           u == TakeSegment(t, g)
           x == g.bytes[1]
           n == Len(g.bytes)
           r == Reached(t)
           S == Positions(f)
<1>1. /\ t.buffer \in Seq(S) /\ t.read \in Seq(S) /\ Len(t.buffer) \in Nat /\ Len(t.read) \in Nat
      /\ t.from \in Nat /\ r \in Nat
  BY TcpParts
<1>2. /\ n \in Nat /\ n >= 1 /\ x \in Nat /\ x + n <= StreamLen(f) /\ g.bytes \in Seq(S)
      /\ \A i \in 1 .. n : g.bytes[i] = x + i - 1
      /\ \A p : p \in ToSet(g.bytes) <=> p \in x .. (x + n) - 1
  BY SegmentForm
<1>3. /\ Consecutive(t.read \o t.buffer, t.from) /\ (t.from % BatchLen) = 0
      /\ t.next = Seqno(r) /\ r <= StreamLen(f) /\ g.seq = Seqno(x)
  BY DEF DoneWhole, SegmentWhole
<1>4. StreamLen(f) \in Nat /\ StreamLen(f) < SeqModulus \div 2 /\ SeqModulus \in Nat \ {0}
  BY StreamIs
<1>5. /\ u.buffer = t.buffer \o h /\ u.next = SeqAdd(t.next, Len(h))
      /\ u.read = t.read /\ u.from = t.from
  BY TakeForm
<1>6. h \in Seq(S) /\ Len(h) \in Nat
  BY NewBytesType
<1> HIDE DEF S, u, x, n, r
<1>x. /\ x + n < SeqModulus \div 2 /\ x < SeqModulus \div 2 /\ r < SeqModulus \div 2
      /\ x + n \in Nat
  <2> DEFINE H == SeqModulus \div 2
  <2>1. H \in Int
    BY <1>4
  <2> HIDE DEF H
  <2>2. StreamLen(f) < H
    BY <1>4 DEF H
  <2>3. x + n < H /\ x < H /\ r < H /\ x + n \in Nat
    BY <1>1, <1>2, <1>3, <1>4, <2>1, <2>2
  <2> QED
    BY <2>3 DEF H
<1>7. ~(r < x)
  BY <1>1, <1>2, <1>3, <1>x, SeqnoOrder
<1>8. SeqAdd(g.seq, n) = Seqno(x + n)
  BY <1>2, <1>3, <1>x, SeqnoAdd
<1>9. SeqLte(SeqAdd(g.seq, n), t.next) <=> x + n <= r
  BY <1>1, <1>3, <1>8, <1>x, SeqnoOrder
<1>10. /\ Len(h) = IF x + n <= r THEN 0 ELSE (x + n) - r
       /\ Consecutive(h, r)
  <2>1. CASE x + n <= r
    <3>1. h = <<>>
      BY <1>9, <2>1 DEF NewBytes, n
    <3>2. Len(<<>>) = 0
      OBVIOUS
    <3> HIDE DEF h
    <3> QED
      BY <2>1, <3>1, <3>2 DEF Consecutive
  <2>2. CASE ~(x + n <= r)
    <3>1. ((t.next - g.seq) % SeqModulus) = r - x
      <4>1. x <= r
        BY <1>1, <1>2, <1>7
      <4>2. ((Seqno(r) - Seqno(x)) % SeqModulus) = r - x
        BY <1>1, <1>2, <1>x, <4>1, SeqnoMinus
      <4> QED
        BY <1>3, <4>2
    <3> DEFINE o == (t.next - g.seq) % SeqModulus
    <3>2. h = SubSeq(g.bytes, o + 1, n) /\ o = r - x
      BY <1>9, <2>2, <3>1 DEF NewBytes, n
    <3> HIDE DEF o, h
    <3>3. o \in Nat /\ o < n
      BY <1>1, <1>2, <1>7, <2>2, <3>2
    <3>4. \A i \in o + 1 .. n : g.bytes[i] \in S
      <4>1. \A i \in 1 .. n : g.bytes[i] \in S
        BY <1>2, LenProperties DEF n
      <4> QED
        BY <1>2, <3>3, <4>1
    <3>5. /\ Len(h) = IF o + 1 <= n THEN n - (o + 1) + 1 ELSE 0
          /\ \A i \in 1 .. n - (o + 1) + 1 : h[i] = g.bytes[(o + 1) + i - 1]
      <4> DEFINE m == o + 1
      <4>1. m \in Int /\ n \in Int /\ \A i \in m .. n : g.bytes[i] \in S
        BY <1>2, <3>3, <3>4
      <4>2. h = SubSeq(g.bytes, m, n)
        BY <3>2
      <4> HIDE DEF m
      <4>3. /\ Len(SubSeq(g.bytes, m, n)) = IF m <= n THEN n - m + 1 ELSE 0
            /\ \A i \in 1 .. n - m + 1 : SubSeq(g.bytes, m, n)[i] = g.bytes[m + i - 1]
        BY <4>1, SubSeqProperties
      <4> QED
        BY <4>2, <4>3 DEF m
    <3>6. Len(h) = (x + n) - r
      BY <1>1, <1>2, <3>2, <3>3, <3>5
    <3>7. ASSUME NEW i \in 1 .. Len(h) PROVE h[i] = r + i - 1
      <4>1. i \in 1 .. n - (o + 1) + 1 /\ (o + 1) + i - 1 \in 1 .. n
        BY <1>2, <3>3, <3>5
      <4>2. g.bytes[(o + 1) + i - 1] = x + ((o + 1) + i - 1) - 1
        BY <1>2, <4>1
      <4>3. x + ((o + 1) + i - 1) - 1 = r + i - 1
        BY <1>1, <1>2, <3>2
      <4> QED
        BY <3>5, <4>1, <4>2, <4>3
    <3> QED
      BY <2>2, <3>6, <3>7 DEF Consecutive
  <2> QED
    BY <2>1, <2>2
<1> HIDE DEF h
<1>11. Len(u.buffer) = Len(t.buffer) + Len(h)
  BY <1>1, <1>5, <1>6, ConcatProperties
<1>12. Reached(u) = r + Len(h)
  BY <1>1, <1>5, <1>6, <1>11 DEF Reached, r
<1>13. Reached(u) <= StreamLen(f) /\ r <= Reached(u) /\ x + n <= Reached(u)
  BY <1>1, <1>2, <1>3, <1>4, <1>6, <1>10, <1>12
<1>14. u.next = Seqno(Reached(u))
  <2>1. r + Len(h) < SeqModulus \div 2
    <3> DEFINE H == SeqModulus \div 2
    <3>1. H \in Int /\ StreamLen(f) < H
      BY <1>4
    <3> HIDE DEF H
    <3>2. r + Len(h) < H
      BY <1>1, <1>4, <1>6, <1>12, <1>13, <3>1
    <3> QED
      BY <3>2 DEF H
  <2>2. SeqAdd(Seqno(r), Len(h)) = Seqno(r + Len(h))
    BY <1>1, <1>6, <2>1, SeqnoAdd
  <2> QED
    BY <1>3, <1>5, <1>12, <2>2
<1>15. Consecutive(u.read \o u.buffer, u.from)
  <2>1. Consecutive(t.read, t.from) /\ Consecutive(t.buffer, t.from + Len(t.read))
    BY <1>1, <1>3, ConsecutiveParts
  <2>2. (t.from + Len(t.read)) + Len(t.buffer) = r /\ t.from + Len(t.read) \in Nat
    BY <1>1 DEF r, Reached
  <2>3. Consecutive(t.buffer \o h, t.from + Len(t.read))
    BY <1>1, <1>6, <1>10, <2>1, <2>2, ConsecutiveParts
  <2>4. t.buffer \o h \in Seq(S)
    BY <1>1, <1>6, ConcatProperties
  <2>5. Consecutive(t.read \o (t.buffer \o h), t.from)
    BY <1>1, <2>1, <2>3, <2>4, ConsecutiveParts
  <2> QED
    BY <1>5, <2>5
<1>16. DoneWhole(f, u)
  BY <1>3, <1>5, <1>13, <1>14, <1>15 DEF DoneWhole
<1>17. ASSUME NEW p \in ToSet(g.bytes) PROVE p < Reached(u)
  <2>1. p \in x .. (x + n) - 1
    BY <1>2
  <2>2. Reached(u) \in Int
    BY <1>1, <1>6, <1>12
  <2> QED
    BY <1>2, <1>13, <2>1, <2>2
<1> QED
  BY <1>13, <1>16, <1>17 DEF u, r

\* Queued segments have lengths.
LEMMA SegmentsAreLengths ==
    ASSUME wire \in DOMAIN Wires, NEW f \in Flows, NEW s \in Seq(SegmentStates(f))
    PROVE  /\ s \in Seq(Lengths) /\ Len(s) \in Nat /\ DOMAIN s = 1 .. Len(s)
           /\ \A n \in 1 .. Len(s) : s[n] \in SegmentStates(f)
<1>1. \A g \in SegmentStates(f) : g \in Lengths
  BY SegmentForm
<1> DEFINE S == SegmentStates(f)
<1> HIDE DEF S
<1>2. s \in Seq(Lengths)
  BY <1>1 DEF S
<1> QED
  BY <1>2, LenProperties DEF S

\* flush_contiguous.
LEMMA FlushKeeps ==
    ASSUME wire \in DOMAIN Wires, NEW f \in Flows, NEW t \in TcpStates(f), QueueWhole(t),
           DoneWhole(f, t)
    PROVE  LET u == FlushContiguous(t) IN
           /\ u \in TcpStates(f) /\ QueueWhole(u) /\ DoneWhole(f, u)
           /\ u.aligned = t.aligned /\ u.known = t.known /\ u.read = t.read /\ u.from = t.from
           /\ u.queued <= t.queued /\ Len(u.segments) <= Len(t.segments)
           /\ Reached(t) <= Reached(u)
           /\ \A i \in 1 .. Len(t.segments) : InQueue(u, ToSet(t.segments[i].bytes))
<1> DEFINE s == t.segments
           N == Len(s)
           S == TcpStates(f)
           Is(g) == g = [n \in 0 .. Len(s) |-> IF n = 0 THEN t ELSE TakeSegment(g[n - 1], s[n])]
           v == CHOOSE g : Is(g)
           ends == {n \in 0 .. Len(s) : n < Len(s) => SeqBefore(v[n].next, s[n + 1].seq)}
           m == Min(ends)
           r == SubSeq(s, m + 1, Len(s))
           H == [x \in (1 .. N) \X S |-> TakeSegment(x[2], s[x[1]])]
<1>1. FlushContiguous(t) = [v[m] EXCEPT !.segments = r]
  BY DEF FlushContiguous
<1>2. /\ N \in Nat /\ s \in Seq(Lengths) /\ \A n \in 1 .. N : s[n] \in SegmentStates(f) /\ SegmentWhole(s[n])
      /\ t.queued = Bytes(s) /\ s \in Seq(SegmentStates(f)) /\ t.queued \in Int
  <2>1. s \in Seq(SegmentStates(f)) /\ t.queued \in Int
    BY TcpParts
  <2> HIDE DEF s
  <2>2. /\ s \in Seq(Lengths) /\ Len(s) \in Nat /\ \A n \in 1 .. Len(s) : s[n] \in SegmentStates(f)
    BY <2>1, SegmentsAreLengths
  <2> QED
    BY <2>1, <2>2 DEF QueueWhole, s
<1>3. PICK q : IsTally(s, q) /\ Bytes(s) = q[N]
  BY <1>2, BytesCounted
<1>4. /\ q \in [0 .. N -> Int] /\ q[0] = 0 /\ \A n \in 1 .. N : q[n] = q[n - 1] + Len(s[n].bytes)
  BY <1>3 DEF IsTally
<1> HIDE DEF s
<1>5. ASSUME NEW n \in 1 .. N, NEW X \in S PROVE TakeSegment(X, s[n]) \in S
  BY <1>2, TakeForm
<1> HIDE DEF S
<1>6. /\ H \in [(1 .. N) \X S -> S]
      /\ \A n \in 1 .. N, X \in S : H[<<n, X>>] = TakeSegment(X, s[n])
  BY <1>5
<1> HIDE DEF H
<1>7. PICK g \in [0 .. N -> S] : g[0] = t /\ \A n \in 1 .. N : g[n] = H[<<n, g[n - 1]>>]
  <2>1. H \in BoundedTurns(S, N)
    BY <1>6 DEF BoundedTurns
  <2>2. t \in S
    BY DEF S
  <2>3. BoundedIterations(S, t, N, H) # {}
    BY <1>2, <2>1, <2>2, BoundedRecursion
  <2> QED
    BY <2>3 DEF BoundedIterations
<1>8. ASSUME NEW n \in 1 .. N PROVE g[n] = TakeSegment(g[n - 1], s[n])
  <2>1. n - 1 \in 0 .. N
    BY <1>2
  <2> QED
    BY <1>6, <1>7, <2>1
<1>9. Is(g)
  <2>1. ASSUME NEW n \in 0 .. N
        PROVE  g[n] = IF n = 0 THEN t ELSE TakeSegment(g[n - 1], s[n])
    <3>1. n # 0 => n \in 1 .. N
      OBVIOUS
    <3> QED
      BY <1>7, <1>8, <3>1
  <2> QED
    BY <1>7, <2>1
<1>10. Is(v)
  BY <1>9
<1> HIDE DEF v
<1>11. /\ v[0] = t
       /\ \A n \in 1 .. N : v[n] = TakeSegment(v[n - 1], s[n])
  <2>1. ASSUME NEW n \in 0 .. N
        PROVE  v[n] = IF n = 0 THEN t ELSE TakeSegment(v[n - 1], s[n])
    BY <1>10, Zenon
  <2>2. 0 \in 0 .. N /\ \A n \in 1 .. N : n \in 0 .. N /\ n # 0
    BY <1>2
  <2> HIDE DEF N
  <2> QED
    BY <2>1, <2>2
<1> HIDE DEF Is
<1>12. m \in 0 .. N /\ m \in ends /\ \A n \in ends : m <= n
  <2>1. N \in ends /\ ends \subseteq 0 .. N /\ ends \subseteq Nat
    BY <1>2
  <2> HIDE DEF ends
  <2> QED
    BY <2>1, MinIs
<1>13. ASSUME NEW n \in 0 .. m, n < m PROVE ~SeqBefore(v[n].next, s[n + 1].seq)
  <2>1. n \notin ends
    BY <1>2, <1>12, <1>13
  <2>2. n \in 0 .. N
    BY <1>2, <1>12, <1>13
  <2> QED
    BY <2>1, <2>2
<1> HIDE DEF ends, m
<1> DEFINE Good(n) ==
             /\ v[n] \in S /\ DoneWhole(f, v[n]) /\ v[n].queued = t.queued - q[n]
             /\ Reached(t) <= Reached(v[n])
             /\ v[n].aligned = t.aligned /\ v[n].known = t.known
             /\ v[n].read = t.read /\ v[n].from = t.from
             /\ \A i \in 1 .. n : \A p \in ToSet(s[i].bytes) : p < Reached(v[n])
<1>14. 0 .. m \subseteq {n \in 0 .. m : Good(n)}
  <2> DEFINE T == {n \in 0 .. m : Good(n)}
  <2>0. m \in Nat
    BY <1>2, <1>12
  <2>1. 0 \in T
    <3>1. t \in S
      BY DEF S
    <3>2. Reached(t) <= Reached(t)
      BY TcpParts
    <3>3. t.queued = t.queued - q[0]
      BY <1>2, <1>4
    <3>4. Good(0)
      BY <1>11, <3>1, <3>2, <3>3
    <3> QED
      BY <2>0, <3>4
  <2>2. ASSUME NEW n \in 0 .. m, n < m, n \in T PROVE n + 1 \in T
    <3>1. n + 1 \in 1 .. N /\ n + 1 \in 0 .. m /\ (n + 1) - 1 = n /\ n \in 0 .. N
      BY <1>2, <1>12, <2>0, <2>2
    <3>2. Good(n)
      BY <2>2
    <3> DEFINE X == v[n]
               Y == v[n + 1]
               d == s[n + 1]
    <3>3. Y = TakeSegment(X, d)
      BY <1>11, <3>1
    <3>4. X \in TcpStates(f) /\ DoneWhole(f, X) /\ d \in SegmentStates(f) /\ SegmentWhole(d)
      BY <1>2, <3>1, <3>2 DEF S
    <3>5. ~SeqBefore(X.next, d.seq)
      BY <1>13, <2>2
    <3> HIDE DEF X, Y, d
    <3>6. /\ DoneWhole(f, Y) /\ Reached(X) <= Reached(Y)
          /\ \A p \in ToSet(d.bytes) : p < Reached(Y)
      BY <3>3, <3>4, <3>5, TakeKeeps
    <3>7. /\ Y \in TcpStates(f) /\ Y.aligned = X.aligned /\ Y.known = X.known
          /\ Y.queued = X.queued - Len(d.bytes) /\ Y.read = X.read /\ Y.from = X.from
      BY <3>3, <3>4, TakeForm
    <3>8. Reached(X) \in Nat /\ Reached(Y) \in Nat /\ Reached(t) \in Nat
      BY <3>4, <3>7, TcpParts
    <3>9. Reached(t) <= Reached(Y)
      <4>1. Reached(t) <= Reached(X)
        BY <3>2 DEF X
      <4> QED
        BY <3>6, <3>8, <4>1
    <3>10. Y.queued = t.queued - q[n + 1]
      <4>1. X.queued = t.queued - q[n] /\ q[n + 1] = q[n] + Len(d.bytes)
        BY <1>4, <3>1, <3>2 DEF X, d
      <4>2. q[n] \in Int /\ Len(d.bytes) \in Nat
        BY <1>4, <3>1, <3>4, SegmentForm
      <4> QED
        BY <1>2, <3>7, <4>1, <4>2
    <3>11. ASSUME NEW i \in 1 .. n + 1, NEW p \in ToSet(s[i].bytes) PROVE p < Reached(Y)
      <4>1. CASE i = n + 1
        BY <3>6, <3>11, <4>1 DEF d
      <4>2. CASE i # n + 1
        <5>1. i \in 1 .. n /\ i \in 1 .. N
          BY <3>1, <4>2
        <5>2. p < Reached(X)
          BY <3>2, <5>1, <3>11 DEF X
        <5>3. p \in Nat
          <6>1. s[i] \in SegmentStates(f) /\ SegmentWhole(s[i])
            BY <1>2, <5>1
          <6>2. /\ p \in s[i].bytes[1] .. (s[i].bytes[1] + Len(s[i].bytes)) - 1
                /\ s[i].bytes[1] \in Nat /\ Len(s[i].bytes) \in Nat
            BY <3>11, <6>1, SegmentForm
          <6> QED
            BY <6>2
        <5> QED
          BY <3>6, <3>8, <5>2, <5>3
      <4> QED
        BY <4>1, <4>2
    <3>12. /\ Y.aligned = t.aligned /\ Y.known = t.known /\ Y.read = t.read /\ Y.from = t.from
      BY <3>2, <3>7 DEF X
    <3>13. Good(n + 1)
      BY <3>6, <3>7, <3>9, <3>10, <3>11, <3>12 DEF Y, S
    <3> QED
      BY <3>1, <3>13
  <2> HIDE DEF T
  <2>3. 0 .. m \subseteq T
    BY <2>0, <2>1, <2>2, BoundedInduction
  <2> QED
    BY <2>3 DEF T
<1>15. Good(m)
  <2>1. m \in 0 .. m
    BY <1>2, <1>12
  <2> QED
    BY <1>14, <2>1
<1> DEFINE X == v[m]
           u == [X EXCEPT !.segments = r]
<1>16. X \in TcpStates(f)
  BY <1>15 DEF S
<1>17. /\ r \in Seq(SegmentStates(f)) /\ Len(r) = N - m
       /\ \A i \in 1 .. N - m : r[i] = s[m + i]
       /\ Bytes(r) = q[N] - q[m]
  <2>0. m \in Nat /\ m <= N /\ N \in Nat
    BY <1>2, <1>12
  <2>1. \A i \in m + 1 .. N : s[i] \in SegmentStates(f)
    BY <1>2, <2>0
  <2> DEFINE k == m + 1
  <2>2. k \in Int /\ N \in Int /\ r = SubSeq(s, k, N) /\ \A i \in k .. N : s[i] \in SegmentStates(f)
    BY <2>0, <2>1
  <2>3. Bytes(r) = q[N] - q[m]
    BY <1>2, <1>3, <1>12, BytesOfRest
  <2> HIDE DEF r, k
  <2>4. /\ r \in Seq(SegmentStates(f)) /\ Len(r) = IF k <= N THEN N - k + 1 ELSE 0
        /\ \A i \in 1 .. N - k + 1 : r[i] = s[k + i - 1]
    <3> HIDE DEF N
    <3> QED
      BY <2>2, SubSeqProperties
  <2>5. Len(r) = N - m
    BY <2>0, <2>4 DEF k
  <2>6. ASSUME NEW i \in 1 .. N - m PROVE r[i] = s[m + i]
    <3>1. i \in 1 .. N - k + 1 /\ k + i - 1 = m + i
      BY <2>0 DEF k
    <3> QED
      BY <2>4, <3>1
  <2> QED
    BY <2>3, <2>4, <2>5, <2>6
<1> HIDE DEF r, X
<1>18. /\ u \in TcpStates(f) /\ u.aligned = X.aligned /\ u.known = X.known /\ u.read = X.read
       /\ u.from = X.from /\ u.segments = r /\ u.queued = X.queued /\ u.buffer = X.buffer
       /\ u.next = X.next
  <2>1. /\ X = [aligned |-> X.aligned, next |-> X.next, segments |-> X.segments,
                   queued |-> X.queued, buffer |-> X.buffer, read |-> X.read,
                   from |-> X.from, known |-> X.known]
        /\ X.aligned \in BOOLEAN /\ X.known \in BOOLEAN /\ X.next \in Nat /\ X.queued \in Int
        /\ X.segments \in Seq(SegmentStates(f)) /\ X.from \in Nat
        /\ X.buffer \in Seq(Positions(f)) /\ X.read \in Seq(Positions(f))
    BY <1>16, TcpParts
  <2>2. u = [aligned |-> X.aligned, next |-> X.next, segments |-> r,
                   queued |-> X.queued, buffer |-> X.buffer, read |-> X.read,
                   from |-> X.from, known |-> X.known]
    <3>1. u = [X EXCEPT !.segments = r]
      OBVIOUS
    <3> HIDE DEF u
    <3> QED
      BY <2>1, <3>1
  <2> HIDE DEF u
  <2>3. u \in TcpStates(f)
    BY <1>17, <2>1, <2>2, IsTcpState
  <2> QED
    BY <2>2, <2>3
<1>19. u = FlushContiguous(t)
  BY <1>1 DEF X
<1> HIDE DEF u
<1>20. Reached(u) = Reached(X)
  BY <1>18 DEF Reached
<1>21. DoneWhole(f, u)
  <2>1. DoneWhole(f, X)
    BY <1>15 DEF X
  <2> QED
    BY <1>18, <1>20, <2>1 DEF DoneWhole
<1>22. QueueWhole(u)
  <2>1. u.queued = Bytes(r)
    <3>1. u.queued = t.queued - q[m]
      BY <1>15, <1>18 DEF X
    <3> QED
      BY <1>2, <1>3, <1>17, <3>1
  <2>2. ASSUME NEW i \in 1 .. Len(r) PROVE SegmentWhole(r[i])
    <3>1. i \in 1 .. N - m /\ m + i \in 1 .. N
      BY <1>2, <1>12, <1>17
    <3> QED
      BY <1>2, <1>17, <3>1
  <2> QED
    BY <1>18, <2>1, <2>2 DEF QueueWhole
<1>23. u.queued <= t.queued /\ Len(u.segments) <= N
  <2>1. q[m] >= 0 /\ q[m] \in Int
    BY <1>2, <1>3, <1>4, <1>12, TallyGrows
  <2>2. u.queued = t.queued - q[m]
    BY <1>15, <1>18 DEF X
  <2>3. u.queued <= t.queued
    BY <1>2, <2>1, <2>2
  <2> QED
    BY <1>2, <1>12, <1>17, <1>18, <2>3
<1>24. ASSUME NEW i \in 1 .. N PROVE InQueue(u, ToSet(s[i].bytes))
  <2>1. SUFFICES ASSUME NEW p \in ToSet(s[i].bytes), p >= Reached(u)
                 PROVE  \E j \in 1 .. Len(u.segments) : p \in ToSet(u.segments[j].bytes)
    BY DEF InQueue
  <2>2. m < i
    <3>1. SUFFICES ASSUME i <= m PROVE FALSE
      BY <1>2, <1>12
    <3>2. i \in 1 .. m
      BY <1>2, <1>12, <3>1
    <3>3. p < Reached(X)
      BY <1>15, <2>1, <3>2 DEF X
    <3>4. s[i] \in SegmentStates(f) /\ SegmentWhole(s[i])
      BY <1>2
    <3>5. /\ p \in s[i].bytes[1] .. (s[i].bytes[1] + Len(s[i].bytes)) - 1
          /\ s[i].bytes[1] \in Nat /\ Len(s[i].bytes) \in Nat
      BY <2>1, <3>4, SegmentForm
    <3>6. Reached(X) \in Nat
      BY <1>16, TcpParts
    <3> QED
      BY <1>20, <2>1, <3>3, <3>5, <3>6
  <2>3. i - m \in 1 .. N - m /\ m + (i - m) = i
    BY <1>2, <1>12, <2>2
  <2>4. r[i - m] = s[i] /\ i - m \in 1 .. Len(r)
    BY <1>17, <2>3
  <2> QED
    BY <1>18, <2>1, <2>4
<1>25. /\ u.aligned = t.aligned /\ u.known = t.known /\ u.read = t.read /\ u.from = t.from
       /\ Reached(t) <= Reached(u)
  BY <1>15, <1>18, <1>20 DEF X
<1>26. \A i \in 1 .. Len(t.segments) : InQueue(u, ToSet(t.segments[i].bytes))
  BY <1>24 DEF s
<1>27. Len(u.segments) <= Len(t.segments)
  BY <1>23 DEF s
<1> QED
  BY <1>18, <1>19, <1>21, <1>22, <1>23, <1>25, <1>26, <1>27

\* The bytes of a captured segment.
Bytestring(a, b) == [i \in 1 .. b - a |-> a + i - 1]

\* A captured segment is a part of the stream.
LEMMA BytestringForm ==
    ASSUME wire \in DOMAIN Wires, NEW f \in Flows, NEW a \in Nat, NEW b \in Nat, a < b,
           b <= StreamLen(f)
    PROVE  LET byte == Bytestring(a, b)
               g == [seq |-> Seqno(a), bytes |-> byte]
           IN
           /\ byte \in Seq(Positions(f)) /\ Len(byte) = b - a /\ Consecutive(byte, a)
           /\ byte[1] = a /\ g \in SegmentStates(f) /\ SegmentWhole(g)
           /\ \A p : p \in ToSet(byte) <=> p \in a .. b - 1
<1> DEFINE byte == Bytestring(a, b)
           g == [seq |-> Seqno(a), bytes |-> byte]
           n == b - a
<1>1. /\ \A p : p \in Positions(f) <=> p \in Nat /\ p < StreamLen(f)
      /\ StreamLen(f) \in Nat /\ StreamLen(f) < SeqModulus \div 2 /\ SeqModulus \in Nat \ {0}
  BY StreamIs
<1>2. n \in Nat /\ n >= 1
  OBVIOUS
<1>3. byte \in Seq(Positions(f)) /\ Len(byte) = n /\ \A i \in 1 .. n : byte[i] = a + i - 1
  <2>1. ASSUME NEW i \in 1 .. n PROVE a + i - 1 \in Positions(f)
    BY <1>1
  <2>2. byte = [i \in 1 .. n |-> a + i - 1]
    BY DEF Bytestring
  <2> HIDE DEF byte, n
  <2> QED
    BY <1>2, <2>1, <2>2
<1> HIDE DEF byte
<1>4. Consecutive(byte, a) /\ byte[1] = a
  BY <1>2, <1>3 DEF Consecutive
<1>5. Seqno(a) \in Nat
  <2>1. a < SeqModulus
    BY <1>1
  <2> QED
    BY <1>1, <2>1, SeqnoIs
<1>6. g \in SegmentStates(f)
  BY <1>3, <1>5 DEF SegmentStates
<1>7. SegmentWhole(g)
  <2>1. byte # <<>>
    BY <1>2, <1>3
  <2>2. g.bytes = byte /\ g.seq = Seqno(a)
    OBVIOUS
  <2> HIDE DEF g
  <2> QED
    BY <1>4, <2>1, <2>2 DEF SegmentWhole
<1>8. \A p : p \in ToSet(byte) <=> p \in a .. b - 1
  <2>1. g.bytes = byte
    OBVIOUS
  <2> HIDE DEF g
  <2>2. \A p : p \in ToSet(g.bytes) <=> p \in g.bytes[1] .. (g.bytes[1] + Len(g.bytes)) - 1
    BY <1>6, <1>7, SegmentForm
  <2>3. (a + n) - 1 = b - 1
    OBVIOUS
  <2> QED
    BY <1>3, <1>4, <2>1, <2>2, <2>3
<1> QED
  BY <1>3, <1>4, <1>6, <1>7, <1>8 DEF byte

\* The sequence number after a captured segment.
LEMMA SeqnoEnd ==
    ASSUME wire \in DOMAIN Wires, NEW f \in Flows, NEW a \in Nat, NEW b \in Nat, a < b,
           b <= StreamLen(f)
    PROVE  /\ SeqAdd(Seqno(a), b - a) = Seqno(b) /\ Seqno(b) \in Nat
           /\ a < SeqModulus \div 2 /\ b < SeqModulus \div 2
<1>0. StreamLen(f) \in Nat /\ StreamLen(f) < SeqModulus \div 2 /\ SeqModulus \in Nat \ {0}
  BY StreamIs
<1> DEFINE H == SeqModulus \div 2
<1>1. H \in Int /\ StreamLen(f) < H /\ H <= SeqModulus
  BY <1>0
<1>2. b < H
  <2> HIDE DEF H
  <2> QED
    BY <1>0, <1>1
<1>3. b < SeqModulus /\ b - a \in Nat /\ a + (b - a) = b
  <2> HIDE DEF H
  <2> QED
    BY <1>0, <1>1, <1>2
<1>4. SeqAdd(Seqno(a), b - a) = Seqno(a + (b - a))
  <2>1. a + (b - a) < SeqModulus \div 2
    BY <1>2, <1>3
  <2> DEFINE n == b - a
  <2>2. n \in Nat /\ a + n < SeqModulus \div 2
    BY <1>3, <2>1
  <2> HIDE DEF n
  <2>3. SeqAdd(Seqno(a), n) = Seqno(a + n)
    BY <2>2, SeqnoAdd
  <2> QED
    BY <2>3 DEF n
<1>5. Seqno(b) \in Nat
  BY <1>3, SeqnoIs
<1>6. a < H
  <2> HIDE DEF H
  <2> QED
    BY <1>1, <1>2
<1>7. SeqAdd(Seqno(a), b - a) = Seqno(b)
  BY <1>3, <1>4
<1> QED
  BY <1>2, <1>5, <1>6, <1>7

\* try_align_from_segment.
LEMMA TryAlignKeeps ==
    ASSUME wire \in DOMAIN Wires, NEW f \in Flows, NEW t, FlowExact(f, t), ~t.aligned, t.known,
           NEW a \in Nat, NEW b \in Nat, a < b, b <= StreamLen(f)
    PROVE  LET r == TryAlign(f, t, Seqno(a), Bytestring(a, b)) IN
           /\ FlowExact(f, r.state) /\ r.state.known /\ r.msgs \in Seq(ToSet(Stream(f)))
           /\ r.kept = FALSE /\ (r.state.aligned => InQueue(r.state, a .. b - 1))
<1> DEFINE byte == Bytestring(a, b)
           h == FrameBatches(f, byte)
           r == TryAlign(f, t, Seqno(a), byte)
           P == Positions(f)
           M == ToSet(Stream(f))
           none == h.failed \/ \A i \in DOMAIN h.msgs : h.msgs[i].kind = "empty"
           z == [t EXCEPT !.aligned = TRUE, !.next = SeqAdd(Seqno(a), Len(byte)),
                            !.segments = <<>>, !.queued = 0, !.buffer = h.rest,
                            !.read = h.read, !.from = Head(byte)]
<1>1. r = IF none THEN [state |-> t, msgs |-> <<>>, kept |-> FALSE]
          ELSE [state |-> z, msgs |-> h.msgs, kept |-> FALSE]
  BY DEF TryAlign
<1>2. byte \in Seq(P) /\ Len(byte) = b - a /\ Consecutive(byte, a) /\ byte[1] = a
  BY BytestringForm
<1>3. /\ h.read \in Seq(P) /\ h.rest \in Seq(P) /\ h.msgs \in Seq(M)
      /\ Len(h.read) + Len(h.rest) = Len(byte)
      /\ \A i \in 1 .. Len(h.read) : h.read[i] = byte[i]
      /\ \A i \in 1 .. Len(h.rest) : h.rest[i] = byte[Len(h.read) + i]
      /\ ~h.failed => Len(h.rest) < BatchLen
      /\ ~h.failed /\ DOMAIN h.msgs # {} => Len(byte) >= 1 /\ (byte[1] % BatchLen) = 0
  BY <1>2, BatchesForm
<1> HIDE DEF byte, h, M
<1>4. CASE none
  <2>1. r.state = t /\ r.msgs = <<>> /\ r.kept = FALSE
    BY <1>1, <1>4
  <2>2. <<>> \in Seq(M)
    OBVIOUS
  <2> QED
    BY <2>1, <2>2 DEF byte, M
<1>5. CASE ~none
  <2>1. r.state = z /\ r.msgs = h.msgs /\ r.kept = FALSE
    BY <1>1, <1>5
  <2>2. ~h.failed /\ DOMAIN h.msgs # {}
    BY <1>5
  <2>3. (a % BatchLen) = 0 /\ Len(h.rest) < BatchLen
    BY <1>2, <1>3, <2>2
  <2>4. Head(byte) = a
    <3>1. byte # <<>>
      BY <1>2
    <3> QED
      BY <1>2, <3>1, HeadTailProperties
  <2>5. StreamLen(f) \in Nat /\ StreamLen(f) < SeqModulus \div 2 /\ SeqModulus \in Nat \ {0}
    BY StreamIs
  <2>6. SeqAdd(Seqno(a), Len(byte)) = Seqno(b) /\ Seqno(b) \in Nat
    BY <1>2, SeqnoEnd
  <2>7. /\ t = [aligned |-> t.aligned, next |-> t.next, segments |-> t.segments,
                   queued |-> t.queued, buffer |-> t.buffer, read |-> t.read,
                   from |-> t.from, known |-> t.known]
        /\ t.known \in BOOLEAN
    BY TcpParts DEF FlowExact
  <2>8. z = [aligned |-> TRUE, next |-> Seqno(b), segments |-> <<>>,
                   queued |-> 0, buffer |-> h.rest, read |-> h.read,
                   from |-> a, known |-> t.known]
    <3>1. z = [t EXCEPT !.aligned = TRUE, !.next = Seqno(b),
                            !.segments = <<>>, !.queued = 0, !.buffer = h.rest,
                            !.read = h.read, !.from = a]
      BY <2>4, <2>6
    <3> HIDE DEF z
    <3> QED
      BY <2>7, <3>1
  <2> HIDE DEF z
  <2>9. z \in TcpStates(f)
    <3>1. /\ <<>> \in Seq(SegmentStates(f)) /\ TRUE \in BOOLEAN /\ t.known \in BOOLEAN
          /\ Seqno(b) \in Nat /\ 0 \in Int /\ a \in Nat
          /\ h.rest \in Seq(Positions(f)) /\ h.read \in Seq(Positions(f))
      BY <1>3, <2>6, <2>7
    <3> QED
      BY <2>8, <3>1 DEF TcpStates
  <2>10. /\ z.aligned = TRUE /\ z.next = Seqno(b) /\ z.segments = <<>> /\ z.queued = 0
         /\ z.buffer = h.rest /\ z.read = h.read /\ z.from = a /\ z.known = t.known
    BY <2>8
  <2>11. Reached(z) = b
    <3>1. Len(h.read) \in Nat /\ Len(h.rest) \in Nat
      BY <1>3, LenProperties
    <3>2. Len(h.read) + Len(h.rest) = b - a
      BY <1>2, <1>3
    <3> DEFINE x == Len(h.read)
               y == Len(h.rest)
    <3>x. x \in Nat /\ y \in Nat /\ x + y = b - a
      BY <3>1, <3>2
    <3> HIDE DEF x, y
    <3>y. a + x + y = b
      BY <3>x
    <3>3. a + Len(h.read) + Len(h.rest) = b
      BY <3>y DEF x, y
    <3> QED
      BY <2>10, <3>3 DEF Reached
  <2>12. Consecutive(z.read \o z.buffer, z.from)
    <3>1. Consecutive(h.read, a) /\ Consecutive(h.rest, a + Len(h.read))
      <4>1. /\ byte \in Seq(P) /\ h.read \in Seq(P) /\ h.rest \in Seq(P)
            /\ Len(h.read) + Len(h.rest) = Len(byte) /\ Consecutive(byte, a)
        BY <1>2, <1>3
      <4>2. /\ \A i \in 1 .. Len(h.read) : h.read[i] = byte[i]
            /\ \A i \in 1 .. Len(h.rest) : h.rest[i] = byte[Len(h.read) + i]
        BY <1>3
      <4> HIDE DEF P
      <4> QED
        BY <4>1, <4>2, Halves
    <3> QED
      BY <1>3, <2>10, <3>1, ConsecutiveParts
  <2>13. DoneWhole(f, z)
    BY <2>3, <2>10, <2>11, <2>12 DEF DoneWhole
  <2>14. Len(<<>>) = 0
    OBVIOUS
  <2>15. QueueWhole(z)
    BY <2>10, <2>14, BytesOfNone DEF QueueWhole
  <2>16. FlowExact(f, z)
    <3>1. 0 <= QueueBytes /\ 0 <= QueueSegments
      BY TransportAssumption
    <3> QED
      BY <2>3, <2>9, <2>10, <2>13, <2>14, <2>15, <3>1 DEF FlowExact
  <2>17. InQueue(z, a .. b - 1)
    BY <2>11 DEF InQueue
  <2> QED
    BY <1>3, <2>1, <2>10, <2>16, <2>17 DEF byte, M
<1> QED
  BY <1>4, <1>5

\* insert_segment, of bytes that the queue has not.
LEMMA InsertKeeps ==
    ASSUME wire \in DOMAIN Wires, NEW f \in Flows, NEW t, FlowExact(f, t), t.aligned,
           NEW a \in Nat, NEW b \in Nat, a < b, b <= StreamLen(f),
           ~Redundant(t, Seqno(a), Bytestring(a, b)), HasRoom(t, Bytestring(a, b)),
           NEW u, u = InsertSegment(t, Seqno(a), Bytestring(a, b))
    PROVE  /\ u \in TcpStates(f) /\ QueueWhole(u) /\ DoneWhole(f, u)
           /\ u.queued <= QueueBytes /\ Len(u.segments) <= QueueSegments
           /\ u.aligned /\ u.known /\ Reached(t) <= Reached(u)
           /\ \A i \in 1 .. Len(t.segments) : InQueue(u, ToSet(t.segments[i].bytes))
           /\ InQueue(u, a .. b - 1)
<1> DEFINE byte == Bytestring(a, b)
           g == [seq |-> Seqno(a), bytes |-> byte]
           s == t.segments
           N == Len(s)
           front == {i \in DOMAIN s : SeqLte(s[i].seq, Seqno(a))}
           place == Cardinality(front) + 1
           r == InsertAt(s, place, g)
<1>1. u = [t EXCEPT !.segments = r, !.queued = @ + Len(byte)]
  BY DEF InsertSegment
<1>2. /\ byte \in Seq(Positions(f)) /\ Len(byte) \in Nat /\ g \in SegmentStates(f) /\ SegmentWhole(g)
      /\ g.bytes = byte
  BY BytestringForm, LenProperties
<1>3. t \in TcpStates(f) /\ QueueWhole(t) /\ DoneWhole(f, t) /\ t.known
  BY DEF FlowExact
<1>4. /\ t = [aligned |-> t.aligned, next |-> t.next, segments |-> t.segments,
                   queued |-> t.queued, buffer |-> t.buffer, read |-> t.read,
                   from |-> t.from, known |-> t.known]
      /\ t.aligned \in BOOLEAN /\ t.known \in BOOLEAN /\ t.next \in Nat /\ t.queued \in Int
      /\ s \in Seq(SegmentStates(f)) /\ t.from \in Nat
      /\ t.buffer \in Seq(Positions(f)) /\ t.read \in Seq(Positions(f))
  BY <1>3, TcpParts
<1>5. /\ t.queued + Len(byte) <= QueueBytes /\ N < QueueSegments
      /\ t.queued = Bytes(s) /\ \A i \in 1 .. N : SegmentWhole(s[i])
  BY <1>3 DEF HasRoom, QueueWhole
<1> HIDE DEF byte, s
<1>6. s \in Seq(Lengths) /\ N \in Nat /\ DOMAIN s = 1 .. N /\ g \in Lengths
  BY <1>2, <1>4, SegmentsAreLengths, SegmentForm
<1> HIDE DEF N, g
<1>7. place \in 1 .. N + 1
  <2>1. IsFiniteSet(1 .. N) /\ Cardinality(1 .. N) = N
    BY <1>6, FS_Interval
  <2>2. front \subseteq 1 .. N
    BY <1>6
  <2> HIDE DEF front
  <2>3. IsFiniteSet(front) /\ Cardinality(front) <= N
    BY <2>1, <2>2, FS_Subset
  <2>4. Cardinality(front) \in Nat
    BY <2>3, FS_CardinalityType
  <2> QED
    BY <1>6, <2>3, <2>4
<1> HIDE DEF front, place, r
<1>8. /\ Len(r) = N + 1 /\ r[place] = g
      /\ \A n \in 1 .. place - 1 : r[n] = s[n]
      /\ \A n \in place + 1 .. N + 1 : r[n] = s[n - 1]
      /\ Bytes(r) = Bytes(s) + Len(byte)
  <2>1. place \in 1 .. Len(s) + 1
    BY <1>7 DEF N
  <2>2. /\ Len(InsertAt(s, place, g)) = Len(s) + 1 /\ InsertAt(s, place, g)[place] = g
        /\ \A n \in 1 .. place - 1 : InsertAt(s, place, g)[n] = s[n]
        /\ Bytes(InsertAt(s, place, g)) = Bytes(s) + Len(g.bytes)
    BY <1>6, <2>1, BytesOfInsert
  <2>3. ASSUME NEW n \in place + 1 .. Len(s) + 1 PROVE InsertAt(s, place, g)[n] = s[n - 1]
    BY <1>6, <2>1, BytesOfInsert
  <2> QED
    BY <1>2, <2>2, <2>3 DEF r, N
<1>9. r \in Seq(SegmentStates(f))
  <2> DEFINE S == SegmentStates(f)
  <2>1. s \in Seq(S) /\ g \in S /\ place \in 1 .. Len(s) + 1
    BY <1>2, <1>4, <1>7 DEF N
  <2> HIDE DEF S
  <2>2. InsertAt(s, place, g) \in Seq(S)
    BY <2>1, InsertAtForm
  <2> QED
    BY <2>2 DEF S, r
<1>10. u = [aligned |-> t.aligned, next |-> t.next, segments |-> r,
            queued |-> t.queued + Len(byte), buffer |-> t.buffer, read |-> t.read,
            from |-> t.from, known |-> t.known]
  BY <1>1, <1>4
<1>11. u \in TcpStates(f)
  <2>1. t.queued + Len(byte) \in Int
    BY <1>2, <1>4
  <2> QED
    BY <1>4, <1>9, <1>10, <2>1 DEF TcpStates
<1>12. /\ u.aligned = t.aligned /\ u.next = t.next /\ u.segments = r /\ u.queued = t.queued + Len(byte)
       /\ u.buffer = t.buffer /\ u.read = t.read /\ u.from = t.from /\ u.known = t.known
  BY <1>10
<1>13. ASSUME NEW n \in 1 .. N + 1 PROVE SegmentWhole(r[n])
  <2>1. CASE n < place
    <3>1. n \in 1 .. place - 1 /\ n \in 1 .. N
      BY <1>6, <1>7, <2>1
    <3> QED
      BY <1>5, <1>8, <3>1
  <2>2. CASE n = place
    BY <1>2, <1>8, <2>2
  <2>3. CASE n > place
    <3>1. n \in place + 1 .. N + 1 /\ n - 1 \in 1 .. N
      BY <1>6, <1>7, <2>3
    <3> QED
      BY <1>5, <1>8, <3>1
  <2> QED
    BY <1>6, <1>7, <2>1, <2>2, <2>3
<1>14. QueueWhole(u)
  BY <1>5, <1>8, <1>12, <1>13 DEF QueueWhole
<1>15. Reached(u) = Reached(t) /\ DoneWhole(f, u)
  BY <1>3, <1>12 DEF Reached, DoneWhole
<1>16. u.queued <= QueueBytes /\ Len(u.segments) <= QueueSegments
  <2>1. QueueSegments \in Nat
    BY TransportAssumption
  <2> QED
    BY <1>5, <1>6, <1>8, <1>12, <2>1
<1>17. ASSUME NEW i \in 1 .. N PROVE \E j \in 1 .. N + 1 : r[j] = s[i]
  <2>1. CASE i < place
    <3>1. i \in 1 .. place - 1 /\ i \in 1 .. N + 1
      BY <1>6, <1>7, <2>1
    <3> QED
      BY <1>8, <3>1
  <2>2. CASE ~(i < place)
    <3>1. i + 1 \in place + 1 .. N + 1 /\ i + 1 \in 1 .. N + 1 /\ (i + 1) - 1 = i
      BY <1>6, <1>7, <2>2
    <3>2. r[i + 1] = s[i]
      BY <1>8, <3>1
    <3> QED
      BY <3>1, <3>2
  <2> QED
    BY <2>1, <2>2
<1>18. \E j \in 1 .. N + 1 : r[j].bytes = byte
  BY <1>2, <1>7, <1>8
<1>19. ASSUME NEW i \in 1 .. N PROVE InQueue(u, ToSet(s[i].bytes))
  <2>1. PICK j \in 1 .. N + 1 : r[j] = s[i]
    BY <1>17
  <2>2. j \in 1 .. Len(u.segments) /\ u.segments[j] = s[i]
    BY <1>8, <1>12, <2>1
  <2> QED
    BY <2>2 DEF InQueue
<1>20. InQueue(u, a .. b - 1)
  <2>1. PICK j \in 1 .. N + 1 : r[j].bytes = byte
    BY <1>18
  <2>2. j \in 1 .. Len(u.segments) /\ u.segments[j].bytes = byte
    BY <1>8, <1>12, <2>1
  <2>3. \A p \in a .. b - 1 : p \in ToSet(byte)
    BY BytestringForm DEF byte
  <2> QED
    BY <2>2, <2>3 DEF InQueue
<1>22. Reached(t) <= Reached(u)
  <2>1. Reached(t) \in Nat
    BY <1>3, TcpParts
  <2> QED
    BY <1>15, <2>1
<1>21. u.aligned /\ u.known
  BY <1>3, <1>12 DEF FlowExact
<1> QED
  BY <1>11, <1>21, <1>22, <1>14, <1>15, <1>16, <1>19, <1>20 DEF s, N

\* insert_segment drops only what is there already.
LEMMA RedundantInQueue ==
    ASSUME wire \in DOMAIN Wires, NEW f \in Flows, NEW t, FlowExact(f, t), t.aligned,
           NEW a \in Nat, NEW b \in Nat, a < b, b <= StreamLen(f),
           Redundant(t, Seqno(a), Bytestring(a, b))
    PROVE  InQueue(t, a .. b - 1)
<1> DEFINE byte == Bytestring(a, b)
           R == Reached(t)
<1>1. Len(byte) = b - a
  BY BytestringForm
<1>2. /\ SeqAdd(Seqno(a), b - a) = Seqno(b)
      /\ a < SeqModulus \div 2 /\ b < SeqModulus \div 2
  BY SeqnoEnd
<1>3. t \in TcpStates(f) /\ QueueWhole(t) /\ DoneWhole(f, t)
  BY DEF FlowExact
<1>4. R \in Nat /\ t.segments \in Seq(SegmentStates(f))
  BY <1>3, TcpParts
<1>5. \/ SeqLte(Seqno(b), t.next)
      \/ \E i \in DOMAIN t.segments : t.segments[i].seq = Seqno(a) /\ Len(t.segments[i].bytes) >= b - a
  BY <1>1, <1>2 DEF Redundant
<1>6. CASE SeqLte(Seqno(b), t.next)
  <2>1. t.next = Seqno(R) /\ R < SeqModulus \div 2
    <3> DEFINE H == SeqModulus \div 2
    <3>1. StreamLen(f) \in Nat /\ StreamLen(f) < H /\ H \in Int
      BY StreamIs
    <3>2. t.next = Seqno(R) /\ R <= StreamLen(f)
      BY <1>3 DEF DoneWhole
    <3> HIDE DEF H, R
    <3>3. R < H
      BY <1>4, <3>1, <3>2
    <3> QED
      BY <3>2, <3>3 DEF H
  <2> HIDE DEF R
  <2>2. b <= R
    BY <1>2, <1>4, <1>6, <2>1, SeqnoOrder
  <2>3. ASSUME NEW p \in a .. b - 1 PROVE ~(p >= R)
    BY <1>4, <2>2
  <2> QED
    BY <2>3 DEF InQueue, R
<1>7. ASSUME NEW i \in DOMAIN t.segments, t.segments[i].seq = Seqno(a),
             Len(t.segments[i].bytes) >= b - a
      PROVE  InQueue(t, a .. b - 1)
  <2> DEFINE g == t.segments[i]
             x == g.bytes[1]
             n == Len(g.bytes)
  <2>1. i \in 1 .. Len(t.segments) /\ g \in SegmentStates(f)
    BY <1>4, SegmentsAreLengths
  <2>2. SegmentWhole(g)
    BY <1>3, <2>1 DEF QueueWhole
  <2> HIDE DEF g
  <2>3. /\ n \in Nat /\ n >= 1 /\ x \in Nat /\ x + n <= StreamLen(f)
        /\ \A p : p \in ToSet(g.bytes) <=> p \in x .. (x + n) - 1
    BY <2>1, <2>2, SegmentForm
  <2>4. g.seq = Seqno(x) /\ g.seq = Seqno(a) /\ n >= b - a
    BY <1>7, <2>2 DEF SegmentWhole, g
  <2>5. x < SeqModulus \div 2
    <3> DEFINE H == SeqModulus \div 2
    <3>1. StreamLen(f) \in Nat /\ StreamLen(f) < H /\ H \in Int
      BY StreamIs
    <3> HIDE DEF H, x, n
    <3>2. x < H
      BY <2>3, <3>1
    <3> QED
      BY <3>2 DEF H
  <2>6. x = a
    BY <1>2, <2>3, <2>4, <2>5, SeqnoOrder
  <2> HIDE DEF x, n
  <2>7. ASSUME NEW p \in a .. b - 1 PROVE p \in ToSet(g.bytes)
    <3>1. p \in x .. (x + n) - 1
      BY <2>3, <2>4, <2>6
    <3> QED
      BY <2>3, <3>1
  <2> QED
    BY <2>1, <2>7 DEF InQueue, g
<1> QED
  BY <1>5, <1>6, <1>7

\* A captured segment is in the queue, or was there, and nothing else changed.
LEMMA SegmentInQueue ==
    ASSUME wire \in DOMAIN Wires, NEW f \in Flows, NEW t, FlowExact(f, t), t.aligned,
           NEW X \in SUBSET Nat, InQueue(t, X),
           NEW a \in Nat, NEW b \in Nat, a < b, b <= StreamLen(f),
           Redundant(t, Seqno(a), Bytestring(a, b)) \/ HasRoom(t, Bytestring(a, b)),
           NEW u, u = InsertSegment(t, Seqno(a), Bytestring(a, b))
    PROVE  /\ u \in TcpStates(f) /\ QueueWhole(u) /\ DoneWhole(f, u)
           /\ u.queued <= QueueBytes /\ Len(u.segments) <= QueueSegments
           /\ u.aligned /\ u.known
           /\ InQueue(u, X) /\ InQueue(u, a .. b - 1)
<1>1. CASE Redundant(t, Seqno(a), Bytestring(a, b))
  <2>1. u = t
    BY <1>1 DEF InsertSegment
  <2>2. InQueue(t, a .. b - 1)
    BY <1>1, RedundantInQueue
  <2> QED
    BY <2>1, <2>2 DEF FlowExact
<1>2. CASE ~Redundant(t, Seqno(a), Bytestring(a, b))
  <2>1. HasRoom(t, Bytestring(a, b))
    BY <1>2
  <2>2. /\ u \in TcpStates(f) /\ QueueWhole(u) /\ DoneWhole(f, u)
        /\ u.queued <= QueueBytes /\ Len(u.segments) <= QueueSegments
        /\ u.aligned /\ u.known
        /\ Reached(t) <= Reached(u) /\ InQueue(u, a .. b - 1)
    <3>1. u \in TcpStates(f) /\ QueueWhole(u) /\ DoneWhole(f, u)
      BY <1>2, <2>1, InsertKeeps
    <3>2. u.queued <= QueueBytes /\ Len(u.segments) <= QueueSegments
      BY <1>2, <2>1, InsertKeeps
    <3>5. u.aligned /\ u.known
      BY <1>2, <2>1, InsertKeeps
    <3>6. Reached(t) <= Reached(u)
      BY <1>2, <2>1, InsertKeeps
    <3>4. InQueue(u, a .. b - 1)
      BY <1>2, <2>1, InsertKeeps
    <3> QED
      BY <3>1, <3>2, <3>4, <3>5, <3>6
  <2>3. ASSUME NEW i \in 1 .. Len(t.segments) PROVE InQueue(u, ToSet(t.segments[i].bytes))
    BY <1>2, <2>1, InsertKeeps
  <2>4. InQueue(u, X)
    <3> SUFFICES ASSUME NEW p \in X, p >= Reached(u)
                 PROVE  \E j \in 1 .. Len(u.segments) : p \in ToSet(u.segments[j].bytes)
      BY DEF InQueue
    <3>2. t \in TcpStates(f)
      BY DEF FlowExact
    <3>3. p >= Reached(t)
      <4>1. Reached(u) \in Nat
        BY <2>2, TcpParts
      <4>2. Reached(t) \in Nat
        BY <3>2, TcpParts
      <4> QED
        BY <2>2, <4>1, <4>2
    <3>1. PICK i \in 1 .. Len(t.segments) : p \in ToSet(t.segments[i].bytes)
      BY <3>3 DEF InQueue
    <3> QED
      BY <2>3, <3>1 DEF InQueue
  <2> QED
    BY <2>2, <2>4
<1> QED
  BY <1>1, <1>2

\* process_tcp, a segment of an aligned flow.
LEMMA ReadKeeps ==
    ASSUME wire \in DOMAIN Wires, NEW f \in Flows, NEW t, FlowExact(f, t), t.aligned,
           NEW X \in SUBSET Nat, InQueue(t, X),
           NEW a \in Nat, NEW b \in Nat, a < b, b <= StreamLen(f)
    PROVE  LET r == ReadSegment(f, t, Seqno(a), Bytestring(a, b)) IN
           /\ FlowExact(f, r.state) /\ r.state.known /\ r.msgs \in Seq(ToSet(Stream(f)))
           /\ r.state.aligned => InQueue(r.state, IF r.kept THEN X \cup (a .. b - 1) ELSE a .. b - 1)
<1> DEFINE byte == Bytestring(a, b)
           v == InsertSegment(t, Seqno(a), byte)
           u == FlushContiguous(v)
           h == FrameBatches(f, u.buffer)
           r == ReadSegment(f, t, Seqno(a), byte)
           P == Positions(f)
           M == ToSet(Stream(f))
           z == [u EXCEPT !.buffer = h.rest, !.read = @ \o h.read]
           full == ~Redundant(t, Seqno(a), byte) /\ ~HasRoom(t, byte)
<1>1. r = IF full THEN TryAlign(f, ResetAlignment(t), Seqno(a), byte)
          ELSE [state |-> IF h.failed THEN ResetAlignment(u) ELSE z, msgs |-> h.msgs, kept |-> TRUE]
  BY DEF ReadSegment
<1>2. CASE full
  <2> DEFINE q == ResetAlignment(t)
  <2>1. q \in {NoFlow, ResetAlignment(NoFlow)} /\ q.known
    BY DEF ResetAlignment, NoFlow
  <2> HIDE DEF q
  <2>2. FlowExact(f, q) /\ ~q.aligned
    BY <2>1, NoFlowExact
  <2>3. r = TryAlign(f, q, Seqno(a), Bytestring(a, b))
    BY <1>1, <1>2 DEF q
  <2> HIDE DEF r
  <2> QED
    BY <2>1, <2>2, <2>3, TryAlignKeeps DEF r, byte
<1>3. CASE ~full
  <2> DEFINE W0 == a .. b - 1
  <2>1. t \in TcpStates(f) /\ QueueWhole(t) /\ DoneWhole(f, t) /\ t.known
    BY DEF FlowExact
  <2>2. /\ v \in TcpStates(f) /\ QueueWhole(v) /\ DoneWhole(f, v)
        /\ v.queued <= QueueBytes /\ Len(v.segments) <= QueueSegments
        /\ v.aligned /\ v.known
        /\ InQueue(v, X) /\ InQueue(v, W0)
    BY <1>3, SegmentInQueue
  <2> HIDE DEF v
  <2>3. /\ u \in TcpStates(f) /\ QueueWhole(u) /\ DoneWhole(f, u)
        /\ u.aligned = v.aligned /\ u.known = v.known
        /\ u.queued <= v.queued /\ Len(u.segments) <= Len(v.segments)
        /\ Reached(v) <= Reached(u)
    BY <2>2, FlushKeeps
  <2>4. ASSUME NEW i \in 1 .. Len(v.segments) PROVE InQueue(u, ToSet(v.segments[i].bytes))
    BY <2>2, FlushKeeps
  <2> HIDE DEF u
  <2>5. Reached(u) \in Nat /\ Reached(v) \in Nat
    BY <2>2, <2>3, TcpParts
  <2>6. ASSUME NEW Y \in SUBSET Nat, InQueue(v, Y) PROVE InQueue(u, Y)
    <3> SUFFICES ASSUME NEW p \in Y, p >= Reached(u)
                 PROVE  \E j \in 1 .. Len(u.segments) : p \in ToSet(u.segments[j].bytes)
      BY DEF InQueue
    <3>1. p >= Reached(v)
      BY <2>3, <2>5
    <3>2. PICK i \in 1 .. Len(v.segments) : p \in ToSet(v.segments[i].bytes)
      BY <2>6, <3>1 DEF InQueue
    <3> QED
      BY <2>4, <3>2 DEF InQueue
  <2>7. InQueue(u, X \cup W0)
    <3>1. W0 \in SUBSET Nat
      OBVIOUS
    <3> HIDE DEF W0
    <3>2. InQueue(u, X) /\ InQueue(u, W0)
      BY <2>2, <2>6, <3>1
    <3> QED
      BY <3>2 DEF InQueue
  <2> HIDE DEF W0
  <2>8. /\ u = [aligned |-> u.aligned, next |-> u.next, segments |-> u.segments,
                   queued |-> u.queued, buffer |-> u.buffer, read |-> u.read,
                   from |-> u.from, known |-> u.known]
        /\ u.aligned \in BOOLEAN /\ u.known \in BOOLEAN /\ u.next \in Nat /\ u.queued \in Int
        /\ u.segments \in Seq(SegmentStates(f)) /\ u.from \in Nat
        /\ u.buffer \in Seq(P) /\ u.read \in Seq(P)
        /\ Len(u.segments) \in Nat
    BY <2>3, TcpParts
  <2>9. /\ h.read \in Seq(P) /\ h.rest \in Seq(P) /\ h.msgs \in Seq(M)
        /\ Len(h.read) + Len(h.rest) = Len(u.buffer)
        /\ \A i \in 1 .. Len(h.read) : h.read[i] = u.buffer[i]
        /\ \A i \in 1 .. Len(h.rest) : h.rest[i] = u.buffer[Len(h.read) + i]
        /\ ~h.failed => Len(h.rest) < BatchLen
    BY <2>8, BatchesForm
  <2> HIDE DEF h, P, M
  <2>10. r = [state |-> IF h.failed THEN ResetAlignment(u) ELSE z, msgs |-> h.msgs, kept |-> TRUE]
    BY <1>1, <1>3
  <2>11. r.state = (IF h.failed THEN ResetAlignment(u) ELSE z) /\ r.msgs = h.msgs /\ r.kept = TRUE
    BY <2>10
  <2> HIDE DEF r, full
  <2>12. CASE h.failed
    <3>1. r.state \in {NoFlow, ResetAlignment(NoFlow)} /\ r.state.known
      BY <2>11, <2>12 DEF ResetAlignment, NoFlow
    <3>2. FlowExact(f, r.state) /\ ~r.state.aligned
      BY <3>1, NoFlowExact
    <3> QED
      BY <2>9, <2>11, <3>1, <3>2 DEF r, byte, M
  <2>13. CASE ~h.failed
    <3>1. z = [aligned |-> u.aligned, next |-> u.next, segments |-> u.segments,
               queued |-> u.queued, buffer |-> h.rest, read |-> u.read \o h.read,
               from |-> u.from, known |-> u.known]
      <4>1. z = [u EXCEPT !.buffer = h.rest, !.read = u.read \o h.read]
        OBVIOUS
      <4> DEFINE x == u.read \o h.read
                 y == h.rest
      <4>2. z = [u EXCEPT !.buffer = y, !.read = x]
        BY <4>1
      <4> HIDE DEF z, x, y
      <4>3. z = [aligned |-> u.aligned, next |-> u.next, segments |-> u.segments,
                 queued |-> u.queued, buffer |-> y, read |-> x, from |-> u.from, known |-> u.known]
        BY <2>8, <4>2
      <4> QED
        BY <4>3 DEF x, y
    <3>2. u.read \o h.read \in Seq(P)
      BY <2>8, <2>9, ConcatProperties
    <3> HIDE DEF z
    <3>3. z \in TcpStates(f)
      BY <2>8, <2>9, <3>1, <3>2, IsTcpState DEF P
    <3>4. /\ z.aligned = u.aligned /\ z.next = u.next /\ z.segments = u.segments
          /\ z.queued = u.queued /\ z.buffer = h.rest /\ z.read = u.read \o h.read
          /\ z.from = u.from /\ z.known = u.known
      BY <3>1
    <3>5. /\ Len(u.read) \in Nat /\ Len(h.read) \in Nat /\ Len(h.rest) \in Nat /\ Len(u.buffer) \in Nat
          /\ Len(u.read \o h.read) = Len(u.read) + Len(h.read)
      BY <2>8, <2>9, LenProperties, ConcatProperties
    <3>6. Reached(z) = Reached(u)
      <4> DEFINE c == u.from
                 i == Len(u.read)
                 j == Len(h.read)
                 k == Len(h.rest)
                 l == Len(u.buffer)
      <4>1. c \in Nat /\ i \in Nat /\ j \in Nat /\ k \in Nat /\ l \in Nat /\ j + k = l
        BY <2>8, <2>9, <3>5
      <4>2. Reached(z) = c + (i + j) + k /\ Reached(u) = c + i + l
        BY <3>4, <3>5 DEF Reached
      <4> HIDE DEF c, i, j, k, l
      <4> QED
        BY <4>1, <4>2
    <3>7. Consecutive(z.read \o z.buffer, z.from)
      <4>1. Consecutive(u.read, u.from) /\ Consecutive(u.buffer, u.from + Len(u.read))
        <5>1. Consecutive(u.read \o u.buffer, u.from)
          BY <2>3 DEF DoneWhole
        <5> QED
          BY <2>8, <5>1, ConsecutiveParts
      <4> DEFINE x == u.from + Len(u.read)
      <4>2. x \in Nat
        BY <2>8, <3>5
      <4>3. Consecutive(h.read, x) /\ Consecutive(h.rest, x + Len(h.read))
        <5>1. Consecutive(u.buffer, x)
          BY <4>1
        <5>2. /\ \A i \in 1 .. Len(h.read) : h.read[i] = u.buffer[i]
              /\ \A i \in 1 .. Len(h.rest) : h.rest[i] = u.buffer[Len(h.read) + i]
          BY <2>9
        <5>3. /\ u.buffer \in Seq(P) /\ h.read \in Seq(P) /\ h.rest \in Seq(P)
              /\ Len(h.read) + Len(h.rest) = Len(u.buffer)
          BY <2>8, <2>9
        <5> HIDE DEF x
        <5> QED
          BY <4>2, <5>1, <5>2, <5>3, Halves
      <4>4. Consecutive(u.read \o h.read, u.from)
        BY <2>8, <2>9, <4>1, <4>3, ConsecutiveParts
      <4>5. Consecutive(h.rest, u.from + Len(u.read \o h.read))
        <5>1. x + Len(h.read) = u.from + Len(u.read \o h.read)
          BY <2>8, <3>5
        <5> HIDE DEF x
        <5> QED
          BY <4>3, <5>1
      <4> DEFINE c == u.read \o h.read
      <4>6. c \in Seq(P) /\ h.rest \in Seq(P) /\ u.from \in Nat
        BY <2>8, <2>9, <3>2
      <4>7. Consecutive(c, u.from) /\ Consecutive(h.rest, u.from + Len(c))
        BY <4>4, <4>5
      <4>8. z.read = c /\ z.buffer = h.rest /\ z.from = u.from
        BY <3>4
      <4> HIDE DEF c
      <4>9. Consecutive(c \o h.rest, u.from)
        BY <4>6, <4>7, ConsecutiveParts
      <4> QED
        BY <4>8, <4>9
    <3>8. DoneWhole(f, z)
      BY <2>3, <3>4, <3>6, <3>7 DEF DoneWhole
    <3>9. QueueWhole(z)
      BY <2>3, <3>4 DEF QueueWhole
    <3>10. z.queued <= QueueBytes /\ Len(z.segments) <= QueueSegments
      <4>1. v.queued \in Int /\ Len(v.segments) \in Nat /\ QueueBytes \in Nat /\ QueueSegments \in Nat
        BY <2>2, TcpParts, TransportAssumption
      <4>2. u.queued <= v.queued /\ v.queued <= QueueBytes
        BY <2>2, <2>3
      <4>3. Len(u.segments) <= Len(v.segments) /\ Len(v.segments) <= QueueSegments
        BY <2>2, <2>3
      <4>4. u.queued <= QueueBytes
        BY <2>8, <4>1, <4>2
      <4>5. Len(u.segments) <= QueueSegments
        BY <2>8, <4>1, <4>3
      <4> QED
        BY <3>4, <4>4, <4>5
    <3>11. FlowExact(f, z)
      BY <2>1, <2>2, <2>3, <2>9, <2>13, <3>3, <3>4, <3>8, <3>9, <3>10 DEF FlowExact
    <3>12. InQueue(z, X \cup W0)
      BY <2>7, <3>4, <3>6 DEF InQueue
    <3>13. r.state = z /\ z.known
      BY <2>1, <2>2, <2>3, <2>11, <2>13, <3>4
    <3> QED
      BY <2>9, <2>11, <3>11, <3>12, <3>13 DEF r, byte, M, W0
  <2> QED
    BY <2>12, <2>13
<1> QED
  BY <1>2, <1>3

\* A flow, with the bytes captured since it was aligned.
FlowOK(f, t, X) == FlowExact(f, t) /\ (t.aligned => InQueue(t, X))

\* The flows of a worker that have a place in its queue.
Kept(T, w) == {f \in Flows : Host(f) = w /\ T[f].known}

TcpOK(T, O, S) ==
  /\ T = [f \in Flows |-> T[f]] /\ O \in [Workers -> Seq(Flows)] /\ S \in [Flows -> SUBSET Nat]
  /\ \A f \in Flows : FlowOK(f, T[f], S[f])
  /\ \A w \in Workers : QueueExact(O[w], Kept(T, w)) /\ Len(O[w]) <= Capacity

\* A flow that is not aligned says nothing of what was captured.
LEMMA NoFlowOK ==
    ASSUME wire \in DOMAIN Wires, NEW f \in Flows, NEW X
    PROVE  FlowOK(f, NoFlow, X) /\ NoFlow.known = FALSE
<1>1. FlowExact(f, NoFlow) /\ ~NoFlow.aligned
  BY NoFlowExact
<1>2. NoFlow.known = FALSE
  BY DEF NoFlow
<1> QED
  BY <1>1, <1>2 DEF FlowOK

\* A flow gets its place in the table.
LEMMA KnownExact ==
    ASSUME wire \in DOMAIN Wires, NEW f \in Flows, NEW t, FlowExact(f, t), ~t.aligned
    PROVE  LET u == [t EXCEPT !.known = TRUE] IN FlowExact(f, u) /\ ~u.aligned /\ u.known
<1> DEFINE u == [t EXCEPT !.known = TRUE]
<1>1. /\ t \in TcpStates(f) /\ QueueWhole(t) /\ t.queued <= QueueBytes
      /\ Len(t.segments) <= QueueSegments /\ t.segments = <<>>
  BY DEF FlowExact
<1>2. /\ t = [aligned |-> t.aligned, next |-> t.next, segments |-> t.segments,
                   queued |-> t.queued, buffer |-> t.buffer, read |-> t.read,
                   from |-> t.from, known |-> t.known]
      /\ t.aligned \in BOOLEAN /\ t.known \in BOOLEAN /\ t.next \in Nat /\ t.queued \in Int
      /\ t.segments \in Seq(SegmentStates(f)) /\ t.from \in Nat
      /\ t.buffer \in Seq(Positions(f)) /\ t.read \in Seq(Positions(f))
  BY <1>1, TcpParts
<1>3. u = [aligned |-> t.aligned, next |-> t.next, segments |-> t.segments,
                   queued |-> t.queued, buffer |-> t.buffer, read |-> t.read,
                   from |-> t.from, known |-> TRUE]
  <2> DEFINE k == TRUE
  <2>1. u = [t EXCEPT !.known = k]
    OBVIOUS
  <2> HIDE DEF u, k
  <2>2. u = [aligned |-> t.aligned, next |-> t.next, segments |-> t.segments,
             queued |-> t.queued, buffer |-> t.buffer, read |-> t.read,
             from |-> t.from, known |-> k]
    BY <1>2, <2>1
  <2> QED
    BY <2>2 DEF k
<1> HIDE DEF u
<1>4. u \in TcpStates(f)
  BY <1>2, <1>3 DEF TcpStates
<1>5. u.queued = t.queued /\ u.segments = t.segments /\ u.aligned = t.aligned /\ u.known = TRUE
  BY <1>3
<1>6. QueueWhole(u)
  BY <1>1, <1>5 DEF QueueWhole
<1>7. ~u.aligned
  BY <1>5
<1>8. FlowExact(f, u)
  BY <1>1, <1>4, <1>5, <1>6, <1>7 DEF FlowExact
<1> QED
  BY <1>5, <1>7, <1>8 DEF u

\* A segment: what it makes of its flow.
LEMMA SegmentKeeps ==
    ASSUME wire \in DOMAIN Wires, NEW f \in Flows, NEW t, NEW X \in SUBSET Nat, FlowOK(f, t, X),
           NEW a \in Nat, NEW b \in Nat, a < b, b <= StreamLen(f)
    PROVE  LET res == IF t.aligned THEN ReadSegment(f, t, Seqno(a), Bytestring(a, b))
                      ELSE TryAlign(f, [t EXCEPT !.known = TRUE], Seqno(a), Bytestring(a, b))
           IN
           /\ FlowExact(f, res.state) /\ res.state.known /\ res.msgs \in Seq(ToSet(Stream(f)))
           /\ res.state.aligned =>
                InQueue(res.state, IF res.kept THEN X \cup (a .. b - 1) ELSE a .. b - 1)
<1>1. CASE t.aligned
  <2>1. FlowExact(f, t) /\ InQueue(t, X)
    BY <1>1 DEF FlowOK
  <2> DEFINE r == ReadSegment(f, t, Seqno(a), Bytestring(a, b))
  <2>2. /\ FlowExact(f, r.state) /\ r.state.known /\ r.msgs \in Seq(ToSet(Stream(f)))
        /\ r.state.aligned => InQueue(r.state, IF r.kept THEN X \cup (a .. b - 1) ELSE a .. b - 1)
    BY <1>1, <2>1, ReadKeeps
  <2> HIDE DEF r
  <2> QED
    BY <1>1, <2>2 DEF r
<1>2. CASE ~t.aligned
  <2> DEFINE u == [t EXCEPT !.known = TRUE]
             r == TryAlign(f, u, Seqno(a), Bytestring(a, b))
  <2>1. FlowExact(f, t)
    BY DEF FlowOK
  <2>2. FlowExact(f, u) /\ ~u.aligned /\ u.known
    BY <1>2, <2>1, KnownExact
  <2> HIDE DEF u
  <2>3. /\ FlowExact(f, r.state) /\ r.state.known /\ r.msgs \in Seq(ToSet(Stream(f)))
        /\ r.kept = FALSE /\ (r.state.aligned => InQueue(r.state, a .. b - 1))
    BY <2>2, TryAlignKeeps
  <2> HIDE DEF r
  <2> QED
    BY <1>2, <2>3 DEF r, u
<1> QED
  BY <1>1, <1>2

\* tcp_flow_state: the queue with a place for a flow.
LEMMA NewOrderKeeps ==
    ASSUME wire \in DOMAIN Wires, TcpOK(tcp, tcpOrder, seen), NEW f \in Flows
    PROVE  LET w == Host(f)
               L == Kept(tcp, w)
           IN
           /\ NewOrder(f) \in Seq(Flows) /\ Len(NewOrder(f)) <= Capacity
           /\ QueueExact(NewOrder(f), (L \ Victim(f)) \cup {f})
           /\ Victim(f) \subseteq L /\ f \notin Victim(f)
<1> DEFINE w == Host(f)
           L == Kept(tcp, w)
           o == tcpOrder[w]
<1>1. w \in Workers /\ Capacity \in Nat \ {0}
  BY WireFacts
<1>2. o \in Seq(Flows) /\ QueueExact(o, L) /\ Len(o) <= Capacity /\ Len(o) \in Nat
  BY <1>1, LenProperties DEF TcpOK
<1>3. ToSet(o) = L
  BY <1>2 DEF QueueExact
<1>4. f \in L <=> tcp[f].known
  BY DEF Kept
<1>5. Victim(f) = (IF tcp[f].known \/ Len(o) < Capacity THEN {} ELSE EvictVictim(o, L))
  BY <1>3 DEF Victim
<1>6. NewOrder(f) = IF tcp[f].known THEN o
                    ELSE Append(IF Victim(f) = {} THEN o ELSE EvictQueue(o, L), f)
  BY <1>3 DEF NewOrder
<1> HIDE DEF w, L, o
<1>7. CASE tcp[f].known
  <2>1. Victim(f) = {} /\ NewOrder(f) = o /\ (L \ {}) \cup {f} = L
    BY <1>4, <1>5, <1>6, <1>7
  <2> QED
    BY <1>2, <2>1 DEF L, w
<1>8. CASE ~tcp[f].known /\ Len(o) < Capacity
  <2>1. Victim(f) = {} /\ NewOrder(f) = Append(o, f) /\ L \ {} = L
    BY <1>5, <1>6, <1>8
  <2>2. Append(o, f) \in Seq(Flows) /\ QueueExact(Append(o, f), L \cup {f})
    BY <1>2, <1>4, <1>8, QueueAppend
  <2>3. Len(Append(o, f)) = Len(o) + 1
    BY <1>2, AppendProperties
  <2>4. Len(Append(o, f)) <= Capacity
    BY <1>1, <1>2, <1>8, <2>3
  <2> QED
    BY <2>1, <2>2, <2>4 DEF L, w
<1>9. CASE ~tcp[f].known /\ ~(Len(o) < Capacity)
  <2>1. L # {}
    <3>1. Len(o) >= 1
      BY <1>1, <1>2, <1>9
    <3>2. 1 \in 1 .. Len(o)
      BY <1>2, <3>1
    <3> QED
      BY <1>2, <3>2, QueueForm
  <2>2. PICK k \in L : /\ EvictVictim(o, L) = {k} /\ EvictQueue(o, L) \in Seq(Flows)
                       /\ QueueExact(EvictQueue(o, L), L \ {k})
    BY <1>2, <2>1, QueueEvict
  <2> DEFINE e == EvictQueue(o, L)
  <2>3. Victim(f) = {k} /\ NewOrder(f) = Append(e, f)
    BY <1>5, <1>6, <1>9, <2>2
  <2> HIDE DEF e
  <2>4. e \in Seq(Flows) /\ QueueExact(e, L \ {k})
    BY <2>2 DEF e
  <2>5. f \notin L \ {k} /\ f # k
    BY <1>4, <1>9
  <2>6. Append(e, f) \in Seq(Flows) /\ QueueExact(Append(e, f), (L \ {k}) \cup {f})
    BY <2>4, <2>5, QueueAppend
  <2>7. Len(Append(e, f)) = Len(e) + 1
    BY <2>4, AppendProperties
  <2>8. Len(o) = Cardinality(L) /\ IsFiniteSet(L) /\ Len(e) = Cardinality(L \ {k}) /\ Len(e) \in Nat
    BY <1>2, <2>4, QueueLength
  <2>9. Cardinality(L \ {k}) = Cardinality(L) - 1
    BY <2>8, FS_RemoveElement
  <2>10. Len(Append(e, f)) <= Capacity
    <3> DEFINE n == Len(o)
               m == Len(e)
    <3>1. n \in Nat /\ n <= Capacity /\ m = n - 1
      BY <1>2, <2>8, <2>9
    <3>2. Len(Append(e, f)) = m + 1
      BY <2>7
    <3> HIDE DEF n, m
    <3> QED
      BY <3>1, <3>2
  <2> QED
    BY <2>3, <2>5, <2>6, <2>10 DEF L, w
<1> QED
  BY <1>7, <1>8, <1>9

\* The queue without some flows.
LEMMA WithoutKeeps ==
    ASSUME NEW q \in Seq(Flows), NEW L, QueueExact(q, L), NEW K, NEW n \in Nat, Len(q) <= n
    PROVE  /\ Without(q, K) \in Seq(Flows) /\ QueueExact(Without(q, K), L \ K)
           /\ Len(Without(q, K)) <= n
<1> DEFINE r == Without(q, K)
<1>1. r \in Seq(Flows) /\ QueueExact(r, L \ K)
  BY WithoutForm
<1> HIDE DEF r
<1>2. /\ Len(q) = Cardinality(L) /\ Len(q) \in Nat /\ IsFiniteSet(L)
      /\ Len(r) = Cardinality(L \ K) /\ Len(r) \in Nat
  BY <1>1, QueueLength
<1>3. Cardinality(L \ K) <= Cardinality(L)
  BY <1>2, FS_Subset
<1>4. Len(r) <= n
  BY <1>2, <1>3
<1> QED
  BY <1>1, <1>4 DEF r

\* A step of one worker, on its flows and its queue.
LEMMA WorkerKeeps ==
    ASSUME NEW T, NEW O, NEW S, TcpOK(T, O, S), NEW w \in Workers,
           NEW U, U = [f \in Flows |-> U[f]], NEW Y \in [Flows -> SUBSET Nat],
           \A f \in Flows : FlowOK(f, U[f], Y[f]),
           \A f \in Flows : Host(f) # w => U[f] = T[f],
           NEW q \in Seq(Flows), QueueExact(q, Kept(U, w)), Len(q) <= Capacity
    PROVE  TcpOK(U, [O EXCEPT ![w] = q], Y)
<1> DEFINE P == [O EXCEPT ![w] = q]
<1>1. O \in [Workers -> Seq(Flows)] /\ P \in [Workers -> Seq(Flows)]
  BY DEF TcpOK
<1>2. ASSUME NEW v \in Workers PROVE QueueExact(P[v], Kept(U, v)) /\ Len(P[v]) <= Capacity
  <2>1. CASE v = w
    <3>1. P[v] = q
      BY <1>1, <2>1
    <3> QED
      BY <2>1, <3>1
  <2>2. CASE v # w
    <3>1. P[v] = O[v]
      BY <1>1, <2>2
    <3>2. Kept(U, v) = Kept(T, v)
      BY <2>2 DEF Kept
    <3>3. QueueExact(O[v], Kept(T, v)) /\ Len(O[v]) <= Capacity
      BY DEF TcpOK
    <3> HIDE DEF P
    <3> QED
      BY <3>1, <3>2, <3>3
  <2> QED
    BY <2>1, <2>2
<1> HIDE DEF P
<1> QED
  BY <1>1, <1>2 DEF TcpOK, P

\* process_tcp, with payload.
LEMMA TcpDataKeeps ==
    ASSUME wire \in DOMAIN Wires, TcpOK(tcp, tcpOrder, seen), FragOK(frag),
           NEW f \in Flows, NEW a \in Nat, NEW b \in Nat, a < b, b <= StreamLen(f),
           NEW fin \in BOOLEAN, TcpData(f, a, b, fin)
    PROVE  TcpOK(tcp', tcpOrder', seen') /\ FragOK(frag')
<1> DEFINE w == Host(f)
           F == RemoveFlowChains(ExpireInactive(frag, w), w, Victim(f))
           byte == Bytestring(a, b)
           res == IF tcp[f].aligned THEN ReadSegment(f, tcp[f], Seqno(a), byte)
                  ELSE TryAlign(f, [tcp[f] EXCEPT !.known = TRUE], Seqno(a), byte)
           G == ExpandFragments(F, w, f, res.msgs)
           K == IF fin THEN {f} ELSE {}
           X == CASE fin \/ ~res.state.aligned -> {}
                  [] res.kept -> seen[f] \cup (a .. b - 1)
                  [] OTHER -> a .. b - 1
           L == (Kept(tcp, w) \ Victim(f)) \cup {f}
<1>1. /\ tcp' = [g \in Flows |->
                   CASE g = f -> IF fin THEN NoFlow ELSE res.state
                     [] g # f /\ g \in Victim(f) -> NoFlow
                     [] OTHER -> tcp[g]]
      /\ tcpOrder' = [tcpOrder EXCEPT ![w] = Without(NewOrder(f), K)]
      /\ frag' = IF fin THEN RemoveFlowState(G, w, f) ELSE G
      /\ seen' = [seen EXCEPT ![f] = X]
  BY DEF TcpData, Bytestring
<1>2. w \in Workers /\ Capacity \in Nat
  BY WireFacts
<1>3. /\ FlowOK(f, tcp[f], seen[f]) /\ seen \in [Flows -> SUBSET Nat]
  BY DEF TcpOK
<1>4. seen[f] \in SUBSET Nat
  BY <1>3
<1>5. /\ FlowExact(f, res.state) /\ res.state.known /\ res.msgs \in Seq(ToSet(Stream(f)))
      /\ res.state.aligned =>
           InQueue(res.state, IF res.kept THEN seen[f] \cup (a .. b - 1) ELSE a .. b - 1)
  <2> DEFINE t == tcp[f]
             Z == seen[f]
  <2>1. FlowOK(f, t, Z) /\ Z \in SUBSET Nat
    BY <1>3, <1>4
  <2> HIDE DEF t, Z
  <2>2. LET r == IF t.aligned THEN ReadSegment(f, t, Seqno(a), Bytestring(a, b))
                 ELSE TryAlign(f, [t EXCEPT !.known = TRUE], Seqno(a), Bytestring(a, b))
        IN /\ FlowExact(f, r.state) /\ r.state.known /\ r.msgs \in Seq(ToSet(Stream(f)))
           /\ r.state.aligned => InQueue(r.state, IF r.kept THEN Z \cup (a .. b - 1) ELSE a .. b - 1)
    BY <2>1, SegmentKeeps
  <2> QED
    BY <2>2 DEF t, Z
<1>6. /\ NewOrder(f) \in Seq(Flows) /\ Len(NewOrder(f)) <= Capacity
      /\ QueueExact(NewOrder(f), L) /\ Victim(f) \subseteq Kept(tcp, w) /\ f \notin Victim(f)
  BY NewOrderKeeps
<1> HIDE DEF res, byte
<1>7. FragOK(frag')
  <2>1. FragOK(ExpireInactive(frag, w))
    BY <1>2, RemoveChainsKeeps DEF ExpireInactive
  <2>2. FragOK(F)
    <3> DEFINE E == ExpireInactive(frag, w)
    <3>1. FragOK(E) /\ F = RemoveFlowChains(E, w, Victim(f))
      BY <2>1
    <3> HIDE DEF E, F
    <3> QED
      BY <1>2, <3>1, RemoveChainsKeeps DEF RemoveFlowChains
  <2> HIDE DEF F
  <2>3. FragOK(G)
    BY <1>5, <2>2, ExpandFragmentsKeeps
  <2> HIDE DEF G
  <2>4. FragOK(RemoveFlowState(G, w, f))
    BY <1>2, <2>3, RemoveFlowStateKeeps
  <2> QED
    BY <1>1, <2>3, <2>4
<1>8. X \in SUBSET Nat
  BY <1>4
<1>9. /\ tcp' = [g \in Flows |-> tcp'[g]]
      /\ tcp'[f] = (IF fin THEN NoFlow ELSE res.state)
      /\ \A g \in Flows : g # f => tcp'[g] = IF g \in Victim(f) THEN NoFlow ELSE tcp[g]
  BY <1>1
<1>10. /\ seen' \in [Flows -> SUBSET Nat] /\ seen'[f] = X
       /\ \A g \in Flows : g # f => seen'[g] = seen[g]
  <2> HIDE DEF X
  <2> QED
    BY <1>1, <1>3, <1>8
<1>11. FlowOK(f, tcp'[f], seen'[f])
  <2>1. CASE fin
    BY <1>9, <2>1, NoFlowOK
  <2>2. CASE ~fin
    <3>1. res.state.aligned => X = IF res.kept THEN seen[f] \cup (a .. b - 1) ELSE a .. b - 1
      BY <2>2
    <3> HIDE DEF X
    <3>2. FlowOK(f, res.state, X)
      BY <1>5, <3>1 DEF FlowOK
    <3> QED
      BY <1>9, <1>10, <2>2, <3>2
  <2> QED
    BY <2>1, <2>2
<1> HIDE DEF X
<1>12. ASSUME NEW g \in Flows PROVE FlowOK(g, tcp'[g], seen'[g])
  <2>1. CASE g = f
    BY <1>11, <2>1
  <2>2. CASE g # f /\ g \in Victim(f)
    BY <1>9, <2>2, NoFlowOK
  <2>3. CASE g # f /\ g \notin Victim(f)
    <3>1. tcp'[g] = tcp[g] /\ seen'[g] = seen[g]
      BY <1>9, <1>10, <2>3
    <3>2. FlowOK(g, tcp[g], seen[g])
      BY DEF TcpOK
    <3> QED
      BY <3>1, <3>2
  <2> QED
    BY <2>1, <2>2, <2>3
<1>13. ASSUME NEW g \in Flows, Host(g) # w PROVE tcp'[g] = tcp[g]
  BY <1>6, <1>9, <1>13 DEF Kept
<1>14. Kept(tcp', w) = L \ K
  <2>1. ASSUME NEW g \in Flows, Host(g) = w PROVE tcp'[g].known <=> g \in L \ K
    <3>1. CASE g = f /\ fin
      BY <1>9, <3>1, NoFlowOK
    <3>2. CASE g = f /\ ~fin
      <4>1. tcp'[g] = res.state
        BY <1>9, <3>2
      <4> QED
        BY <1>5, <3>2, <4>1
    <3>3. CASE g # f /\ g \in Victim(f)
      BY <1>9, <3>3, NoFlowOK
    <3>4. CASE g # f /\ g \notin Victim(f)
      <4>1. tcp'[g] = tcp[g]
        BY <1>9, <3>4
      <4> QED
        BY <2>1, <3>4, <4>1 DEF Kept
    <3> QED
      BY <3>1, <3>2, <3>3, <3>4
  <2>2. \A g \in L : g \in Flows /\ Host(g) = w
    BY DEF Kept
  <2> HIDE DEF L, K
  <2> QED
    BY <2>1, <2>2 DEF Kept
<1> HIDE DEF L
<1>15. /\ Without(NewOrder(f), K) \in Seq(Flows) /\ QueueExact(Without(NewOrder(f), K), L \ K)
       /\ Len(Without(NewOrder(f), K)) <= Capacity
  BY <1>2, <1>6, WithoutKeeps
<1> HIDE DEF w, K
<1> DEFINE q == Without(NewOrder(f), K)
           U == tcp'
           Y == seen'
<1>16. /\ q \in Seq(Flows) /\ QueueExact(q, Kept(U, w)) /\ Len(q) <= Capacity
       /\ U = [g \in Flows |-> U[g]] /\ Y \in [Flows -> SUBSET Nat]
       /\ \A g \in Flows : FlowOK(g, U[g], Y[g])
       /\ \A g \in Flows : Host(g) # w => U[g] = tcp[g]
       /\ tcpOrder' = [tcpOrder EXCEPT ![w] = q]
  BY <1>1, <1>9, <1>10, <1>12, <1>13, <1>14, <1>15
<1> HIDE DEF q, U, Y
<1>17. TcpOK(U, [tcpOrder EXCEPT ![w] = q], Y)
  BY <1>2, <1>16, WorkerKeeps
<1> QED
  BY <1>7, <1>16, <1>17 DEF U, Y

\* process_tcp, without payload.
LEMMA TcpEndKeeps ==
    ASSUME wire \in DOMAIN Wires, TcpOK(tcp, tcpOrder, seen), FragOK(frag),
           NEW f \in Flows, TcpEnd(f)
    PROVE  TcpOK(tcp', tcpOrder', seen') /\ FragOK(frag')
<1> DEFINE w == Host(f)
           q == Without(tcpOrder[w], {f})
<1>1. /\ tcp' = [tcp EXCEPT ![f] = NoFlow] /\ tcpOrder' = [tcpOrder EXCEPT ![w] = q]
      /\ frag' = RemoveFlowState(ExpireInactive(frag, w), w, f)
      /\ seen' = [seen EXCEPT ![f] = {}]
  <2>1. tcpOrder' = [tcpOrder EXCEPT ![w] = Without(@, {f})]
    BY DEF TcpEnd
  <2> QED
    BY <2>1 DEF TcpEnd
<1>2. w \in Workers /\ Capacity \in Nat
  BY WireFacts
<1>3. /\ tcp = [g \in Flows |-> tcp[g]] /\ seen \in [Flows -> SUBSET Nat]
      /\ tcpOrder[w] \in Seq(Flows) /\ QueueExact(tcpOrder[w], Kept(tcp, w))
      /\ Len(tcpOrder[w]) <= Capacity
  BY <1>2 DEF TcpOK
<1>4. q \in Seq(Flows) /\ QueueExact(q, Kept(tcp, w) \ {f}) /\ Len(q) <= Capacity
  BY <1>2, <1>3, WithoutKeeps
<1>5. FragOK(frag')
  <2> DEFINE E == ExpireInactive(frag, w)
  <2>1. FragOK(E)
    BY <1>2, RemoveChainsKeeps DEF ExpireInactive
  <2> HIDE DEF E
  <2>2. FragOK(RemoveFlowState(E, w, f))
    BY <1>2, <2>1, RemoveFlowStateKeeps
  <2> QED
    BY <1>1, <2>2 DEF E
<1>6. /\ tcp' = [g \in Flows |-> tcp'[g]] /\ tcp'[f] = NoFlow
      /\ \A g \in Flows : g # f => tcp'[g] = tcp[g]
  BY <1>1, <1>3
<1>7. seen' \in [Flows -> SUBSET Nat] /\ \A g \in Flows : g # f => seen'[g] = seen[g]
  BY <1>1, <1>3
<1>8. ASSUME NEW g \in Flows PROVE FlowOK(g, tcp'[g], seen'[g])
  <2>1. CASE g = f
    BY <1>6, <2>1, NoFlowOK
  <2>2. CASE g # f
    <3>1. FlowOK(g, tcp[g], seen[g])
      BY DEF TcpOK
    <3> QED
      BY <1>6, <1>7, <2>2, <3>1
  <2> QED
    BY <2>1, <2>2
<1>9. Kept(tcp', w) = Kept(tcp, w) \ {f}
  <2>1. ASSUME NEW g \in Flows PROVE tcp'[g].known <=> g # f /\ tcp[g].known
    <3>1. CASE g = f
      BY <1>6, <3>1, NoFlowOK
    <3>2. CASE g # f
      BY <1>6, <3>2
    <3> QED
      BY <3>1, <3>2
  <2> QED
    BY <2>1 DEF Kept
<1>10. ASSUME NEW g \in Flows, Host(g) # w PROVE tcp'[g] = tcp[g]
  BY <1>6, <1>10
<1> HIDE DEF w, q
<1> DEFINE U == tcp'
           Y == seen'
<1>11. /\ q \in Seq(Flows) /\ QueueExact(q, Kept(U, w)) /\ Len(q) <= Capacity
       /\ U = [g \in Flows |-> U[g]] /\ Y \in [Flows -> SUBSET Nat]
       /\ \A g \in Flows : FlowOK(g, U[g], Y[g])
       /\ \A g \in Flows : Host(g) # w => U[g] = tcp[g]
       /\ tcpOrder' = [tcpOrder EXCEPT ![w] = q]
  BY <1>1, <1>4, <1>6, <1>7, <1>8, <1>9, <1>10
<1> HIDE DEF U, Y
<1>12. TcpOK(U, [tcpOrder EXCEPT ![w] = q], Y)
  BY <1>2, <1>11, WorkerKeeps
<1> QED
  BY <1>5, <1>11, <1>12 DEF U, Y

\* A worker that ends drops what it has, and nothing else.
LEMMA DropFlowsKeeps ==
    ASSUME wire \in DOMAIN Wires, TcpOK(tcp, tcpOrder, seen), FragOK(frag),
           NEW w \in Workers, Drop(w)
    PROVE  TcpOK(tcp', tcpOrder', seen') /\ FragOK(frag')
<1>1. /\ tcp' = [f \in Flows |-> IF Host(f) = w THEN NoFlow ELSE tcp[f]]
      /\ tcpOrder' = [tcpOrder EXCEPT ![w] = <<>>]
      /\ frag' = [RemoveChains(frag, w, FragmentKeys) EXCEPT !.resolutions[w] = NoTable]
      /\ seen' = [f \in Flows |-> IF Host(f) = w THEN {} ELSE seen[f]]
  BY DEF Drop
<1>2. Capacity \in Nat /\ seen \in [Flows -> SUBSET Nat]
  BY WireFacts DEF TcpOK
<1>3. FragOK(frag')
  BY <1>1, DropKeeps
<1>4. /\ tcp' = [f \in Flows |-> tcp'[f]]
      /\ \A f \in Flows : tcp'[f] = IF Host(f) = w THEN NoFlow ELSE tcp[f]
  BY <1>1
<1>5. /\ seen' \in [Flows -> SUBSET Nat]
      /\ \A f \in Flows : Host(f) # w => seen'[f] = seen[f]
  BY <1>1, <1>2
<1>6. ASSUME NEW f \in Flows PROVE FlowOK(f, tcp'[f], seen'[f])
  <2>1. CASE Host(f) = w
    BY <1>4, <2>1, NoFlowOK
  <2>2. CASE Host(f) # w
    <3>1. FlowOK(f, tcp[f], seen[f])
      BY DEF TcpOK
    <3> QED
      BY <1>4, <1>5, <2>2, <3>1
  <2> QED
    BY <2>1, <2>2
<1>7. Kept(tcp', w) = {}
  BY <1>4, NoFlowOK DEF Kept
<1>8. <<>> \in Seq(Flows) /\ QueueExact(<<>>, {}) /\ Len(<<>>) <= Capacity
  BY <1>2, QueueEmpty
<1> DEFINE U == tcp'
           Y == seen'
           q == <<>>
<1>9. /\ q \in Seq(Flows) /\ QueueExact(q, Kept(U, w)) /\ Len(q) <= Capacity
      /\ U = [g \in Flows |-> U[g]] /\ Y \in [Flows -> SUBSET Nat]
      /\ \A g \in Flows : FlowOK(g, U[g], Y[g])
      /\ \A g \in Flows : Host(g) # w => U[g] = tcp[g]
      /\ tcpOrder' = [tcpOrder EXCEPT ![w] = q]
  BY <1>1, <1>4, <1>5, <1>6, <1>7, <1>8
<1> HIDE DEF U, Y, q
<1>10. TcpOK(U, [tcpOrder EXCEPT ![w] = q], Y)
  BY <1>9, WorkerKeeps
<1> QED
  BY <1>3, <1>9, <1>10 DEF U, Y

\* The flows' state says the same after a step.
LEMMA SameTcp ==
    ASSUME wire' = wire
    PROVE  \A T, O, S : TcpOK(T, O, S) => TcpOK(T, O, S)'
<1>1. Capacity' = Capacity /\ W' = W
  BY SameWire
<1>2. \A f : Host(f)' = Host(f) /\ Stream(f)' = Stream(f)
  BY <1>1 DEF Host, Stream
<1>3. \A f : StreamLen(f)' = StreamLen(f)
  BY <1>2 DEF StreamLen
<1>4. \A f : Positions(f)' = Positions(f)
  BY <1>3 DEF Positions
<1>5. \A f : SegmentStates(f)' = SegmentStates(f)
  BY <1>4 DEF SegmentStates
<1>6. \A f : TcpStates(f)' = TcpStates(f)
  BY <1>4, <1>5 DEF TcpStates
<1>7. \A f, t : DoneWhole(f, t)' <=> DoneWhole(f, t)
  BY <1>3 DEF DoneWhole
<1>8. \A f, t : FlowExact(f, t)' <=> FlowExact(f, t)
  BY <1>6, <1>7 DEF FlowExact
<1>9. \A f, t, X : FlowOK(f, t, X)' <=> FlowOK(f, t, X)
  BY <1>8 DEF FlowOK
<1>10. \A T, w : Kept(T, w)' = Kept(T, w)
  BY <1>2 DEF Kept
<1> QED
  BY <1>1, <1>9, <1>10 DEF TcpOK

----------------------------------------------------------------------------
(* The invariant: a wire is chosen, what the workers hold of TCP flows is   *)
(* whole and in order, and so is what they hold of fragmented messages.     *)

TransportInv == wire \in DOMAIN Wires /\ TcpOK(tcp, tcpOrder, seen) /\ FragOK(frag)

\* The invariant holds at the start.
LEMMA TransportStarts == TransportInit => TransportInv
<1> SUFFICES ASSUME TransportInit PROVE TransportInv
  OBVIOUS
<1>1. /\ wire \in DOMAIN Wires /\ tcp = [f \in Flows |-> NoFlow]
      /\ tcpOrder = [w \in Workers |-> <<>>] /\ seen = [f \in Flows |-> {}]
  BY DEF TransportInit
<1>2. FragOK(frag)
  BY FragStart DEF TransportInit
<1>3. ASSUME NEW f \in Flows PROVE FlowOK(f, tcp[f], seen[f]) /\ tcp[f].known = FALSE
  <2>1. tcp[f] = NoFlow
    BY <1>1
  <2> QED
    BY <1>1, <2>1, NoFlowOK
<1>4. ASSUME NEW w \in Workers
      PROVE  QueueExact(tcpOrder[w], Kept(tcp, w)) /\ Len(tcpOrder[w]) <= Capacity
  <2>1. Kept(tcp, w) = {}
    BY <1>3 DEF Kept
  <2>2. tcpOrder[w] = <<>> /\ Capacity \in Nat
    BY <1>1, WireFacts
  <2>3. QueueExact(<<>>, {}) /\ Len(<<>>) = 0
    BY QueueEmpty
  <2> QED
    BY <2>1, <2>2, <2>3
<1>5. /\ tcp = [f \in Flows |-> tcp[f]] /\ seen \in [Flows -> SUBSET Nat]
      /\ tcpOrder \in [Workers -> Seq(Flows)]
  BY <1>1
<1>6. TcpOK(tcp, tcpOrder, seen)
  BY <1>3, <1>4, <1>5 DEF TcpOK
<1> QED
  BY <1>1, <1>2, <1>6 DEF TransportInv

\* One packet, of any kind.
LEMMA PacketKeeps ==
    ASSUME TransportInv, NEW f \in Flows, Packet(f)
    PROVE  wire' = wire /\ TcpOK(tcp', tcpOrder', seen') /\ FragOK(frag')
<1>1. wire \in DOMAIN Wires /\ TcpOK(tcp, tcpOrder, seen) /\ FragOK(frag)
  BY DEF TransportInv
<1>2. wire' = wire
  BY DEF Packet
<1>3. CASE TcpEnd(f)
  BY <1>1, <1>2, <1>3, TcpEndKeeps
<1>4. ASSUME NEW a \in W.cuts, NEW b \in W.cuts, NEW fin \in BOOLEAN,
             a < b, b <= StreamLen(f), TcpData(f, a, b, fin)
      PROVE  TcpOK(tcp', tcpOrder', seen') /\ FragOK(frag')
  <2>1. a \in Nat /\ b \in Nat
    BY <1>1, WireFacts
  <2> QED
    BY <1>1, <1>4, <2>1, TcpDataKeeps
<1>5. ASSUME NEW i \in DOMAIN Stream(f), UdpData(f, i)
      PROVE  TcpOK(tcp', tcpOrder', seen') /\ FragOK(frag')
  <2> DEFINE F == ExpireInactive(frag, Host(f))
             m == Stream(f)[i]
  <2>1. /\ frag' = IF m.kind = "bad" THEN F ELSE ExpandMessage(F, Host(f), f, m)
        /\ tcp' = tcp /\ tcpOrder' = tcpOrder /\ seen' = seen
    BY <1>5 DEF UdpData
  <2>2. FragOK(F)
    BY <1>1, WireFacts, RemoveChainsKeeps DEF ExpireInactive
  <2>3. m \in ToSet(Stream(f))
    BY DEF ToSet
  <2> HIDE DEF F, m
  <2>4. FragOK(ExpandMessage(F, Host(f), f, m))
    BY <1>1, <2>2, <2>3, ExpandMessageKeeps
  <2> QED
    BY <1>1, <2>1, <2>2, <2>4
<1> QED
  BY <1>2, <1>3, <1>4, <1>5 DEF Packet

\* Every step keeps the invariant.
LEMMA TransportStep == TransportInv /\ [TransportNext]_transportVars => TransportInv'
<1> SUFFICES ASSUME TransportInv, [TransportNext]_transportVars PROVE TransportInv'
  OBVIOUS
<1>1. wire \in DOMAIN Wires /\ TcpOK(tcp, tcpOrder, seen) /\ FragOK(frag)
  BY DEF TransportInv
<1>2. wire' = wire /\ TcpOK(tcp', tcpOrder', seen') /\ FragOK(frag')
  <2>1. ASSUME NEW f \in Flows, Packet(f)
        PROVE  wire' = wire /\ TcpOK(tcp', tcpOrder', seen') /\ FragOK(frag')
    BY <2>1, PacketKeeps
  <2>2. ASSUME NEW w \in Workers, Expire(w)
        PROVE  wire' = wire /\ TcpOK(tcp', tcpOrder', seen') /\ FragOK(frag')
    <3>1. /\ frag' = ExpireInactive(frag, w) /\ wire' = wire /\ tcp' = tcp
          /\ tcpOrder' = tcpOrder /\ seen' = seen
      BY <2>2 DEF Expire
    <3>2. FragOK(ExpireInactive(frag, w))
      BY <1>1, WireFacts, RemoveChainsKeeps DEF ExpireInactive
    <3> QED
      BY <1>1, <3>1, <3>2
  <2>3. ASSUME NEW w \in Workers, Drop(w)
        PROVE  wire' = wire /\ TcpOK(tcp', tcpOrder', seen') /\ FragOK(frag')
    <3>1. wire' = wire
      BY <2>3 DEF Drop
    <3> QED
      BY <1>1, <2>3, <3>1, DropFlowsKeeps
  <2>4. CASE TransportTick
    <3>1. /\ frag' = [frag EXCEPT !.chains = [w \in Workers |-> Older(@[w])]]
          /\ wire' = wire /\ tcp' = tcp /\ tcpOrder' = tcpOrder /\ seen' = seen
      BY <2>4 DEF TransportTick
    <3>2. FragOK(frag')
      BY <1>1, <3>1, TickKeeps
    <3> QED
      BY <1>1, <3>1, <3>2
  <2>5. CASE UNCHANGED transportVars
    BY <1>1, <2>5 DEF transportVars
  <2> QED
    BY <2>1, <2>2, <2>3, <2>4, <2>5 DEF TransportNext
<1>3. TcpOK(tcp, tcpOrder, seen)'
  BY <1>2, SameTcp
<1>4. FragOK(frag)'
  BY <1>2, SameFrag
<1> QED
  BY <1>1, <1>2, <1>3, <1>4 DEF TransportInv

\* The invariant always holds.
LEMMA TransportAlways == TransportSpec => []TransportInv
BY TransportStarts, TransportStep, PTL DEF TransportSpec

----------------------------------------------------------------------------
(* What follows.                                                           *)

\* An aligned flow has its stream.
LEMMA FlowIntact ==
    ASSUME TransportInv, NEW f \in Flows, tcp[f].aligned
    PROVE  LET t    == tcp[f]
               done == t.read \o t.buffer
               last == t.from + Len(done)
           IN  /\ done = [i \in 1 .. Len(done) |-> t.from + i - 1]
               /\ t.from % BatchLen = 0 /\ Len(t.buffer) < BatchLen
               /\ t.next = Seqno(last)
               /\ \A p \in seen[f] : p >= last =>
                     \E i \in DOMAIN t.segments : p \in ToSet(t.segments[i].bytes)
<1> DEFINE t == tcp[f]
           X == seen[f]
           done == t.read \o t.buffer
           last == t.from + Len(done)
<1>1. wire \in DOMAIN Wires /\ FlowOK(f, t, X)
  BY DEF TransportInv, TcpOK
<1>2. t.aligned
  OBVIOUS
<1> HIDE DEF t, X
<1>3. /\ t \in TcpStates(f) /\ DoneWhole(f, t) /\ Len(t.buffer) < BatchLen /\ InQueue(t, X)
  BY <1>1, <1>2 DEF FlowOK, FlowExact
<1>4. /\ t.read \in Seq(Positions(f)) /\ t.buffer \in Seq(Positions(f)) /\ t.from \in Nat
      /\ Len(t.read) \in Nat /\ Len(t.buffer) \in Nat /\ t.segments \in Seq(SegmentStates(f))
  BY <1>1, <1>3, TcpParts
<1>5. done \in Seq(Positions(f)) /\ Len(done) = Len(t.read) + Len(t.buffer)
  BY <1>4, ConcatProperties
<1>6. last = Reached(t)
  <2> DEFINE x == Len(t.read)
             y == Len(t.buffer)
             n == Len(done)
             c == t.from
  <2>1. x \in Nat /\ y \in Nat /\ c \in Nat /\ n = x + y
    BY <1>4, <1>5
  <2>2. last = c + n /\ Reached(t) = c + x + y
    BY DEF Reached
  <2> HIDE DEF x, y, n, c, last
  <2>3. c + n = c + x + y
    BY <2>1
  <2> QED
    BY <2>2, <2>3
<1>7. Consecutive(done, t.from) /\ (t.from % BatchLen) = 0 /\ t.next = Seqno(last)
  BY <1>3, <1>6 DEF DoneWhole
<1>8. done = [i \in 1 .. Len(done) |-> t.from + i - 1]
  <2> HIDE DEF done
  <2>1. \A i \in 1 .. Len(done) : done[i] = t.from + i - 1
    BY <1>7 DEF Consecutive
  <2>2. DOMAIN done = 1 .. Len(done) /\ done = [i \in DOMAIN done |-> done[i]]
    BY <1>5
  <2> QED
    BY <2>1, <2>2
<1>9. ASSUME NEW p \in X, p >= last
      PROVE  \E i \in DOMAIN t.segments : p \in ToSet(t.segments[i].bytes)
  <2> HIDE DEF last
  <2>1. PICK i \in 1 .. Len(t.segments) : p \in ToSet(t.segments[i].bytes)
    BY <1>3, <1>6, <1>9 DEF InQueue
  <2>2. i \in DOMAIN t.segments
    BY <1>4, <2>1
  <2> QED
    BY <2>1, <2>2
<1> HIDE DEF done, last
<1> QED
  BY <1>3, <1>7, <1>8, <1>9 DEF t, X, done, last

\* Every worker stays within its bounds.
LEMMA WorkersBounded == ASSUME TransportInv PROVE StateBounded
<1>1. wire \in DOMAIN Wires /\ TcpOK(tcp, tcpOrder, seen) /\ FragExact(frag)
  BY DEF TransportInv, FragOK
<1>2. ASSUME NEW w \in Workers
      PROVE  /\ QueueExact(tcpOrder[w], {f \in Flows : Host(f) = w /\ tcp[f].known})
             /\ Len(tcpOrder[w]) <= Capacity
  BY <1>1 DEF TcpOK, Kept
<1>3. ASSUME NEW w \in Workers
      PROVE  TableBounded(frag.chains[w]) /\ TableBounded(frag.resolutions[w])
  BY <1>1 DEF FragExact, ChainTable, ResolutionTable, TableExact
<1>4. ASSUME NEW f \in Flows
      PROVE  /\ tcp[f].queued = Bytes(tcp[f].segments)
             /\ tcp[f].queued <= QueueBytes /\ Len(tcp[f].segments) <= QueueSegments
  BY <1>1 DEF TcpOK, FlowOK, FlowExact, QueueWhole
<1> QED
  BY <1>2, <1>3, <1>4 DEF StateBounded

\* TransportExact holds in every state, for any wire, any number of workers
\* and any limits.
THEOREM TransportStaysExact == TransportSpec => []TransportExact
<1>1. TransportInv => TransportExact
  BY WorkersBounded, MessagesFromFrag DEF TransportInv, TransportExact
<1> QED
  BY <1>1, TransportAlways, PTL

\* StreamIntact holds in every state.
THEOREM StreamsStayIntact == TransportSpec => []StreamIntact
<1>1. TransportInv => StreamIntact
  BY FlowIntact DEF StreamIntact
<1> QED
  BY <1>1, TransportAlways, PTL

\* MessagesIntact holds in every state.
THEOREM MessagesStayIntact == TransportSpec => []MessagesIntact
<1>1. TransportInv => MessagesIntact
  BY MessagesFromFrag DEF TransportInv
<1> QED
  BY <1>1, TransportAlways, PTL

=============================================================================
