----------------------------- MODULE Reassembly -----------------------------
(* What the three reassemblers of the capture workers share: the interval   *)
(* list with which IP (capture/ip_frag.rs) and RTPS (protocols/rtps.rs)     *)
(* remember the bytes that have arrived, and the queue by which IP, RTPS    *)
(* and Zenoh (protocols/zenoh.rs) choose the flow to evict.                 *)
(* A range is a pair <<start, end>>, its end excluded.                      *)
EXTENDS Naturals, Sequences, SequencesExt

\* The positions a list of ranges holds.
Covered(rs) == UNION {rs[i][1] .. rs[i][2] - 1 : i \in DOMAIN rs}

\* Insert after the ranges that start no later: `partition_point`.
PartitionPoint(rs, start) ==
  CHOOSE n \in 0 .. Len(rs) :
    /\ \A i \in 1 .. n : rs[i][1] <= start
    /\ \A i \in n + 1 .. Len(rs) : rs[i][1] > start

\* How far a range that ends at `end` reaches once it has absorbed the ranges
\* i to j, and the last range the `while` loop absorbs: the first whose right
\* neighbour does not touch.
Reach(rs, i, j, end) == Max({end} \cup {rs[k][2] : k \in i .. j})
Stops(rs, i, j, end) == j = Len(rs) \/ rs[j + 1][1] > Reach(rs, i, j, end)
AbsorbedTo(rs, i, from, end) ==
  CHOOSE j \in from .. Len(rs) :
    Stops(rs, i, j, end) /\ \A k \in from .. j - 1 : ~Stops(rs, i, k, end)

\* Merge with the left neighbour when it reaches the new range, then absorb to
\* the right.
InsertRange(rs, start, end) ==
  LET place  == PartitionPoint(rs, start)
      first  == IF place > 0 /\ rs[place][2] >= start THEN place ELSE place + 1
      to     == AbsorbedTo(rs, first, place, end)
      merged == <<IF first = place THEN rs[place][1] ELSE start,
                  Reach(rs, first, to, end)>>
  IN  IF start >= end THEN rs
      ELSE SubSeq(rs, 1, first - 1) \o <<merged>> \o SubSeq(rs, to + 1, Len(rs))

\* RTPS keeps at most `max` ranges per sample: a new island is refused when
\* the list is full and the range touches none of it.
RangeFits(rs, start, end, max) ==
  \/ Len(rs) < max
  \/ \E i \in DOMAIN rs : rs[i][1] <= end /\ start <= rs[i][2]

\* Mutant: gaps are not looked for.
RangesReachTotal(rs, total) == Last(rs)[2] >= total

\* Complete: one range from 0 that reaches the total.
RangesComplete(rs, total) == Len(rs) = 1 /\ rs[1][1] = 0 /\ rs[1][2] >= total

\* What a list of ranges must be: sorted, with a gap between any two.
Separated(rs) ==
  /\ \A i \in DOMAIN rs : rs[i][1] < rs[i][2]
  /\ \A i, j \in DOMAIN rs : i < j => rs[i][2] < rs[j][1]

\* `while let Some(oldest) = order.pop_front() { if flows.remove(..) break }`:
\* the queue after the loop, and the flow it removed (a set of at most one).
EvictVictim(order, live) ==
  LET at == {i \in DOMAIN order : order[i] \in live}
  IN  {order[i] : i \in {j \in at : \A k \in at : j <= k}}

\* Mutant: the evicted flow keeps its place.
EvictQueueKeepsAll(order, live) == order

EvictQueue(order, live) ==
  LET at == {i \in DOMAIN order : order[i] \in live}
  IN  IF at = {} THEN <<>>
      ELSE LET i == CHOOSE j \in at : \A k \in at : j <= k
           IN  SubSeq(order, i + 1, Len(order))

\* The queue names every flow exactly once.
QueueExact(order, live) == IsInjective(order) /\ ToSet(order) = live
=============================================================================
