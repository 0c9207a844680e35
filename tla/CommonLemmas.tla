---------------------------- MODULE CommonLemmas ----------------------------
(***************************************************************************)
(* What the proofs about several components need: least and greatest       *)
(* numbers, induction and recursion over numbers, and the operators of     *)
(* module Reassembly, that is the list of byte ranges and the queue by     *)
(* which a flow to evict is chosen, as facts about sequences.              *)
(***************************************************************************)
EXTENDS Integers, Reassembly, FiniteSetTheorems, SequenceTheorems, WellFoundedInduction, TLAPS

----------------------------------------------------------------------------
(* Numbers.                                                                *)

\* A set of numbers has a least element; from the library's theorem for all
\* well-founded relations.
LEMMA LeastNumber ==
    ASSUME NEW T, T \subseteq Nat, T # {}
    PROVE  \E x \in T : \A y \in T : ~(y < x)
<1> DEFINE Less == {ss \in Nat \X Nat : ss[1] < ss[2]}
<1>1. IsWellFoundedOn(Less, Nat)
  BY NatLessThanWellFounded DEF OpToRel
<1> HIDE DEF Less
<1>2. PICK x \in T : \A y \in T : <<y, x>> \notin Less
  BY <1>1, WFMin
<1>3. ASSUME NEW y \in T, y < x PROVE <<y, x>> \in Less
  BY <1>3 DEF Less
<1> QED
  BY <1>2, <1>3

\* A bounded set of numbers has a greatest element, which Max is.
LEMMA GreatestNumber ==
    ASSUME NEW b \in Nat, NEW T, T \subseteq 0 .. b, T # {}
    PROVE  Max(T) \in T /\ \A y \in T : y <= Max(T)
<1> DEFINE D == {b - x : x \in T}
<1>1. D \subseteq Nat /\ D # {}
  <2>1. ASSUME NEW x \in T PROVE b - x \in Nat
    OBVIOUS
  <2> QED
    BY <2>1
<1> HIDE DEF D
<1>2. PICK d \in D : \A y \in D : ~(y < d)
  BY <1>1, LeastNumber
<1>3. PICK x \in T : d = b - x
  BY DEF D
<1>4. \A y \in T : x >= y
  <2> TAKE y \in T
  <2>1. b - y \in D
    BY DEF D
  <2>2. ~(b - y < b - x)
    BY <1>2, <1>3, <2>1
  <2> QED
    BY <2>2
<1>5. \E m \in T : \A y \in T : m >= y
  BY <1>4
<1>6. Max(T) \in T /\ \A y \in T : Max(T) >= y
  BY <1>5 DEF Max
<1> QED
  BY <1>6

\* Max is the one element that no other exceeds.
LEMMA MaxIs ==
    ASSUME NEW T, T \subseteq Nat, NEW m \in T, \A y \in T : y <= m
    PROVE  Max(T) = m
<1>1. \E x \in T : \A y \in T : x >= y
  OBVIOUS
<1>2. Max(T) \in T /\ \A y \in T : Max(T) >= y
  BY <1>1 DEF Max
<1> DEFINE g == Max(T)
<1>3. g \in T /\ \A y \in T : g >= y
  BY <1>2
<1> HIDE DEF g
<1>4. g \in Nat /\ m \in Nat /\ g <= m /\ m <= g
  BY <1>3
<1>5. g = m
  BY <1>4
<1> QED
  BY <1>5 DEF g

\* Induction, over a set instead of a predicate.
LEMMA Induction ==
    ASSUME NEW T, 0 \in T, \A n \in Nat : n \in T => n + 1 \in T
    PROVE  Nat \subseteq T
<1> SUFFICES ASSUME Nat \ T # {} PROVE FALSE
  OBVIOUS
<1> DEFINE Rest == Nat \ T
<1>1. Rest \subseteq Nat /\ Rest # {}
  OBVIOUS
<1> HIDE DEF Rest
<1>2. PICK x \in Rest : \A y \in Rest : ~(y < x)
  BY <1>1, LeastNumber
<1>3. x \in Nat /\ x \notin T
  BY DEF Rest
<1>4. x # 0
  BY <1>3
<1>5. x - 1 \in Nat /\ (x - 1) + 1 = x /\ x - 1 < x
  BY <1>3, <1>4
<1>6. x - 1 \in T
  BY <1>2, <1>5 DEF Rest
<1> QED
  BY <1>3, <1>5, <1>6

\* What a loop does in its n-th turn with what it has computed so far, and the
\* sequences of values that the loop computes from a.
Turns(S) == [Nat \X S -> S]
Iterations(S, a, G) ==
    {f \in [Nat -> S] : f[0] = a /\ \A n \in Nat : f[n + 1] = G[<<n, f[n]>>]}

\* Every loop computes something: functions on the numbers can be defined by
\* recursion.
LEMMA Recursion ==
    ASSUME NEW S, NEW a, a \in S, NEW G, G \in Turns(S)
    PROVE  Iterations(S, a, G) # {}
<1>0. G \in [Nat \X S -> S]
  BY DEF Turns
<1> DEFINE Approx(n) == {f \in [0 .. n -> S] :
                            f[0] = a /\ \A i \in 0 .. n : i # 0 => f[i] = G[<<i - 1, f[i - 1]>>]}
<1>1. \A n \in Nat : Approx(n) # {}
  <2> DEFINE T == {n \in Nat : Approx(n) # {}}
  <2>1. 0 \in T
    <3>1. [i \in 0 .. 0 |-> a] \in Approx(0)
      OBVIOUS
    <3> QED
      BY <3>1
  <2>2. ASSUME NEW n \in Nat, n \in T PROVE n + 1 \in T
    <3>1. PICK f : f \in Approx(n)
      BY <2>2
    <3>2. f \in [0 .. n -> S] /\ f[0] = a
          /\ \A i \in 0 .. n : i # 0 => f[i] = G[<<i - 1, f[i - 1]>>]
      BY <3>1
    <3> DEFINE g == [i \in 0 .. n + 1 |-> IF i = n + 1 THEN G[<<n, f[n]>>] ELSE f[i]]
    <3>3. G[<<n, f[n]>>] \in S
      BY <1>0, <3>2
    <3>4. g \in [0 .. n + 1 -> S] /\ g[0] = a
      BY <3>2, <3>3
    <3>5. ASSUME NEW i \in 0 .. n + 1, i # 0 PROVE g[i] = G[<<i - 1, g[i - 1]>>]
      <4>1. CASE i = n + 1
        <5>1. i - 1 = n /\ n \in 0 .. n + 1 /\ n # n + 1
          BY <4>1
        <5>2. g[n] = f[n]
          BY <5>1
        <5> QED
          BY <4>1, <5>1, <5>2
      <4>2. CASE i # n + 1
        <5>1. i \in 0 .. n /\ i - 1 \in 0 .. n /\ i - 1 # n + 1 /\ i - 1 \in 0 .. n + 1
          BY <3>5, <4>2
        <5>2. g[i] = f[i] /\ g[i - 1] = f[i - 1]
          BY <4>2, <5>1
        <5> QED
          BY <3>2, <3>5, <5>1, <5>2
      <4> QED
        BY <4>1, <4>2
    <3> HIDE DEF g
    <3>6. g \in Approx(n + 1)
      BY <3>4, <3>5
    <3> QED
      BY <3>6
  <2> HIDE DEF T
  <2>3. Nat \subseteq T
    BY <2>1, <2>2, Induction
  <2> QED
    BY <2>3 DEF T
<1>2. ASSUME NEW m \in Nat, NEW n \in Nat, NEW f \in Approx(m), NEW g \in Approx(n)
      PROVE  \A i \in Nat : i <= m /\ i <= n => f[i] = g[i]
  <2> DEFINE T == {i \in Nat : i <= m /\ i <= n => f[i] = g[i]}
  <2>1. 0 \in T
    BY <1>2
  <2>2. ASSUME NEW i \in Nat, i \in T PROVE i + 1 \in T
    <3>1. SUFFICES ASSUME i + 1 <= m, i + 1 <= n PROVE f[i + 1] = g[i + 1]
      OBVIOUS
    <3>2. f[i] = g[i] /\ (i + 1) - 1 = i /\ i + 1 # 0 /\ i + 1 \in 0 .. m /\ i + 1 \in 0 .. n
      BY <2>2, <3>1
    <3>3. f[i + 1] = G[<<(i + 1) - 1, f[(i + 1) - 1]>>]
      BY <1>2, <3>2
    <3>4. g[i + 1] = G[<<(i + 1) - 1, g[(i + 1) - 1]>>]
      BY <1>2, <3>2
    <3> QED
      BY <3>2, <3>3, <3>4
  <2> HIDE DEF T
  <2>3. Nat \subseteq T
    BY <2>1, <2>2, Induction
  <2> QED
    BY <2>3 DEF T
<1> DEFINE A(n) == CHOOSE f : f \in Approx(n)
           F == [n \in Nat |-> A(n)[n]]
<1> HIDE DEF Approx
<1>3. \A n \in Nat : A(n) \in Approx(n)
  BY <1>1
<1> HIDE DEF A
<1>4. F \in [Nat -> S]
  BY <1>3 DEF Approx
<1>5. F[0] = a
  BY <1>3 DEF Approx
<1>6. ASSUME NEW n \in Nat PROVE F[n + 1] = G[<<n, F[n]>>]
  <2>1. A(n + 1) \in Approx(n + 1) /\ A(n) \in Approx(n) /\ n + 1 \in Nat
    BY <1>3
  <2>2. A(n + 1)[n] = A(n)[n]
    BY <1>2, <2>1
  <2>3. n + 1 \in 0 .. n + 1 /\ n + 1 # 0 /\ (n + 1) - 1 = n
    OBVIOUS
  <2>4. A(n + 1)[n + 1] = G[<<(n + 1) - 1, A(n + 1)[(n + 1) - 1]>>]
    BY <2>1, <2>3 DEF Approx
  <2> QED
    BY <2>2, <2>3, <2>4
<1>7. F \in Iterations(S, a, G)
  BY <1>4, <1>5, <1>6 DEF Iterations
<1> QED
  BY <1>7

\* Induction up to a bound.
LEMMA BoundedInduction ==
    ASSUME NEW N \in Nat, NEW T, 0 \in T, \A n \in 0 .. N : n < N /\ n \in T => n + 1 \in T
    PROVE  0 .. N \subseteq T
<1> DEFINE U == {n \in Nat : n <= N => n \in T}
<1>1. 0 \in U
  OBVIOUS
<1>2. ASSUME NEW n \in Nat, n \in U PROVE n + 1 \in U
  BY <1>2
<1> HIDE DEF U
<1>3. Nat \subseteq U
  BY <1>1, <1>2, Induction
<1>4. ASSUME NEW n \in 0 .. N PROVE n \in T
  <2>1. n \in Nat /\ n <= N /\ n \in U
    BY <1>3
  <2> QED
    BY <2>1 DEF U
<1> QED
  BY <1>4

\* The same of a loop of N turns.
BoundedTurns(S, N) == [(1 .. N) \X S -> S]
BoundedIterations(S, a, N, H) ==
    {f \in [0 .. N -> S] : f[0] = a /\ \A n \in 1 .. N : f[n] = H[<<n, f[n - 1]>>]}

LEMMA BoundedRecursion ==
    ASSUME NEW S, NEW a, a \in S, NEW N \in Nat, NEW H, H \in BoundedTurns(S, N)
    PROVE  BoundedIterations(S, a, N, H) # {}
<1>0. H \in [(1 .. N) \X S -> S]
  BY DEF BoundedTurns
<1> DEFINE G == [x \in Nat \X S |-> IF x[1] + 1 \in 1 .. N THEN H[<<x[1] + 1, x[2]>>] ELSE x[2]]
<1>1. G \in [Nat \X S -> S]
  BY <1>0
<1>2. \A n \in Nat, v \in S : n + 1 \in 1 .. N => G[<<n, v>>] = H[<<n + 1, v>>]
  OBVIOUS
<1> HIDE DEF G
<1>3. PICK F \in [Nat -> S] : F[0] = a /\ \A n \in Nat : F[n + 1] = G[<<n, F[n]>>]
  <2>1. Iterations(S, a, G) # {}
    BY <1>1, Recursion DEF Turns
  <2> QED
    BY <2>1 DEF Iterations
<1> DEFINE f == [n \in 0 .. N |-> F[n]]
<1>4. f \in [0 .. N -> S] /\ f[0] = a
  BY <1>3
<1>5. ASSUME NEW n \in 1 .. N PROVE f[n] = H[<<n, f[n - 1]>>]
  <2>1. n - 1 \in Nat /\ (n - 1) + 1 = n /\ n \in 0 .. N /\ n - 1 \in 0 .. N
    OBVIOUS
  <2>2. f[n] = F[n] /\ f[n - 1] = F[n - 1] /\ F[n - 1] \in S
    BY <1>3, <2>1
  <2>3. F[(n - 1) + 1] = G[<<n - 1, F[n - 1]>>]
    BY <1>3, <2>1
  <2>4. G[<<n - 1, F[n - 1]>>] = H[<<(n - 1) + 1, F[n - 1]>>]
    BY <1>2, <2>1, <2>2
  <2> QED
    BY <2>1, <2>2, <2>3, <2>4
<1>6. f \in BoundedIterations(S, a, N, H)
  BY <1>4, <1>5 DEF BoundedIterations
<1> QED
  BY <1>6

\* A running total, as the recursive functions that add up a sequence are.
LEMMA RunningSum ==
    ASSUME NEW N \in Nat, NEW s, \A n \in 1 .. N : s[n] \in Int
    PROVE  LET u == CHOOSE g : g = [n \in 0 .. N |-> IF n = 0 THEN 0 ELSE g[n - 1] + s[n]]
           IN  /\ u \in [0 .. N -> Int] /\ u[0] = 0
               /\ \A n \in 1 .. N : u[n] = u[n - 1] + s[n]
<1> DEFINE Is(g) == g = [n \in 0 .. N |-> IF n = 0 THEN 0 ELSE g[n - 1] + s[n]]
           H == [x \in (1 .. N) \X Int |-> x[2] + s[x[1]]]
<1>2. H \in [(1 .. N) \X Int -> Int] /\ \A n \in 1 .. N, y \in Int : H[<<n, y>>] = y + s[n]
  OBVIOUS
<1> HIDE DEF H
<1>3. PICK f \in [0 .. N -> Int] : f[0] = 0 /\ \A n \in 1 .. N : f[n] = H[<<n, f[n - 1]>>]
  <2>1. H \in BoundedTurns(Int, N) /\ 0 \in Int
    BY <1>2 DEF BoundedTurns
  <2>2. BoundedIterations(Int, 0, N, H) # {}
    BY <2>1, BoundedRecursion
  <2> QED
    BY <2>2 DEF BoundedIterations
<1>4. ASSUME NEW n \in 1 .. N PROVE f[n] = f[n - 1] + s[n]
  <2>1. n - 1 \in 0 .. N
    OBVIOUS
  <2> QED
    BY <1>2, <1>3, <2>1
<1>5. Is(f)
  <2>1. ASSUME NEW n \in 0 .. N PROVE f[n] = IF n = 0 THEN 0 ELSE f[n - 1] + s[n]
    <3>1. n # 0 => n \in 1 .. N
      OBVIOUS
    <3> QED
      BY <1>3, <1>4, <3>1
  <2> QED
    BY <1>3, <2>1
<1> DEFINE u == CHOOSE g : Is(g)
<1>6. Is(u)
  BY <1>5
<1> HIDE DEF u
<1>8. /\ u[0] = 0 /\ \A n \in 1 .. N : u[n] = u[n - 1] + s[n]
  BY <1>6
<1>9. 0 .. N \subseteq {n \in 0 .. N : u[n] \in Int}
  <2> DEFINE T == {n \in 0 .. N : u[n] \in Int}
  <2>1. 0 \in T
    BY <1>8
  <2>2. ASSUME NEW n \in 0 .. N, n < N, n \in T PROVE n + 1 \in T
    <3>1. n + 1 \in 1 .. N /\ n + 1 \in 0 .. N /\ (n + 1) - 1 = n
      BY <2>2
    <3>2. u[n + 1] = u[n] + s[n + 1]
      BY <1>8, <3>1
    <3> QED
      BY <2>2, <3>1, <3>2
  <2> HIDE DEF T
  <2>3. 0 .. N \subseteq T
    BY <2>1, <2>2, BoundedInduction
  <2> QED
    BY <2>3 DEF T
<1>10. u \in [0 .. N -> Int]
  BY <1>6, <1>9
<1> QED
  BY <1>8, <1>10 DEF u

----------------------------------------------------------------------------
(* The ranges of a flow.                                                   *)

\* A piece of a list replaced by one element.
Splice(rs, first, to, r) ==
    SubSeq(rs, 1, first - 1) \o <<r>> \o SubSeq(rs, to + 1, Len(rs))

\* What a splice is made of, element by element.
LEMMA SpliceForm ==
    ASSUME NEW S, NEW rs \in Seq(S), NEW r \in S, NEW first \in Nat, NEW to \in Nat,
           1 <= first, first <= to + 1, to <= Len(rs)
    PROVE  LET new == Splice(rs, first, to, r) IN
           /\ new \in Seq(S)
           /\ Len(new) = (Len(rs) + first) - to
           /\ new[first] = r
           /\ \A i \in 1 .. first - 1 : new[i] = rs[i]
           /\ \A i \in first + 1 .. Len(new) : new[i] = rs[(i + to) - first]
<1> DEFINE p == SubSeq(rs, 1, first - 1)
           q == SubSeq(rs, to + 1, Len(rs))
<1>0. Len(rs) \in Nat /\ DOMAIN rs = 1 .. Len(rs)
  OBVIOUS
<1>1. p \in Seq(S) /\ Len(p) = first - 1 /\ \A i \in 1 .. first - 1 : p[i] = rs[i]
  BY <1>0
<1>2. q \in Seq(S) /\ Len(q) = Len(rs) - to /\ \A i \in 1 .. Len(rs) - to : q[i] = rs[i + to]
  <2>1. \A i \in to + 1 .. Len(rs) : rs[i] \in S
    BY <1>0
  <2>2. to + 1 \in Int /\ Len(rs) \in Int
    BY <1>0
  <2>3. /\ q \in Seq(S)
        /\ Len(q) = IF to + 1 <= Len(rs) THEN Len(rs) - (to + 1) + 1 ELSE 0
        /\ \A i \in 1 .. Len(rs) - (to + 1) + 1 : q[i] = rs[to + 1 + i - 1]
    BY <2>1, <2>2, SubSeqProperties
  <2> HIDE DEF q
  <2>4. Len(q) = Len(rs) - to
    <3>1. Len(q) = IF to + 1 <= Len(rs) THEN Len(rs) - (to + 1) + 1 ELSE 0
      BY <2>3
    <3>2. Len(rs) \in Nat /\ to \in Nat /\ to <= Len(rs)
      BY <1>0
    <3> QED
      BY <3>1, <3>2
  <2>5. ASSUME NEW i \in 1 .. Len(rs) - to PROVE q[i] = rs[i + to]
    <3>1. i \in 1 .. Len(rs) - (to + 1) + 1 /\ to + 1 + i - 1 = i + to
      BY <1>0
    <3> QED
      BY <2>3, <3>1
  <2> QED
    BY <2>3, <2>4, <2>5
<1>3. Splice(rs, first, to, r) = p \o <<r>> \o q
  BY DEF Splice
<1> HIDE DEF p, q
<1>4. p \o <<r>> \in Seq(S) /\ Len(p \o <<r>>) = first
      /\ \A i \in 1 .. first : (p \o <<r>>)[i] = IF i = first THEN r ELSE rs[i]
  BY <1>1
<1> DEFINE pr == p \o <<r>>
<1>5. pr \in Seq(S) /\ Len(pr) = first
      /\ \A i \in 1 .. first : pr[i] = IF i = first THEN r ELSE rs[i]
  BY <1>4
<1>6. Splice(rs, first, to, r) = pr \o q
  BY <1>3
<1> HIDE DEF pr
<1> DEFINE new == pr \o q
<1>7. /\ new \in Seq(S)
      /\ Len(new) = Len(pr) + Len(q)
      /\ \A i \in 1 .. Len(pr) + Len(q) :
            new[i] = IF i <= Len(pr) THEN pr[i] ELSE q[i - Len(pr)]
  BY <1>2, <1>5, ConcatProperties
<1> HIDE DEF new
<1>8. Len(new) = (Len(rs) + first) - to
  BY <1>0, <1>2, <1>5, <1>7
<1>9. new[first] = r
  BY <1>0, <1>2, <1>5, <1>7
<1>10. \A i \in 1 .. first - 1 : new[i] = rs[i]
  <2> TAKE i \in 1 .. first - 1
  <2>1. i \in 1 .. first /\ i # first /\ i <= Len(pr) /\ i \in 1 .. Len(pr) + Len(q)
    BY <1>0, <1>2, <1>5
  <2> QED
    BY <1>5, <1>7, <2>1
<1>11. \A i \in first + 1 .. Len(new) : new[i] = rs[(i + to) - first]
  <2> TAKE i \in first + 1 .. Len(new)
  <2>1. i - first \in 1 .. Len(rs) - to /\ ~(i <= Len(pr)) /\ i \in 1 .. Len(pr) + Len(q)
    BY <1>0, <1>2, <1>5, <1>8
  <2>2. new[i] = q[i - first]
    BY <1>5, <1>7, <2>1
  <2>3. (i - first) + to = (i + to) - first
    BY <2>1
  <2> QED
    BY <1>2, <2>1, <2>2, <2>3
<1> QED
  BY <1>6, <1>7, <1>8, <1>9, <1>10, <1>11 DEF new

\* The lists of ranges that are kept.
Ranges == Seq(Nat \X Nat)

\* The elements of a list of ranges.
LEMMA RangeForm ==
    ASSUME NEW rs \in Ranges
    PROVE  /\ Len(rs) \in Nat /\ DOMAIN rs = 1 .. Len(rs)
           /\ \A i \in 1 .. Len(rs) :
                 rs[i] \in Nat \X Nat /\ rs[i][1] \in Nat /\ rs[i][2] \in Nat
BY DEF Ranges

\* partition_point on a sorted list.
LEMMA PartitionPointIs ==
    ASSUME NEW rs \in Ranges, Separated(rs), NEW start \in Nat
    PROVE  LET place == PartitionPoint(rs, start) IN
           /\ place \in 0 .. Len(rs)
           /\ \A i \in 1 .. place : rs[i][1] <= start
           /\ \A i \in place + 1 .. Len(rs) : rs[i][1] > start
<1>0. /\ Len(rs) \in Nat /\ DOMAIN rs = 1 .. Len(rs)
      /\ \A i \in 1 .. Len(rs) : rs[i][1] \in Nat /\ rs[i][2] \in Nat
  BY RangeForm
<1>s. \A i, j \in 1 .. Len(rs) : rs[i][1] < rs[i][2] /\ (i < j => rs[i][2] < rs[j][1])
  BY <1>0 DEF Separated
<1> DEFINE T == {n \in 0 .. Len(rs) : n = Len(rs) \/ rs[n + 1][1] > start}
<1>1. T \subseteq Nat /\ Len(rs) \in T
  BY <1>0
<1> HIDE DEF T
<1>2. PICK n \in T : \A y \in T : ~(y < n)
  BY <1>1, LeastNumber
<1>3. n \in 0 .. Len(rs) /\ (n = Len(rs) \/ rs[n + 1][1] > start)
  BY DEF T
<1>n. n \in Nat /\ n <= Len(rs)
  <2>1. n \in 0 .. Len(rs) /\ Len(rs) \in Nat
    BY <1>0, <1>3
  <2> QED
    BY <2>1
<1>4. \A i \in 1 .. n : rs[i][1] <= start
  <2> TAKE i \in 1 .. n
  <2>1. i - 1 \in 0 .. Len(rs) /\ (i - 1) + 1 = i /\ i - 1 < n /\ i - 1 # Len(rs)
        /\ i \in 1 .. Len(rs)
    BY <1>0, <1>n
  <2>2. i - 1 \notin T
    BY <1>2, <2>1
  <2>3. ~(rs[i][1] > start)
    BY <2>1, <2>2 DEF T
  <2> QED
    BY <1>0, <2>1, <2>3
<1>5. \A i \in n + 1 .. Len(rs) : rs[i][1] > start
  <2> TAKE i \in n + 1 .. Len(rs)
  <2>1. n + 1 \in 1 .. Len(rs) /\ i \in 1 .. Len(rs) /\ n # Len(rs)
    <3>1. Len(rs) \in Nat
      BY <1>0
    <3> QED
      BY <1>n, <3>1
  <2>2. rs[n + 1][1] > start
    BY <1>3, <2>1
  <2>3. CASE i = n + 1
    BY <2>2, <2>3
  <2>4. CASE n + 1 < i
    BY <1>0, <1>s, <2>1, <2>2, <2>4
  <2> QED
    BY <1>3, <2>3, <2>4
<1>6. \E m \in 0 .. Len(rs) : /\ \A i \in 1 .. m : rs[i][1] <= start
                              /\ \A i \in m + 1 .. Len(rs) : rs[i][1] > start
  BY <1>3, <1>4, <1>5
<1> QED
  BY <1>6 DEF PartitionPoint

\* How far a range reaches that has absorbed neighbours of a sorted list: as
\* far as itself or as the last of them.
LEMMA ReachIs ==
    ASSUME NEW rs \in Ranges, Separated(rs), NEW end \in Nat,
           NEW i \in Nat, 1 <= i, NEW j \in Nat, j <= Len(rs)
    PROVE  Reach(rs, i, j, end) =
             IF i <= j /\ rs[j][2] > end THEN rs[j][2] ELSE end
<1>0. /\ Len(rs) \in Nat /\ DOMAIN rs = 1 .. Len(rs)
      /\ \A k \in 1 .. Len(rs) : rs[k][1] \in Nat /\ rs[k][2] \in Nat
  BY RangeForm
<1>s. \A k, l \in 1 .. Len(rs) : rs[k][1] < rs[k][2] /\ (k < l => rs[k][2] < rs[l][1])
  BY <1>0 DEF Separated
<1> DEFINE T == {end} \cup {rs[k][2] : k \in i .. j}
           m == IF i <= j /\ rs[j][2] > end THEN rs[j][2] ELSE end
<1>1. T \subseteq Nat
  <2>1. ASSUME NEW k \in i .. j PROVE rs[k][2] \in Nat
    <3>1. k \in 1 .. Len(rs)
      BY <1>0
    <3> QED
      BY <1>0, <3>1
  <2> QED
    BY <2>1
<1>2. m \in T
  <2>1. CASE i <= j /\ rs[j][2] > end
    <3>1. j \in i .. j
      BY <2>1
    <3> QED
      BY <2>1, <3>1
  <2>2. CASE ~(i <= j /\ rs[j][2] > end)
    BY <2>2
  <2> QED
    BY <2>1, <2>2
<1>3. end <= m
  <2>1. CASE i <= j /\ rs[j][2] > end
    <3>1. j \in 1 .. Len(rs) /\ m = rs[j][2]
      BY <1>0, <2>1
    <3> QED
      BY <1>0, <2>1, <3>1
  <2>2. CASE ~(i <= j /\ rs[j][2] > end)
    BY <2>2
  <2> QED
    BY <2>1, <2>2
<1>4. ASSUME NEW k \in i .. j PROVE rs[k][2] <= m
  <2>1. k \in 1 .. Len(rs) /\ j \in 1 .. Len(rs) /\ i <= j /\ k <= j /\ k \in Nat
    BY <1>0
  <2>2. rs[k][2] \in Nat /\ rs[j][2] \in Nat /\ rs[j][1] \in Nat
    BY <1>0, <2>1
  <2>3. rs[k][2] <= rs[j][2]
    <3>1. CASE k = j
      BY <2>2, <3>1
    <3>2. CASE k < j
      <4>1. rs[k][2] < rs[j][1] /\ rs[j][1] < rs[j][2]
        BY <1>s, <2>1, <3>2
      <4> QED
        BY <2>2, <4>1
    <3> QED
      BY <2>1, <3>1, <3>2
  <2>4. CASE rs[j][2] > end
    BY <2>1, <2>3, <2>4
  <2>5. CASE ~(rs[j][2] > end)
    <3>1. m = end
      BY <2>5
    <3> QED
      BY <2>2, <2>3, <2>5, <3>1
  <2> QED
    BY <2>4, <2>5
<1>5. \A y \in T : y <= m
  BY <1>3, <1>4
<1> HIDE DEF m
<1>6. T \subseteq Nat /\ m \in T /\ \A y \in T : y <= m
  BY <1>1, <1>2, <1>5
<1> HIDE DEF T
<1>7. Max(T) = m
  BY <1>6, MaxIs
<1> QED
  BY <1>7 DEF T, m, Reach

\* The `while` loop stops, at the first range whose right neighbour is out of
\* reach.
LEMMA AbsorbedToIs ==
    ASSUME NEW rs \in Ranges, NEW i, NEW from \in Nat, from <= Len(rs), NEW end
    PROVE  LET to == AbsorbedTo(rs, i, from, end) IN
           /\ to \in from .. Len(rs)
           /\ Stops(rs, i, to, end)
           /\ \A k \in from .. to - 1 : ~Stops(rs, i, k, end)
<1>0. Len(rs) \in Nat
  BY RangeForm
<1> DEFINE T == {j \in from .. Len(rs) : Stops(rs, i, j, end)}
<1>1. T \subseteq Nat
  BY <1>0
<1>2. Len(rs) \in T
  BY <1>0 DEF Stops
<1> HIDE DEF T
<1>3. PICK n \in T : \A y \in T : ~(y < n)
  BY <1>1, <1>2, LeastNumber
<1>4. n \in from .. Len(rs) /\ Stops(rs, i, n, end)
  BY DEF T
<1>5. \A k \in from .. n - 1 : ~Stops(rs, i, k, end)
  <2> TAKE k \in from .. n - 1
  <2>1. n \in from .. Len(rs)
    BY <1>4
  <2>2. k \in from .. Len(rs) /\ k < n
    BY <1>0, <2>1
  <2> QED
    BY <1>3, <2>2 DEF T
<1>6. \E j \in from .. Len(rs) :
         Stops(rs, i, j, end) /\ \A k \in from .. j - 1 : ~Stops(rs, i, k, end)
  BY <1>4, <1>5
<1> QED
  BY <1>6 DEF AbsorbedTo

\* What insert_range does to a list: a run of ranges, none or many, gives way
\* to one range; those before it end before it starts, those behind it start
\* after it ends, and it holds exactly the new bytes and theirs.
Merges(rs, start, end, first, to, m) ==
    /\ first \in Nat /\ to \in Nat /\ m \in Nat \X Nat
    /\ 1 <= first /\ first <= to + 1 /\ to <= Len(rs)
    /\ m[1] < m[2]
    /\ \A i \in 1 .. first - 1 : rs[i][2] < m[1]
    /\ \A i \in to + 1 .. Len(rs) : m[2] < rs[i][1]
    /\ \A x \in Nat : (m[1] <= x /\ x < m[2]) <=>
          \/ start <= x /\ x < end
          \/ \E i \in first .. to : rs[i][1] <= x /\ x < rs[i][2]
    /\ (\E i \in 1 .. Len(rs) : rs[i][1] <= end /\ start <= rs[i][2]) => first <= to

\* insert_range replaces the run of ranges that the new one touches.
LEMMA InsertRangeMerges ==
    ASSUME NEW rs \in Ranges, Separated(rs), NEW start \in Nat, NEW end \in Nat,
           start < end
    PROVE  \E first, to, m : /\ Merges(rs, start, end, first, to, m)
                             /\ InsertRange(rs, start, end) = Splice(rs, first, to, m)
<1>0. /\ Len(rs) \in Nat /\ DOMAIN rs = 1 .. Len(rs)
      /\ \A k \in 1 .. Len(rs) : rs[k][1] \in Nat /\ rs[k][2] \in Nat
  BY RangeForm
<1>s. \A k, l \in 1 .. Len(rs) : rs[k][1] < rs[k][2] /\ (k < l => rs[k][2] < rs[l][1])
  BY <1>0 DEF Separated
<1> DEFINE place == PartitionPoint(rs, start)
           first == IF place > 0 /\ rs[place][2] >= start THEN place ELSE place + 1
           to == AbsorbedTo(rs, first, place, end)
           m == <<IF first = place THEN rs[place][1] ELSE start, Reach(rs, first, to, end)>>
<1>1. InsertRange(rs, start, end) = Splice(rs, first, to, m)
  <2>1. ~(start >= end)
    OBVIOUS
  <2> QED
    BY <2>1, Zenon DEF InsertRange, Splice
<1>2. /\ place \in 0 .. Len(rs)
      /\ \A i \in 1 .. place : rs[i][1] <= start
      /\ \A i \in place + 1 .. Len(rs) : rs[i][1] > start
  BY PartitionPointIs
<1> HIDE DEF place
<1>3. place \in Nat /\ place <= Len(rs)
  <2>1. place \in 0 .. Len(rs) /\ Len(rs) \in Nat
    BY <1>0, <1>2
  <2> QED
    BY <2>1
<1>4. \/ first = place /\ place >= 1 /\ rs[place][2] >= start
      \/ first = place + 1 /\ (place >= 1 => rs[place][2] < start)
  <2>1. place >= 1 => rs[place][2] \in Nat
    <3>1. place >= 1 => place \in 1 .. Len(rs)
      BY <1>0, <1>3
    <3> QED
      BY <1>0, <3>1
  <2> QED
    BY <1>3, <2>1
<1> HIDE DEF first
<1>5. first \in Nat /\ 1 <= first
  BY <1>3, <1>4
<1>6. /\ to \in place .. Len(rs)
      /\ Stops(rs, first, to, end)
      /\ \A k \in place .. to - 1 : ~Stops(rs, first, k, end)
  BY <1>3, AbsorbedToIs
<1> HIDE DEF to
<1>7. to \in Nat /\ place <= to /\ to <= Len(rs)
  <2>1. to \in place .. Len(rs)
    BY <1>6
  <2> QED
    BY <1>0, <1>3, <2>1
<1>8. first <= to + 1
  BY <1>3, <1>4, <1>7
\* The reach of the loop, turn by turn.
<1>9. \A j \in place .. Len(rs) : Reach(rs, first, j, end) =
           IF first <= j /\ rs[j][2] > end THEN rs[j][2] ELSE end
  <2> TAKE j \in place .. Len(rs)
  <2>1. j \in Nat /\ j <= Len(rs)
    BY <1>0, <1>3
  <2> QED
    BY <1>5, <2>1, ReachIs
<1> DEFINE m1 == m[1]
           m2 == m[2]
<1>10. m2 = IF first <= to /\ rs[to][2] > end THEN rs[to][2] ELSE end
  BY <1>6, <1>9
<1>11. m2 \in Nat /\ m2 >= end /\ (first <= to => rs[to][2] <= m2)
  <2>1. first <= to => to \in 1 .. Len(rs) /\ rs[to][2] \in Nat
    <3>1. first <= to => to \in 1 .. Len(rs)
      BY <1>0, <1>5, <1>7
    <3> QED
      BY <1>0, <3>1
  <2> HIDE DEF m2
  <2> QED
    BY <1>10, <2>1
<1>12. /\ m1 \in Nat /\ m1 <= start
       /\ first = place => m1 = rs[place][1]
       /\ first # place => m1 = start
  <2>1. first = place => place \in 1 .. Len(rs)
    BY <1>0, <1>3, <1>5
  <2>2. first = place => rs[place][1] \in Nat /\ rs[place][1] <= start
    <3>1. first = place => place \in 1 .. place
      BY <1>3, <1>5
    <3> QED
      BY <1>0, <1>2, <2>1, <3>1
  <2> QED
    BY <2>2
<1>m. m = <<m1, m2>>
  OBVIOUS
<1> HIDE DEF m1, m2, m
<1>13. \A i \in 1 .. first - 1 : rs[i][2] < m1
  <2> TAKE i \in 1 .. first - 1
  <2>1. i \in Nat /\ 1 <= i /\ i <= place /\ i \in 1 .. Len(rs) /\ place \in 1 .. Len(rs)
        /\ place \in 1 .. place
    BY <1>0, <1>3, <1>4, <1>5
  <2>2. /\ rs[i][2] \in Nat /\ rs[place][1] \in Nat /\ rs[place][1] <= start
        /\ i < place => rs[i][2] < rs[place][1]
    BY <1>0, <1>s, <1>2, <2>1
  <2>3. CASE first = place
    <3>1. i < place /\ m1 = rs[place][1]
      BY <1>3, <1>12, <2>1, <2>3
    <3> QED
      BY <2>2, <3>1
  <2>4. CASE first # place
    <3>1. m1 = start /\ rs[place][2] < start
      BY <1>3, <1>4, <1>12, <2>1, <2>4
    <3>2. CASE i = place
      BY <3>1, <3>2
    <3>3. CASE i # place
      <4>1. i < place
        BY <1>3, <2>1, <3>3
      <4> QED
        BY <2>2, <3>1, <4>1
    <3> QED
      BY <3>2, <3>3
  <2> QED
    BY <2>3, <2>4
<1>14. \A i \in to + 1 .. Len(rs) : m2 < rs[i][1]
  <2> TAKE i \in to + 1 .. Len(rs)
  <2>1. i \in Nat /\ to # Len(rs) /\ to + 1 \in 1 .. Len(rs) /\ i \in 1 .. Len(rs)
    <3>1. Len(rs) \in Nat
      BY <1>0
    <3> QED
      BY <1>7, <3>1
  <2>2. rs[to + 1][1] > m2
    BY <1>6, <2>1 DEF Stops, m2, m
  <2>3. CASE i = to + 1
    BY <2>2, <2>3
  <2>4. CASE i # to + 1
    <3>1. to + 1 < i
      BY <1>7, <2>1, <2>4
    <3>2. rs[to + 1][1] < rs[to + 1][2] /\ rs[to + 1][2] < rs[i][1]
          /\ rs[to + 1][1] \in Nat /\ rs[to + 1][2] \in Nat /\ rs[i][1] \in Nat
      BY <1>0, <1>s, <2>1, <3>1
    <3> QED
      BY <1>11, <2>2, <3>2
  <2> QED
    BY <2>3, <2>4
\* What the loop absorbs, the new range alone touches.
<1>15. \A i \in place + 1 .. to : rs[i][1] <= end
  <2> TAKE i \in place + 1 .. to
  <2>1. /\ i \in Nat /\ i \in 1 .. Len(rs) /\ i - 1 \in place .. to - 1
        /\ i - 1 \in place .. Len(rs) /\ i - 1 # Len(rs) /\ (i - 1) + 1 = i
        /\ i - 1 \in Nat /\ i - 1 < i
    BY <1>0, <1>3, <1>7
  <2>2. ~(rs[i][1] > Reach(rs, first, i - 1, end))
    BY <1>6, <2>1 DEF Stops
  <2>3. CASE first <= i - 1 /\ rs[i - 1][2] > end
    <3>1. i - 1 \in 1 .. Len(rs)
      BY <1>5, <2>1, <2>3
    <3>2. rs[i - 1][2] < rs[i][1] /\ rs[i - 1][2] \in Nat /\ rs[i][1] \in Nat
      BY <1>0, <1>s, <2>1, <3>1
    <3>3. Reach(rs, first, i - 1, end) = rs[i - 1][2]
      BY <1>9, <2>1, <2>3
    <3> QED
      BY <2>2, <3>2, <3>3
  <2>4. CASE ~(first <= i - 1 /\ rs[i - 1][2] > end)
    <3>1. Reach(rs, first, i - 1, end) = end
      BY <1>9, <2>1, <2>4
    <3>2. rs[i][1] \in Nat
      BY <1>0, <2>1
    <3> QED
      BY <2>2, <3>1, <3>2
  <2> QED
    BY <2>3, <2>4
<1>16. ASSUME NEW i \in first .. to
       PROVE  m1 <= rs[i][1] /\ rs[i][2] <= m2 /\ i \in 1 .. Len(rs) /\ i \in Nat
  <2>1. i \in Nat /\ i \in 1 .. Len(rs) /\ to \in 1 .. Len(rs) /\ i <= to /\ first <= to
    BY <1>0, <1>5, <1>7
  <2>2. rs[i][1] \in Nat /\ rs[i][2] \in Nat /\ rs[to][1] \in Nat /\ rs[to][2] \in Nat
    BY <1>0, <2>1
  <2>3. m1 <= rs[i][1]
    <3>1. CASE i = place
      <4>1. first = place
        BY <1>3, <1>4, <3>1
      <4> QED
        BY <1>12, <2>2, <3>1, <4>1
    <3>2. CASE i # place
      <4>1. i \in place + 1 .. Len(rs)
        BY <1>0, <1>3, <1>4, <2>1, <3>2
      <4>2. rs[i][1] > start
        BY <1>2, <4>1
      <4> QED
        BY <1>12, <2>2, <4>2
    <3> QED
      BY <3>1, <3>2
  <2>4. rs[i][2] <= m2
    <3>1. rs[to][2] <= m2
      BY <1>11, <2>1
    <3>2. CASE i = to
      BY <3>1, <3>2
    <3>3. CASE i # to
      <4>1. i < to
        BY <1>7, <2>1, <3>3
      <4>2. rs[i][2] < rs[to][1] /\ rs[to][1] < rs[to][2]
        BY <1>s, <2>1, <4>1
      <4> QED
        BY <1>11, <2>2, <3>1, <4>2
    <3> QED
      BY <3>2, <3>3
  <2> QED
    BY <2>1, <2>3, <2>4
<1>17. ASSUME NEW x \in Nat, m1 <= x, x < m2, ~(start <= x /\ x < end)
       PROVE  \E i \in first .. to : rs[i][1] <= x /\ x < rs[i][2]
  <2>1. CASE x < start
    <3>1. first = place /\ m1 = rs[place][1] /\ rs[place][2] >= start
      <4>1. first # place => m1 = start
        BY <1>12
      <4>2. m1 # start
        BY <1>17, <2>1
      <4> QED
        BY <1>3, <1>4, <1>12, <4>1, <4>2
    <3>2. place \in first .. to /\ place \in 1 .. Len(rs)
      BY <1>0, <1>3, <1>5, <1>7, <3>1
    <3>3. rs[place][2] \in Nat
      BY <1>0, <3>2
    <3>4. rs[place][1] <= x /\ x < rs[place][2]
      BY <1>17, <2>1, <3>1, <3>3
    <3> QED
      BY <3>2, <3>4
  <2>2. CASE ~(x < start)
    <3>1. x >= end
      BY <1>17, <2>2
    <3>2. m2 # end
      BY <1>11, <1>17, <3>1
    <3>3. first <= to /\ m2 = rs[to][2]
      BY <1>10, <3>2
    <3>4. to \in first .. to /\ to \in 1 .. Len(rs)
      BY <1>0, <1>5, <1>7, <3>3
    <3>5. rs[to][1] \in Nat
      BY <1>0, <3>4
    <3>6. rs[to][1] <= end
      <4>1. CASE to = place
        <5>1. to \in 1 .. place
          BY <1>5, <1>7, <3>3, <4>1
        <5>2. rs[to][1] <= start
          BY <1>2, <5>1
        <5> QED
          BY <3>5, <5>2
      <4>2. CASE to # place
        <5>1. to \in place + 1 .. to
          BY <1>3, <1>7, <4>2
        <5> QED
          BY <1>15, <5>1
      <4> QED
        BY <4>1, <4>2
    <3>7. rs[to][1] <= x /\ x < rs[to][2]
      BY <1>17, <3>1, <3>3, <3>5, <3>6
    <3> QED
      BY <3>4, <3>7
  <2> QED
    BY <2>1, <2>2
<1>18. ASSUME NEW x \in Nat
       PROVE  (m1 <= x /\ x < m2) <=>
                 \/ start <= x /\ x < end
                 \/ \E i \in first .. to : rs[i][1] <= x /\ x < rs[i][2]
  <2>1. ASSUME start <= x, x < end PROVE m1 <= x /\ x < m2
    BY <1>11, <1>12, <2>1
  <2>2. ASSUME NEW i \in first .. to, rs[i][1] <= x, x < rs[i][2] PROVE m1 <= x /\ x < m2
    <3>1. m1 <= rs[i][1] /\ rs[i][2] <= m2 /\ i \in 1 .. Len(rs)
      BY <1>16
    <3>2. rs[i][1] \in Nat /\ rs[i][2] \in Nat
      BY <1>0, <3>1
    <3> QED
      BY <1>11, <1>12, <2>2, <3>1, <3>2
  <2> QED
    BY <1>17, <2>1, <2>2
<1>19. ASSUME NEW i \in 1 .. Len(rs), rs[i][1] <= end, start <= rs[i][2]
       PROVE  first <= to
  <2>0. i \in Nat /\ rs[i][1] \in Nat /\ rs[i][2] \in Nat
    BY <1>0
  <2>1. CASE i <= place
    <3>1. place \in 1 .. Len(rs) /\ place \in 1 .. place
      BY <1>0, <1>3, <2>0, <2>1
    <3>2. rs[place][1] \in Nat /\ rs[place][2] \in Nat /\ rs[place][1] <= start
      BY <1>0, <1>2, <3>1
    <3>3. i = place
      <4>1. i < place => rs[i][2] < rs[place][1]
        BY <1>s, <3>1
      <4> QED
        BY <1>3, <1>19, <2>0, <2>1, <3>2, <4>1
    <3>4. first = place
      BY <1>4, <1>19, <3>2, <3>3
    <3> QED
      BY <1>7, <3>4
  <2>2. CASE ~(i <= place)
    <3>1. place + 1 \in 1 .. Len(rs) /\ place # Len(rs) /\ place \in place .. Len(rs)
          /\ place + 1 <= i
      <4>1. Len(rs) \in Nat /\ i <= Len(rs)
        BY <1>0
      <4>2. i > place
        BY <1>3, <2>0, <2>2
      <4> QED
        BY <1>3, <2>0, <4>1, <4>2
    <3>2. rs[place + 1][1] \in Nat /\ rs[place + 1][1] <= rs[i][1]
      <4>1. rs[place + 1][1] \in Nat /\ rs[place + 1][2] \in Nat
            /\ rs[place + 1][1] < rs[place + 1][2]
            /\ (place + 1 < i => rs[place + 1][2] < rs[i][1])
        BY <1>0, <1>s, <3>1
      <4>2. CASE place + 1 = i
        BY <4>1, <4>2
      <4>3. CASE place + 1 # i
        <5>1. place + 1 < i
          BY <1>3, <2>0, <3>1, <4>3
        <5> QED
          BY <2>0, <4>1, <5>1
      <4> QED
        BY <4>2, <4>3
    <3>3. Reach(rs, first, place, end) >= end
      <4>1. CASE first <= place /\ rs[place][2] > end
        <5>1. place \in 1 .. Len(rs)
          BY <1>5, <1>3, <3>1, <4>1
        <5>2. rs[place][2] \in Nat /\ Reach(rs, first, place, end) = rs[place][2]
          BY <1>0, <1>9, <3>1, <4>1, <5>1
        <5> QED
          BY <4>1, <5>2
      <4>2. CASE ~(first <= place /\ rs[place][2] > end)
        BY <1>9, <3>1, <4>2
      <4> QED
        BY <4>1, <4>2
    <3>r. Reach(rs, first, place, end) \in Nat
      <4>1. first <= place => rs[place][2] \in Nat
        <5>1. first <= place => place \in 1 .. Len(rs)
          BY <1>5, <1>3, <3>1
        <5> QED
          BY <1>0, <5>1
      <4> QED
        BY <1>9, <3>1, <4>1
    <3>4. ~(rs[place + 1][1] > Reach(rs, first, place, end))
      <4>1. rs[place + 1][1] <= end
        BY <1>19, <2>0, <3>2
      <4> QED
        BY <3>2, <3>3, <3>r, <4>1
    <3>5. ~Stops(rs, first, place, end)
      BY <3>1, <3>4 DEF Stops
    <3>6. to # place
      BY <1>6, <3>5
    <3> QED
      BY <1>3, <1>4, <1>7, <3>6
  <2> QED
    BY <2>1, <2>2
<1>20. Merges(rs, start, end, first, to, m)
  <2>1. m[1] = m1 /\ m[2] = m2 /\ m \in Nat \X Nat
    BY <1>m, <1>11, <1>12
  <2>2. m1 < m2
    BY <1>11, <1>12
  <2> QED
    BY <1>5, <1>7, <1>8, <1>13, <1>14, <1>18, <1>19, <2>1, <2>2 DEF Merges
<1> QED
  BY <1>1, <1>20

\* The positions a list of ranges holds, one by one.
LEMMA CoveredIs ==
    ASSUME NEW rs \in Ranges
    PROVE  /\ Covered(rs) \subseteq Nat
           /\ \A x \in Nat : x \in Covered(rs) <=>
                 \E i \in 1 .. Len(rs) : rs[i][1] <= x /\ x < rs[i][2]
<1>0. /\ Len(rs) \in Nat /\ DOMAIN rs = 1 .. Len(rs)
      /\ \A k \in 1 .. Len(rs) : rs[k][1] \in Nat /\ rs[k][2] \in Nat
  BY RangeForm
<1>1. ASSUME NEW x \in Covered(rs)
      PROVE  x \in Nat /\ \E i \in 1 .. Len(rs) : rs[i][1] <= x /\ x < rs[i][2]
  <2>1. PICK i \in 1 .. Len(rs) : x \in rs[i][1] .. rs[i][2] - 1
    BY <1>0 DEF Covered
  <2>2. rs[i][1] \in Nat /\ rs[i][2] \in Nat
    BY <1>0
  <2>3. x \in Nat /\ rs[i][1] <= x /\ x < rs[i][2]
    BY <2>1, <2>2
  <2> QED
    BY <2>3
<1>2. ASSUME NEW x \in Nat, NEW i \in 1 .. Len(rs), rs[i][1] <= x, x < rs[i][2]
      PROVE  x \in Covered(rs)
  <2>1. rs[i][1] \in Nat /\ rs[i][2] \in Nat
    BY <1>0
  <2>2. x \in rs[i][1] .. rs[i][2] - 1
    BY <1>2, <2>1
  <2> QED
    BY <1>0, <2>2 DEF Covered
<1> QED
  BY <1>1, <1>2

\* insert_range on a sorted list of ranges keeps it sorted, with gaps, and
\* adds the new bytes; RTPS's test keeps it within its bound.
LEMMA InsertRangeKeeps ==
    ASSUME NEW rs \in Ranges, Separated(rs), NEW start \in Nat, NEW end \in Nat
    PROVE  LET new == InsertRange(rs, start, end) IN
           /\ new \in Ranges
           /\ Separated(new)
           /\ Covered(new) = Covered(rs) \cup (start .. end - 1)
           /\ \A max \in Nat : Len(rs) <= max /\ RangeFits(rs, start, end, max)
                 => Len(new) <= max
<1>0. /\ Len(rs) \in Nat /\ DOMAIN rs = 1 .. Len(rs)
      /\ \A k \in 1 .. Len(rs) : rs[k] \in Nat \X Nat /\ rs[k][1] \in Nat /\ rs[k][2] \in Nat
  BY RangeForm
<1>s. \A k, l \in 1 .. Len(rs) : rs[k][1] < rs[k][2] /\ (k < l => rs[k][2] < rs[l][1])
  BY <1>0 DEF Separated
<1>1. CASE start >= end
  <2>1. InsertRange(rs, start, end) = rs
    BY <1>1 DEF InsertRange
  <2>2. start .. end - 1 = {}
    BY <1>1
  <2> QED
    BY <2>1, <2>2
<1>2. CASE ~(start >= end)
  <2>1. start < end
    BY <1>2
  <2>2. PICK first, to, m : /\ Merges(rs, start, end, first, to, m)
                            /\ InsertRange(rs, start, end) = Splice(rs, first, to, m)
    BY <2>1, InsertRangeMerges
  <2>3. /\ first \in Nat /\ to \in Nat /\ m \in Nat \X Nat
        /\ 1 <= first /\ first <= to + 1 /\ to <= Len(rs)
        /\ m[1] < m[2] /\ m[1] \in Nat /\ m[2] \in Nat
    BY <2>2 DEF Merges
  <2>4. \A i \in 1 .. first - 1 : rs[i][2] < m[1]
    BY <2>2 DEF Merges
  <2>5. \A i \in to + 1 .. Len(rs) : m[2] < rs[i][1]
    BY <2>2 DEF Merges
  <2>6. \A x \in Nat : (m[1] <= x /\ x < m[2]) <=>
          \/ start <= x /\ x < end
          \/ \E i \in first .. to : rs[i][1] <= x /\ x < rs[i][2]
    BY <2>2 DEF Merges
  <2>7. (\E i \in 1 .. Len(rs) : rs[i][1] <= end /\ start <= rs[i][2]) => first <= to
    BY <2>2 DEF Merges
  <2> DEFINE new == Splice(rs, first, to, m)
  <2>8. /\ new \in Seq(Nat \X Nat)
        /\ Len(new) = (Len(rs) + first) - to
        /\ new[first] = m
        /\ \A i \in 1 .. first - 1 : new[i] = rs[i]
        /\ \A i \in first + 1 .. Len(new) : new[i] = rs[(i + to) - first]
    <3> DEFINE S == Nat \X Nat
    <3>1. rs \in Seq(S) /\ m \in S
      BY <2>3 DEF Ranges
    <3> HIDE DEF S
    <3>2. /\ Splice(rs, first, to, m) \in Seq(S)
          /\ Len(Splice(rs, first, to, m)) = (Len(rs) + first) - to
          /\ Splice(rs, first, to, m)[first] = m
          /\ \A i \in 1 .. first - 1 : Splice(rs, first, to, m)[i] = rs[i]
          /\ \A i \in first + 1 .. Len(Splice(rs, first, to, m)) :
                Splice(rs, first, to, m)[i] = rs[(i + to) - first]
      <4>1. first \in Nat /\ to \in Nat /\ 1 <= first /\ first <= to + 1 /\ to <= Len(rs)
        BY <2>3
      <4> QED
        BY <3>1, <4>1, SpliceForm
    <3> QED
      BY <3>2 DEF S
  <2>9. new = InsertRange(rs, start, end)
    BY <2>2
  <2> HIDE DEF new
  <2>10. Len(new) \in Nat /\ first <= Len(new) /\ new \in Ranges
         /\ DOMAIN new = 1 .. Len(new)
    BY <1>0, <2>3, <2>8, RangeForm DEF Ranges
  \* Where the ranges of the new list come from.
  <2>11. ASSUME NEW i \in 1 .. Len(new)
         PROVE  /\ i < first => i \in 1 .. first - 1 /\ i \in 1 .. Len(rs) /\ new[i] = rs[i]
                /\ i = first => new[i] = m
                /\ i > first => /\ (i + to) - first \in to + 1 .. Len(rs)
                                /\ (i + to) - first \in 1 .. Len(rs)
                                /\ new[i] = rs[(i + to) - first]
    <3>1. Len(new) = (Len(rs) + first) - to /\ i \in Nat /\ i <= Len(new) /\ 1 <= i
      BY <2>8, <2>10
    <3>2. i < first => i \in 1 .. first - 1 /\ i \in 1 .. Len(rs)
      BY <1>0, <2>3, <3>1
    <3>3. i > first => /\ (i + to) - first \in to + 1 .. Len(rs)
                       /\ (i + to) - first \in 1 .. Len(rs)
                       /\ i \in first + 1 .. Len(new)
      BY <1>0, <2>3, <2>10, <3>1
    <3> QED
      BY <2>8, <3>2, <3>3
  <2>12. Separated(new)
    <3>1. ASSUME NEW i \in 1 .. Len(new) PROVE new[i][1] < new[i][2]
      <4>1. i \in Nat
        OBVIOUS
      <4>2. CASE i < first
        BY <1>s, <2>11, <4>2
      <4>3. CASE i = first
        BY <2>3, <2>11, <4>3
      <4>4. CASE i > first
        BY <1>s, <2>11, <4>4
      <4> QED
        BY <2>3, <4>1, <4>2, <4>3, <4>4
    <3>2. ASSUME NEW i \in 1 .. Len(new), NEW j \in 1 .. Len(new), i < j
          PROVE  new[i][2] < new[j][1]
      <4>0. i \in Nat /\ j \in Nat
        OBVIOUS
      <4>1. CASE j < first
        <5>1. i < first
          BY <2>3, <3>2, <4>0, <4>1
        <5>2. new[i] = rs[i] /\ new[j] = rs[j] /\ i \in 1 .. Len(rs) /\ j \in 1 .. Len(rs)
          BY <2>11, <4>1, <5>1
        <5> QED
          BY <1>s, <3>2, <5>2
      <4>2. CASE j = first
        <5>1. i < first
          BY <3>2, <4>2
        <5>2. new[i] = rs[i] /\ i \in 1 .. first - 1 /\ new[j] = m
          BY <2>11, <4>2, <5>1
        <5> QED
          BY <2>4, <5>2
      <4>3. CASE j > first
        <5> DEFINE jj == (j + to) - first
        <5>1. new[j] = rs[jj] /\ jj \in to + 1 .. Len(rs) /\ jj \in 1 .. Len(rs)
          BY <2>11, <4>3
        <5>2. CASE i < first
          <6>1. new[i] = rs[i] /\ i \in 1 .. Len(rs)
            BY <2>11, <5>2
          <6>2. i < jj
            BY <2>3, <4>0, <4>3, <5>2
          <6> HIDE DEF jj
          <6> QED
            BY <1>s, <5>1, <6>1, <6>2
        <5>3. CASE i = first
          <6>1. new[i] = m
            BY <2>11, <5>3
          <6> HIDE DEF jj
          <6> QED
            BY <2>5, <5>1, <6>1
        <5>4. CASE i > first
          <6> DEFINE ii == (i + to) - first
          <6>1. new[i] = rs[ii] /\ ii \in 1 .. Len(rs)
            BY <2>11, <5>4
          <6>2. ii < jj
            BY <2>3, <3>2, <4>0
          <6> HIDE DEF ii, jj
          <6> QED
            BY <1>s, <5>1, <6>1, <6>2
        <5> QED
          BY <2>3, <4>0, <5>2, <5>3, <5>4
      <4> QED
        BY <2>3, <4>0, <4>1, <4>2, <4>3
    <3> QED
      BY <2>10, <3>1, <3>2 DEF Separated
  <2>13. ASSUME NEW x \in Nat
         PROVE  x \in Covered(new) <=> x \in Covered(rs) \/ x \in start .. end - 1
    <3>1. x \in start .. end - 1 <=> start <= x /\ x < end
      OBVIOUS
    <3>2. ASSUME NEW i \in 1 .. Len(new), new[i][1] <= x, x < new[i][2]
          PROVE  \/ start <= x /\ x < end
                 \/ \E j \in 1 .. Len(rs) : rs[j][1] <= x /\ x < rs[j][2]
      <4>1. CASE i = first
        <5>1. m[1] <= x /\ x < m[2]
          BY <2>11, <3>2, <4>1
        <5>2. CASE start <= x /\ x < end
          BY <5>2
        <5>3. CASE \E j \in first .. to : rs[j][1] <= x /\ x < rs[j][2]
          <6>1. PICK j \in first .. to : rs[j][1] <= x /\ x < rs[j][2]
            BY <5>3
          <6>2. j \in 1 .. Len(rs)
            BY <1>0, <2>3
          <6> QED
            BY <6>1, <6>2
        <5> QED
          BY <2>6, <5>1, <5>2, <5>3
      <4>2. CASE i < first
        BY <2>11, <3>2, <4>2
      <4>3. CASE i > first
        BY <2>11, <3>2, <4>3
      <4> QED
        BY <2>3, <4>1, <4>2, <4>3
    <3>3. ASSUME m[1] <= x, x < m[2]
          PROVE  \E i \in 1 .. Len(new) : new[i][1] <= x /\ x < new[i][2]
      <4>1. first \in 1 .. Len(new) /\ new[first] = m
        BY <2>3, <2>8, <2>10
      <4> QED
        BY <3>3, <4>1
    <3>4. ASSUME start <= x, x < end
          PROVE  \E i \in 1 .. Len(new) : new[i][1] <= x /\ x < new[i][2]
      <4>1. m[1] <= x /\ x < m[2]
        BY <2>6, <3>4
      <4> QED
        BY <3>3, <4>1
    <3>5. ASSUME NEW j \in 1 .. Len(rs), rs[j][1] <= x, x < rs[j][2]
          PROVE  \E i \in 1 .. Len(new) : new[i][1] <= x /\ x < new[i][2]
      <4>0. j \in Nat /\ j <= Len(rs) /\ 1 <= j
        BY <1>0
      <4>1. CASE j < first
        <5>1. j \in 1 .. first - 1 /\ j \in 1 .. Len(new)
          BY <2>3, <2>10, <4>0, <4>1
        <5>2. new[j] = rs[j]
          BY <2>8, <5>1
        <5> QED
          BY <3>5, <5>1, <5>2
      <4>2. CASE first <= j /\ j <= to
        <5>1. j \in first .. to
          BY <2>3, <4>0, <4>2
        <5>2. m[1] <= x /\ x < m[2]
          BY <2>6, <3>5, <5>1
        <5> QED
          BY <3>3, <5>2
      <4>3. CASE to < j
        <5> DEFINE i == (j + first) - to
        <5>1. i \in first + 1 .. Len(new) /\ i \in 1 .. Len(new) /\ (i + to) - first = j
          <6>1. Len(new) = (Len(rs) + first) - to
            BY <2>8
          <6> QED
            BY <1>0, <2>3, <2>10, <4>0, <4>3, <6>1
        <5> HIDE DEF i
        <5>2. new[i] = rs[j]
          BY <2>8, <5>1
        <5> QED
          BY <3>5, <5>1, <5>2
      <4> QED
        BY <2>3, <4>0, <4>1, <4>2, <4>3
    <3>6. x \in Covered(new) <=> \E i \in 1 .. Len(new) : new[i][1] <= x /\ x < new[i][2]
      BY <2>10, CoveredIs
    <3>7. x \in Covered(rs) <=> \E i \in 1 .. Len(rs) : rs[i][1] <= x /\ x < rs[i][2]
      BY CoveredIs
    <3> QED
      BY <3>1, <3>2, <3>4, <3>5, <3>6, <3>7
  <2>14. Covered(new) = Covered(rs) \cup (start .. end - 1)
    <3>1. Covered(new) \subseteq Nat /\ Covered(rs) \subseteq Nat
      BY <2>10, CoveredIs
    <3>2. start .. end - 1 \subseteq Nat
      OBVIOUS
    <3> QED
      BY <2>13, <3>1, <3>2
  <2>15. ASSUME NEW max \in Nat, Len(rs) <= max, RangeFits(rs, start, end, max)
         PROVE  Len(new) <= max
    <3>1. CASE Len(rs) < max
      <4>1. Len(new) <= Len(rs) + 1
        BY <1>0, <2>3, <2>8
      <4> QED
        BY <1>0, <2>10, <3>1, <4>1
    <3>2. CASE ~(Len(rs) < max)
      <4>1. first <= to
        BY <1>0, <2>7, <2>15, <3>2 DEF RangeFits
      <4>2. Len(new) <= Len(rs)
        BY <1>0, <2>3, <2>8, <4>1
      <4> QED
        BY <1>0, <2>10, <2>15, <4>2
    <3> QED
      BY <3>1, <3>2
  <2> QED
    BY <2>9, <2>10, <2>12, <2>14, <2>15
<1> QED
  BY <1>1, <1>2

----------------------------------------------------------------------------
(* The queue of flows.                                                     *)

\* What an exact queue says, place by place.
LEMMA QueueForm ==
    ASSUME NEW S, NEW q \in Seq(S), NEW L, QueueExact(q, L)
    PROVE  /\ Len(q) \in Nat /\ DOMAIN q = 1 .. Len(q)
           /\ \A i \in 1 .. Len(q) : q[i] \in S /\ q[i] \in L
           /\ \A k \in L : \E i \in 1 .. Len(q) : q[i] = k
           /\ \A i, j \in 1 .. Len(q) : q[i] = q[j] => i = j
           /\ L \subseteq S
BY DEF QueueExact, IsInjective, ToSet

\* The converse: when a queue is exact.
LEMMA IsQueue ==
    ASSUME NEW S, NEW q \in Seq(S), NEW L,
           \A i \in 1 .. Len(q) : q[i] \in L,
           \A k \in L : \E i \in 1 .. Len(q) : q[i] = k,
           \A i, j \in 1 .. Len(q) : q[i] = q[j] => i = j
    PROVE  QueueExact(q, L)
BY DEF QueueExact, IsInjective, ToSet

\* A queue that names every flow once names finitely many.
LEMMA QueueFinite ==
    ASSUME NEW S, NEW q \in Seq(S), NEW L, QueueExact(q, L)
    PROVE  IsFiniteSet(L)
<1>1. /\ Len(q) \in Nat
      /\ \A i \in 1 .. Len(q) : q[i] \in L
      /\ \A k \in L : \E i \in 1 .. Len(q) : q[i] = k
  BY QueueForm
<1> DEFINE f == [i \in 1 .. Len(q) |-> q[i]]
<1>2. f \in Surjection(1 .. Len(q), L)
  BY <1>1 DEF Surjection
<1>3. IsFiniteSet(1 .. Len(q))
  BY <1>1, FS_Interval
<1> HIDE DEF f
<1> QED
  BY <1>2, <1>3, FS_Surjection

\* A new flow goes to the end of the queue.
LEMMA QueueAppend ==
    ASSUME NEW S, NEW q \in Seq(S), NEW L, QueueExact(q, L), NEW k \in S, k \notin L
    PROVE  Append(q, k) \in Seq(S) /\ QueueExact(Append(q, k), L \cup {k})
<1>1. /\ Len(q) \in Nat
      /\ \A i \in 1 .. Len(q) : q[i] \in L
      /\ \A x \in L : \E i \in 1 .. Len(q) : q[i] = x
      /\ \A i, j \in 1 .. Len(q) : q[i] = q[j] => i = j
  BY QueueForm
<1> DEFINE r == Append(q, k)
<1>2. /\ r \in Seq(S) /\ Len(r) = Len(q) + 1
      /\ \A i \in 1 .. Len(q) : r[i] = q[i]
      /\ r[Len(q) + 1] = k
  BY AppendProperties
<1> HIDE DEF r
<1>3. \A i \in 1 .. Len(r) : i = Len(q) + 1 \/ i \in 1 .. Len(q)
  BY <1>1, <1>2
<1>4. \A i \in 1 .. Len(q) : i \in 1 .. Len(r)
  BY <1>1, <1>2
<1>5. Len(q) + 1 \in 1 .. Len(r)
  BY <1>1, <1>2
<1>6. \A i \in 1 .. Len(r) : r[i] \in L \cup {k}
  BY <1>1, <1>2, <1>3
<1>7. \A x \in L \cup {k} : \E i \in 1 .. Len(r) : r[i] = x
  BY <1>1, <1>2, <1>4, <1>5
<1>8. \A i, j \in 1 .. Len(r) : r[i] = r[j] => i = j
  BY <1>1, <1>2, <1>3
<1>9. QueueExact(r, L \cup {k})
  BY <1>2, <1>6, <1>7, <1>8, IsQueue
<1> QED
  BY <1>2, <1>9 DEF r

\* A sequence without one of its places, place by place.
LEMMA RemoveAtForm ==
    ASSUME NEW S, NEW q \in Seq(S), NEW p \in 1 .. Len(q)
    PROVE  LET r == RemoveAt(q, p) IN
           /\ r \in Seq(S) /\ Len(q) \in Nat /\ Len(r) = Len(q) - 1
           /\ \A i \in 1 .. Len(r) :
                LET j == IF i < p THEN i ELSE i + 1
                IN  j \in 1 .. Len(q) /\ j # p /\ r[i] = q[j]
           /\ \A j \in 1 .. Len(q) : j # p =>
                LET i == IF j < p THEN j ELSE j - 1
                IN  i \in 1 .. Len(r) /\ r[i] = q[j]
<1>1. Len(q) \in Nat /\ \A i \in 1 .. Len(q) : q[i] \in S
  BY LenProperties, ElementOfSeq
<1>2. p \in Nat /\ 1 <= p /\ p <= Len(q)
  BY <1>1
<1> DEFINE a == SubSeq(q, 1, p - 1)
           b == SubSeq(q, p + 1, Len(q))
           r == a \o b
<1>3. a \in Seq(S) /\ Len(a) = p - 1 /\ \A i \in 1 .. p - 1 : a[i] = q[i]
  BY <1>1, <1>2
<1>4. b \in Seq(S) /\ Len(b) = Len(q) - p /\ \A i \in 1 .. Len(q) - p : b[i] = q[i + p]
  <2>1. \A i \in p + 1 .. Len(q) : q[i] \in S
    BY <1>1, <1>2
  <2>2. p + 1 \in Int /\ Len(q) \in Int
    BY <1>1, <1>2
  <2>3. /\ b \in Seq(S)
        /\ Len(b) = IF p + 1 <= Len(q) THEN Len(q) - (p + 1) + 1 ELSE 0
        /\ \A i \in 1 .. Len(q) - (p + 1) + 1 : b[i] = q[p + 1 + i - 1]
    BY <2>1, <2>2, SubSeqProperties
  <2> HIDE DEF b
  <2>4. Len(b) = Len(q) - p
    <3>1. Len(b) = IF p + 1 <= Len(q) THEN Len(q) - (p + 1) + 1 ELSE 0
      BY <2>3
    <3> QED
      BY <1>1, <1>2, <3>1
  <2>5. ASSUME NEW i \in 1 .. Len(q) - p PROVE b[i] = q[i + p]
    <3>1. i \in 1 .. Len(q) - (p + 1) + 1 /\ p + 1 + i - 1 = i + p
      BY <1>1, <1>2
    <3> QED
      BY <2>3, <3>1
  <2> QED
    BY <2>3, <2>4, <2>5
<1> HIDE DEF a, b
<1>5. /\ r \in Seq(S) /\ Len(r) = Len(a) + Len(b)
      /\ \A i \in 1 .. Len(a) + Len(b) : r[i] = IF i <= Len(a) THEN a[i] ELSE b[i - Len(a)]
  BY <1>3, <1>4, ConcatProperties
<1> HIDE DEF r
<1>6. Len(r) = Len(q) - 1
  BY <1>1, <1>2, <1>3, <1>4, <1>5
\* The place in q of the i-th element of r.
<1> DEFINE old(i) == IF i < p THEN i ELSE i + 1
<1>7. ASSUME NEW i \in 1 .. Len(r)
      PROVE  old(i) \in 1 .. Len(q) /\ old(i) # p /\ r[i] = q[old(i)]
  <2>1. i \in Nat /\ 1 <= i /\ i <= Len(q) - 1 /\ i \in 1 .. Len(a) + Len(b)
    BY <1>1, <1>3, <1>4, <1>5, <1>6
  <2>2. CASE i < p
    <3>1. i \in 1 .. p - 1 /\ i <= Len(a) /\ i \in 1 .. Len(q)
      BY <1>1, <1>2, <1>3, <2>1, <2>2
    <3>2. r[i] = q[i]
      BY <1>3, <1>5, <2>1, <3>1
    <3> QED
      BY <1>2, <2>1, <2>2, <3>1, <3>2
  <2>3. CASE ~(i < p)
    <3>1. ~(i <= Len(a)) /\ i - Len(a) \in 1 .. Len(q) - p /\ (i - Len(a)) + p = i + 1
          /\ i + 1 \in 1 .. Len(q) /\ i + 1 # p
      BY <1>1, <1>2, <1>3, <2>1, <2>3
    <3>2. r[i] = q[i + 1]
      <4>1. r[i] = b[i - Len(a)]
        BY <1>5, <2>1, <3>1
      <4>2. b[i - Len(a)] = q[(i - Len(a)) + p]
        BY <1>4, <3>1
      <4> QED
        BY <3>1, <4>1, <4>2
    <3> QED
      BY <2>3, <3>1, <3>2
  <2> QED
    BY <2>2, <2>3
<1>8. ASSUME NEW j \in 1 .. Len(q), j # p
      PROVE  LET i == IF j < p THEN j ELSE j - 1
             IN  i \in 1 .. Len(r) /\ r[i] = q[j]
  <2>1. CASE j < p
    <3>1. j \in 1 .. Len(r)
      BY <1>1, <1>2, <1>6, <2>1
    <3> QED
      BY <1>7, <2>1, <3>1
  <2>2. CASE ~(j < p)
    <3>1. j - 1 \in 1 .. Len(r) /\ ~(j - 1 < p) /\ (j - 1) + 1 = j
      BY <1>1, <1>2, <1>6, <1>8, <2>2
    <3>2. r[j - 1] = q[old(j - 1)]
      BY <1>7, <3>1
    <3> QED
      BY <2>2, <3>1, <3>2
  <2> QED
    BY <2>1, <2>2
<1>9. RemoveAt(q, p) = r
  BY DEF RemoveAt, r, a, b
<1> QED
  BY <1>1, <1>5, <1>6, <1>7, <1>8, <1>9

\* A queue without one of its places.
LEMMA QueueWithout ==
    ASSUME NEW S, NEW q \in Seq(S), NEW L, QueueExact(q, L), NEW p \in 1 .. Len(q)
    PROVE  RemoveAt(q, p) \in Seq(S) /\ QueueExact(RemoveAt(q, p), L \ {q[p]})
<1>1. /\ Len(q) \in Nat
      /\ \A i \in 1 .. Len(q) : q[i] \in L /\ q[i] \in S
      /\ \A x \in L : \E i \in 1 .. Len(q) : q[i] = x
      /\ \A i, j \in 1 .. Len(q) : q[i] = q[j] => i = j
  BY QueueForm
<1> DEFINE r == RemoveAt(q, p)
           old(i) == IF i < p THEN i ELSE i + 1
           new(j) == IF j < p THEN j ELSE j - 1
<1>2. /\ r \in Seq(S) /\ Len(r) = Len(q) - 1
      /\ \A i \in 1 .. Len(r) : old(i) \in 1 .. Len(q) /\ old(i) # p /\ r[i] = q[old(i)]
      /\ \A j \in 1 .. Len(q) : j # p => new(j) \in 1 .. Len(r) /\ r[new(j)] = q[j]
  BY RemoveAtForm
<1>3. \A i, j \in 1 .. Len(r) : old(i) = old(j) => i = j
  BY <1>1
<1> HIDE DEF r, old, new
<1> DEFINE M == L \ {q[p]}
<1>4. \A i \in 1 .. Len(r) : r[i] \in M
  BY <1>1, <1>2
<1>5. \A x \in M : \E i \in 1 .. Len(r) : r[i] = x
  <2> TAKE x \in M
  <2>1. PICK j \in 1 .. Len(q) : q[j] = x
    BY <1>1
  <2> QED
    BY <1>2, <2>1
<1>6. \A i, j \in 1 .. Len(r) : r[i] = r[j] => i = j
  <2> SUFFICES ASSUME NEW i \in 1 .. Len(r), NEW j \in 1 .. Len(r), r[i] = r[j]
               PROVE  i = j
    OBVIOUS
  <2>1. old(i) \in 1 .. Len(q) /\ old(j) \in 1 .. Len(q) /\ q[old(i)] = q[old(j)]
    BY <1>2
  <2>2. old(i) = old(j)
    BY <1>1, <2>1
  <2> QED
    BY <1>3, <2>2
<1> HIDE DEF M
<1>7. QueueExact(r, M)
  BY <1>2, <1>4, <1>5, <1>6, IsQueue
<1> QED
  BY <1>2, <1>7 DEF r, M

\* remove_flow takes a flow's only place out of the queue.
LEMMA QueueRemove ==
    ASSUME NEW S, NEW q \in Seq(S), NEW L, QueueExact(q, L), NEW k \in L
    PROVE  RemoveFirst(q, k) \in Seq(S) /\ QueueExact(RemoveFirst(q, k), L \ {k})
<1>1. /\ Len(q) \in Nat /\ DOMAIN q = 1 .. Len(q)
      /\ \A x \in L : \E i \in 1 .. Len(q) : q[i] = x
      /\ \A i, j \in 1 .. Len(q) : q[i] = q[j] => i = j
  BY QueueForm
<1>2. PICK p \in 1 .. Len(q) : q[p] = k
  BY <1>1
<1>3. SelectInSeq(q, LAMBDA v : v = k) = p
  <2> DEFINE I == {i \in 1 .. Len(q) : q[i] = k}
  <2>1. I = {p}
    BY <1>1, <1>2
  <2>2. Min(I) = p
    <3>1. \A x \in I : x = p
      BY <2>1
    <3>2. p \in I /\ p <= p
      BY <2>1
    <3> HIDE DEF I
    <3> QED
      BY <3>1, <3>2 DEF Min
  <2> QED
    BY <2>1, <2>2 DEF SelectInSeq
<1>4. RemoveFirst(q, k) = RemoveAt(q, p)
  BY <1>2, <1>3 DEF RemoveFirst
<1>5. RemoveAt(q, p) \in Seq(S) /\ QueueExact(RemoveAt(q, p), L \ {q[p]})
  BY <1>2, QueueWithout
<1> QED
  BY <1>2, <1>4, <1>5

\* Eviction takes the flow at the head of the queue and its place.
LEMMA QueueEvict ==
    ASSUME NEW S, NEW q \in Seq(S), NEW L, QueueExact(q, L), L # {}
    PROVE  \E k \in L : /\ EvictVictim(q, L) = {k}
                        /\ EvictQueue(q, L) \in Seq(S)
                        /\ QueueExact(EvictQueue(q, L), L \ {k})
<1>1. /\ Len(q) \in Nat /\ DOMAIN q = 1 .. Len(q)
      /\ \A i \in 1 .. Len(q) : q[i] \in L
      /\ \A x \in L : \E i \in 1 .. Len(q) : q[i] = x
  BY QueueForm
<1>2. Len(q) >= 1
  BY <1>1
<1> DEFINE on == {i \in DOMAIN q : q[i] \in L}
<1>3. on = 1 .. Len(q) /\ on # {}
  BY <1>1, <1>2
<1>4. 1 \in on /\ \A k \in on : 1 <= k
  BY <1>2, <1>3
<1>5. \A j \in on : (\A k \in on : j <= k) => j = 1
  BY <1>1, <1>3, <1>4
<1>6. EvictVictim(q, L) = {q[1]}
  <2>1. {j \in on : \A k \in on : j <= k} = {1}
    BY <1>4, <1>5
  <2>2. EvictVictim(q, L) = {q[i] : i \in {j \in on : \A k \in on : j <= k}}
    BY DEF EvictVictim
  <2> HIDE DEF on
  <2> QED
    BY <2>1, <2>2
<1>7. EvictQueue(q, L) = SubSeq(q, 2, Len(q))
  <2>1. (CHOOSE j \in on : \A k \in on : j <= k) = 1
    <3> HIDE DEF on
    <3> QED
      BY <1>4, <1>5
  <2>2. EvictQueue(q, L) = IF on = {} THEN <<>>
           ELSE SubSeq(q, (CHOOSE j \in on : \A k \in on : j <= k) + 1, Len(q))
    BY DEF EvictQueue
  <2> DEFINE c == CHOOSE j \in on : \A k \in on : j <= k
  <2>3. on # {} /\ c = 1 /\ EvictQueue(q, L) = IF on = {} THEN <<>> ELSE SubSeq(q, c + 1, Len(q))
    BY <1>3, <2>1, <2>2
  <2> HIDE DEF on, c
  <2>4. c + 1 = 2
    BY <2>3
  <2> QED
    BY <2>3, <2>4
<1>8. SubSeq(q, 2, Len(q)) = RemoveAt(q, 1)
  <2>1. SubSeq(q, 1, 0) = <<>>
    BY SubSeqEmpty
  <2>2. SubSeq(q, 2, Len(q)) \in Seq(S)
    <3>1. \A i \in 2 .. Len(q) : q[i] \in S
      BY <1>1
    <3> QED
      BY <1>1, <3>1, SubSeqProperties
  <2>3. <<>> \o SubSeq(q, 2, Len(q)) = SubSeq(q, 2, Len(q))
    BY <2>2, ConcatEmptySeq
  <2>4. 1 - 1 = 0 /\ 1 + 1 = 2
    OBVIOUS
  <2> QED
    BY <2>1, <2>3, <2>4 DEF RemoveAt
<1>9. 1 \in 1 .. Len(q) /\ q[1] \in L
  BY <1>1, <1>2
<1>10. RemoveAt(q, 1) \in Seq(S) /\ QueueExact(RemoveAt(q, 1), L \ {q[1]})
  BY <1>9, QueueWithout
<1> QED
  BY <1>6, <1>7, <1>8, <1>9, <1>10

\* The queue of no flows.
LEMMA QueueEmpty ==
    ASSUME NEW S
    PROVE  <<>> \in Seq(S) /\ QueueExact(<<>>, {})
<1>1. <<>> \in Seq(S)
  OBVIOUS
<1>2. DOMAIN <<>> = {}
  OBVIOUS
<1> QED
  BY <1>1, <1>2 DEF QueueExact, IsInjective, ToSet

\* The head of a queue leaves it.
LEMMA QueueTail ==
    ASSUME NEW S, NEW q \in Seq(S), NEW L, QueueExact(q, L), q # <<>>
    PROVE  /\ Head(q) \in L /\ Tail(q) \in Seq(S)
           /\ QueueExact(Tail(q), L \ {Head(q)})
<1>1. 1 \in 1 .. Len(q) /\ Head(q) = q[1] /\ q[1] \in L
  BY EmptySeq, QueueForm, HeadTailProperties
<1>2. RemoveAt(q, 1) \in Seq(S) /\ QueueExact(RemoveAt(q, 1), L \ {q[1]})
  BY <1>1, QueueWithout
<1>3. RemoveAt(q, 1) = Tail(q)
  <2>1. Tail(q) = SubSeq(q, 2, Len(q)) /\ Tail(q) \in Seq(S)
    BY TailIsSubSeq, HeadTailProperties
  <2>2. SubSeq(q, 1, 0) = <<>>
    BY SubSeqEmpty
  <2>3. <<>> \o Tail(q) = Tail(q)
    BY <2>1, ConcatEmptySeq
  <2>4. 1 - 1 = 0 /\ 1 + 1 = 2
    OBVIOUS
  <2> QED
    BY <2>1, <2>2, <2>3, <2>4 DEF RemoveAt
<1> QED
  BY <1>1, <1>2, <1>3

----------------------------------------------------------------------------
(* Numbers, finite sets and consecutive numbers.                          *)

\* Finitely many finite sets have finitely many elements.
LEMMA FiniteFamily ==
    ASSUME NEW I, IsFiniteSet(I), NEW f, \A i \in I : IsFiniteSet(f[i])
    PROVE  IsFiniteSet(UNION {f[i] : i \in I})
<1> DEFINE T == {f[i] : i \in I}
           g == [i \in I |-> f[i]]
<1>1. g \in Surjection(I, T)
  BY DEF Surjection
<1>2. \A t \in T : IsFiniteSet(t)
  OBVIOUS
<1> HIDE DEF T, g
<1>3. IsFiniteSet(T)
  BY <1>1, FS_Surjection
<1>4. IsFiniteSet(UNION T)
  BY <1>2, <1>3, FS_UNION
<1> QED
  BY <1>4 DEF T

\* A tagged set has as many elements as the set.
LEMMA TaggedCardinality ==
    ASSUME NEW w, NEW P, IsFiniteSet(P)
    PROVE  IsFiniteSet({w} \X P) /\ Cardinality({w} \X P) = Cardinality(P)
<1>1. IsFiniteSet({w}) /\ Cardinality({w}) = 1
  BY FS_Singleton
<1>2. IsFiniteSet({w} \X P) /\ Cardinality({w} \X P) = Cardinality({w}) * Cardinality(P)
  BY <1>1, FS_Product
<1>3. Cardinality(P) \in Nat
  BY FS_CardinalityType
<1> QED
  BY <1>1, <1>2, <1>3

\* The remainder of a number near the modulus.
LEMMA ModSmall == ASSUME NEW m \in Nat \ {0}, NEW x \in 0 .. m - 1 PROVE (x % m) = x
OBVIOUS

LEMMA ModOver == ASSUME NEW m \in Nat \ {0}, NEW x \in m .. 2 * m - 1 PROVE (x % m) = x - m
OBVIOUS

LEMMA ModUnder == ASSUME NEW m \in Nat \ {0}, NEW x \in (-m) .. -1 PROVE (x % m) = x + m
OBVIOUS

\* A number is its quotient and its remainder.
LEMMA DivForm ==
    ASSUME NEW b \in Nat \ {0}, NEW x \in Nat
    PROVE  x \div b \in Nat /\ (x % b) \in 0 .. b - 1 /\ x = b * (x \div b) + (x % b)
OBVIOUS

\* Products with a fixed factor.
LEMMA TimesMono ==
    ASSUME NEW b \in Nat, NEW x \in Int, NEW y \in Int, x <= y
    PROVE  b * x <= b * y
OBVIOUS

LEMMA TimesLess ==
    ASSUME NEW b \in Int, NEW x \in Int
    PROVE  b * (x - 1) = b * x - b /\ b * (x + 1) = b * x + b
OBVIOUS

\* The quotient of a number below a multiple.
LEMMA DivBound ==
    ASSUME NEW b \in Nat \ {0}, NEW x \in Nat, NEW n \in Nat, x < b * n
    PROVE  x \div b \in 0 .. n - 1
<1> DEFINE q == x \div b
           r == x % b
<1>1. q \in Nat /\ r \in 0 .. b - 1 /\ x = b * q + r
  BY DivForm
<1> HIDE DEF q, r
<1>2. SUFFICES ASSUME n <= q PROVE FALSE
  BY <1>1 DEF q
<1>3. b * n <= b * q
  BY <1>1, <1>2, TimesMono
<1>4. b * n \in Int /\ b * q \in Int
  BY <1>1
<1> DEFINE bn == b * n
           bq == b * q
<1>5. bn <= bq /\ x < bn /\ x = bq + r /\ bn \in Int /\ bq \in Int
  BY <1>1, <1>3, <1>4
<1> HIDE DEF bn, bq
<1> QED
  BY <1>1, <1>5

\* Min is the least element that a set of numbers has.
LEMMA MinIs ==
    ASSUME NEW T, T \subseteq Nat, T # {}
    PROVE  Min(T) \in T /\ \A y \in T : Min(T) <= y
<1>1. \E x \in T : \A y \in T : x <= y
  <2>1. PICK x \in T : \A y \in T : ~(y < x)
    BY LeastNumber
  <2>2. \A y \in T : x <= y
    BY <2>1
  <2> QED
    BY <2>2
<1> QED
  BY <1>1 DEF Min





\* An element put in, as a splice.
LEMMA InsertAtForm ==
    ASSUME NEW S, NEW s \in Seq(S), NEW g \in S, NEW i \in 1 .. Len(s) + 1
    PROVE  LET r == InsertAt(s, i, g) IN
           /\ r \in Seq(S) /\ Len(r) = Len(s) + 1 /\ r[i] = g
           /\ \A n \in 1 .. i - 1 : r[n] = s[n]
           /\ \A n \in i + 1 .. Len(s) + 1 : r[n] = s[n - 1]
<1> DEFINE N == Len(s)
           to == i - 1
           q == Splice(s, i, to, g)
<1>1. N \in Nat /\ i \in Nat /\ 1 <= i /\ i <= N + 1
  BY LenProperties
<1>2. to \in Nat /\ i <= to + 1 /\ to <= Len(s) /\ to + 1 = i
  BY <1>1
<1>3. q = InsertAt(s, i, g)
  BY <1>2 DEF Splice, InsertAt
<1> HIDE DEF to
<1>4. /\ q \in Seq(S) /\ Len(q) = (Len(s) + i) - to /\ q[i] = g
      /\ \A n \in 1 .. i - 1 : q[n] = s[n]
      /\ \A n \in i + 1 .. Len(q) : q[n] = s[(n + to) - i]
  BY <1>1, <1>2, SpliceForm
<1> HIDE DEF q
<1>5. Len(q) = N + 1
  <2>1. Len(q) = (N + i) - to
    BY <1>4
  <2>2. (N + i) - to = N + 1
    <3> HIDE DEF N
    <3> QED
      BY <1>1, <1>2
  <2> QED
    BY <2>1, <2>2
<1>6. ASSUME NEW n \in i + 1 .. N + 1 PROVE q[n] = s[n - 1]
  <2>1. (n + to) - i = n - 1
    BY <1>1, <1>2
  <2> QED
    BY <1>4, <1>5, <2>1
<1> QED
  BY <1>3, <1>4, <1>5, <1>6

\* A queue is as long as the set it lists.
LEMMA QueueLength ==
    ASSUME NEW S, NEW q \in Seq(S), NEW L, QueueExact(q, L)
    PROVE  Len(q) = Cardinality(L) /\ Len(q) \in Nat /\ IsFiniteSet(L)
<1>1. /\ Len(q) \in Nat /\ DOMAIN q = 1 .. Len(q)
      /\ \A i \in 1 .. Len(q) : q[i] \in L
      /\ \A x \in L : \E i \in 1 .. Len(q) : q[i] = x
      /\ \A i, j \in 1 .. Len(q) : q[i] = q[j] => i = j
  BY QueueForm
<1> DEFINE N == Len(q)
           g == [i \in 1 .. N |-> q[i]]
<1>2. g \in Bijection(1 .. N, L)
  BY <1>1 DEF Bijection, Injection, Surjection, IsInjective
<1>3. IsFiniteSet(1 .. N) /\ Cardinality(1 .. N) = N
  BY <1>1, FS_Interval
<1> HIDE DEF g, N
<1>4. ExistsBijection(1 .. N, L)
  BY <1>2 DEF ExistsBijection
<1>5. IsFiniteSet(L) /\ Cardinality(1 .. N) = Cardinality(L)
  BY <1>3, <1>4, FS_Bijection
<1> QED
  BY <1>1, <1>3, <1>5 DEF N

\* A sequence of consecutive numbers.
Consecutive(s, a) == \A i \in 1 .. Len(s) : s[i] = a + i - 1

\* Consecutive numbers, of two sequences one after the other.
LEMMA ConsecutiveParts ==
    ASSUME NEW S, NEW a \in Seq(S), NEW b \in Seq(S), NEW x \in Nat
    PROVE  Consecutive(a \o b, x) <=> Consecutive(a, x) /\ Consecutive(b, x + Len(a))
<1> DEFINE c == a \o b
           m == Len(a)
           n == Len(b)
<1>1. /\ m \in Nat /\ n \in Nat /\ Len(c) = m + n
      /\ \A i \in 1 .. m + n : c[i] = IF i <= m THEN a[i] ELSE b[i - m]
  BY ConcatProperties, LenProperties
<1> HIDE DEF c, m, n
<1>2. ASSUME Consecutive(c, x) PROVE Consecutive(a, x) /\ Consecutive(b, x + m)
  <2>1. ASSUME NEW i \in 1 .. m PROVE a[i] = x + i - 1
    <3>1. i \in 1 .. m + n /\ i <= m
      BY <1>1
    <3> QED
      BY <1>1, <1>2, <3>1 DEF Consecutive
  <2>2. ASSUME NEW i \in 1 .. n PROVE b[i] = (x + m) + i - 1
    <3>1. m + i \in 1 .. m + n /\ ~(m + i <= m) /\ (m + i) - m = i
      BY <1>1
    <3>2. c[m + i] = x + (m + i) - 1
      BY <1>1, <1>2, <3>1 DEF Consecutive
    <3>3. c[m + i] = b[i]
      BY <1>1, <3>1
    <3> QED
      BY <1>1, <3>2, <3>3
  <2> QED
    BY <2>1, <2>2 DEF Consecutive, m, n
<1>3. ASSUME Consecutive(a, x), Consecutive(b, x + m) PROVE Consecutive(c, x)
  <2>1. ASSUME NEW i \in 1 .. m + n PROVE c[i] = x + i - 1
    <3>1. CASE i <= m
      <4>1. a[i] = x + i - 1
        BY <1>1, <1>3, <3>1 DEF Consecutive, m
      <4> QED
        BY <1>1, <3>1, <4>1
    <3>2. CASE ~(i <= m)
      <4>1. i - m \in 1 .. n
        BY <1>1, <3>2
      <4>2. b[i - m] = (x + m) + (i - m) - 1
        BY <1>3, <4>1 DEF Consecutive, n
      <4>3. c[i] = b[i - m]
        BY <1>1, <3>2
      <4> QED
        BY <1>1, <4>2, <4>3
    <3> QED
      BY <3>1, <3>2
  <2> QED
    BY <1>1, <2>1 DEF Consecutive
<1> QED
  BY <1>2, <1>3 DEF c, m

\* What two halves of a byte sequence are together.
LEMMA Halves ==
    ASSUME NEW S, NEW c \in Seq(S), NEW a \in Seq(S), NEW b \in Seq(S), NEW x \in Nat,
           Len(a) + Len(b) = Len(c), \A i \in 1 .. Len(a) : a[i] = c[i],
           \A i \in 1 .. Len(b) : b[i] = c[Len(a) + i], Consecutive(c, x)
    PROVE  Consecutive(a, x) /\ Consecutive(b, x + Len(a))
<1>1. Len(a) \in Nat /\ Len(b) \in Nat /\ Len(c) \in Nat
  BY LenProperties
<1>2. ASSUME NEW i \in 1 .. Len(a) PROVE a[i] = x + i - 1
  BY <1>1 DEF Consecutive
<1>3. ASSUME NEW i \in 1 .. Len(b) PROVE b[i] = (x + Len(a)) + i - 1
  <2>1. Len(a) + i \in 1 .. Len(c)
    BY <1>1
  <2>2. c[Len(a) + i] = x + (Len(a) + i) - 1
    BY <2>1 DEF Consecutive
  <2> QED
    BY <1>1, <2>2
<1> QED
  BY <1>2, <1>3 DEF Consecutive
=============================================================================
