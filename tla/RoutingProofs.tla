---------------------------- MODULE RoutingProofs ----------------------------
(***************************************************************************)
(* What route() does with the tuples that traffic_out hands to it, for     *)
(* every dimension and word size: those it has just injected, which are    *)
(* due in 2 * overlay_dimension + 2 rounds, and those received whose round *)
(* of delivery is over.                                                    *)
(*                                                                         *)
(* The argument: no such tuple has a hop index in range, and route()       *)
(* computes the index of no other tuple: sorting, the cancellation scan    *)
(* with its overwritten entry, and the selection of those that are kept    *)
(* return tuples of their input only.                                      *)
(*                                                                         *)
(* The second part says which buckets the scan cancels, for all tuples and *)
(* without regard to hop indices, and what the overwritten entry costs.    *)
(***************************************************************************)
EXTENDS RoutingScheme, DataLemmas

\* The tuples of RoutingInput (module ClientEnclave) in round l
Fresh(s, l) == s.l_dst = l + calculate_routing_time(Dimension)
Overdue(s, l) == s.l_dst \in Nat /\ s.l_dst < l

\* The index of a fresh tuple is -1, which wraps to the largest word.
LEMMA FreshIndex ==
  ASSUME NEW s, NEW l \in Nat, Fresh(s, l), l + 2 * Dimension + 2 < Word
  PROVE  HopIndex(s, l) = Word - 1
<1>1. WSub(s.l_dst, l) = 2 * Dimension + 2
  BY DimensionAssumption, TimingAssumption DEF Fresh, WSub, calculate_routing_time
<1>2. WSub(1 + 2 * Dimension, 2 * Dimension + 2) = Word - 1
  BY DimensionAssumption, TimingAssumption DEF WSub
<1> QED
  BY <1>1, <1>2 DEF HopIndex

\* An overdue tuple has one hop more to its credit for every round it is late.
LEMMA OverdueIndex ==
  ASSUME NEW s, NEW l \in Nat, Overdue(s, l), l + 2 * Dimension + 2 < Word
  PROVE  HopIndex(s, l) = (2 * Dimension + 1) + (l - s.l_dst)
<1>1. WSub(s.l_dst, l) = Word - (l - s.l_dst)
  BY TimingAssumption DEF Overdue, WSub
<1>2. ~(Word - (l - s.l_dst) <= 1 + 2 * Dimension)
  BY DimensionAssumption, TimingAssumption DEF Overdue
<1>3. WSub(1 + 2 * Dimension, Word - (l - s.l_dst)) = (2 * Dimension + 1) + (l - s.l_dst)
  BY <1>2, DimensionAssumption, TimingAssumption DEF WSub, Overdue
<1> QED
  BY <1>1, <1>3 DEF HopIndex

(* No tuple that reaches the loop of route() passes both of its asserts:   *)
(* there is no round in which a message is routed                          *)
(* (client_enclave.cpp:336, 352-356, routing_scheme.cpp:22-25).            *)
THEOREM NoHopInRange ==
  \A l \in Nat : l + 2 * Dimension + 2 < Word =>
    \A s : Fresh(s, l) \/ Overdue(s, l) => ~HopInRange(s, l)
<1> SUFFICES ASSUME NEW l \in Nat, l + 2 * Dimension + 2 < Word,
                    NEW s, Fresh(s, l) \/ Overdue(s, l)
             PROVE  ~HopInRange(s, l)
  OBVIOUS
<1>1. CASE Fresh(s, l)
  <2>1. HopIndex(s, l) = Word - 1
    BY <1>1, FreshIndex
  <2> QED
    BY <2>1, DimensionAssumption, TimingAssumption DEF HopInRange
<1>2. CASE Overdue(s, l)
  <2>1. HopIndex(s, l) = (2 * Dimension + 1) + (l - s.l_dst)
    BY <1>2, OverdueIndex
  <2>2. l - s.l_dst \in Nat \ {0}
    BY <1>2 DEF Overdue
  <2> QED
    BY <2>1, <2>2, DimensionAssumption DEF HopInRange
<1> QED
  BY <1>1, <1>2

-----------------------------------------------------------------------------
(* The tuples route() visits are tuples it is handed.  They are sorted by  *)
(* keys that are naturals, so that each position of the sorted vector is   *)
(* held by one of them.                                                    *)

\* The parts of a tuple's key are naturals.
Sortable(s) ==
  /\ s.onid_dst \in Nat /\ Rank(s.bucket_dst) \in Nat /\ s.l_dst \in Nat
  /\ s.onid_current \in Nat /\ s.m.t_dst \in Nat

\* The order of tuples compares their keys field by field.
LEMMA PrecedesByKey ==
  ASSUME NEW a, NEW b
  PROVE  LET x == SortKey(a)
             y == SortKey(b)
         IN  Precedes(a, b) <=>
               \/ x[1] < y[1]
               \/ x[1] = y[1] /\ x[2] < y[2]
               \/ x[1] = y[1] /\ x[2] = y[2] /\ x[3] < y[3]
               \/ x[1] = y[1] /\ x[2] = y[2] /\ x[3] = y[3] /\ x[4] < y[4]
               \/ x[1] = y[1] /\ x[2] = y[2] /\ x[3] = y[3] /\ x[4] = y[4] /\ x[5] < y[5]
<1> DEFINE x == SortKey(a)
           y == SortKey(b)
           Same(n) == \A j \in 1 .. (n - 1) : x[j] = y[j]
<1>1. Precedes(a, b) <=> \E i \in 1 .. 5 : x[i] < y[i] /\ Same(i)
  BY DEF Precedes
<1> HIDE DEF x, y
<1>2. /\ Same(1)
      /\ Same(2) <=> x[1] = y[1]
      /\ Same(3) <=> x[1] = y[1] /\ x[2] = y[2]
      /\ Same(4) <=> x[1] = y[1] /\ x[2] = y[2] /\ x[3] = y[3]
      /\ Same(5) <=> x[1] = y[1] /\ x[2] = y[2] /\ x[3] = y[3] /\ x[4] = y[4]
  <2>1. \A j : /\ j \in 1 .. 0 => FALSE
               /\ j \in 1 .. 1 <=> j = 1
               /\ j \in 1 .. 2 <=> j = 1 \/ j = 2
               /\ j \in 1 .. 3 <=> j = 1 \/ j = 2 \/ j = 3
               /\ j \in 1 .. 4 <=> j = 1 \/ j = 2 \/ j = 3 \/ j = 4
    OBVIOUS
  <2> QED
    BY <2>1
<1>3. \A i : i \in 1 .. 5 <=> i = 1 \/ i = 2 \/ i = 3 \/ i = 4 \/ i = 5
  OBVIOUS
<1> DEFINE Decides(i) == x[i] < y[i] /\ Same(i)
<1> HIDE DEF Decides
<1>4. (\E i \in 1 .. 5 : Decides(i)) <=>
        Decides(1) \/ Decides(2) \/ Decides(3) \/ Decides(4) \/ Decides(5)
  BY <1>3
<1>5. Precedes(a, b) <=> \E i \in 1 .. 5 : Decides(i)
  BY <1>1 DEF Decides
<1> HIDE DEF Same
<1> QED
  BY <1>2, <1>4, <1>5 DEF Decides, x, y

\* The order of the code is one of keys, and strict.
LEMMA PrecedesIsOrder ==
  ASSUME NEW a, NEW b, NEW c, Sortable(a), Sortable(b), Sortable(c)
  PROVE  /\ ~Precedes(a, a)
         /\ Precedes(a, b) => ~Precedes(b, a)
         /\ Precedes(a, b) /\ Precedes(b, c) => Precedes(a, c)
         /\ Precedes(a, b) /\ ~Precedes(c, b) => Precedes(a, c)
         /\ ~Precedes(b, a) /\ Precedes(b, c) => Precedes(a, c)
         /\ ~Precedes(b, a) /\ ~Precedes(c, b) => ~Precedes(c, a)
<1> DEFINE x == SortKey(a)
           y == SortKey(b)
           z == SortKey(c)
<1>1. /\ x[1] \in Nat /\ x[2] \in Nat /\ x[3] \in Nat /\ x[4] \in Nat /\ x[5] \in Nat
      /\ y[1] \in Nat /\ y[2] \in Nat /\ y[3] \in Nat /\ y[4] \in Nat /\ y[5] \in Nat
      /\ z[1] \in Nat /\ z[2] \in Nat /\ z[3] \in Nat /\ z[4] \in Nat /\ z[5] \in Nat
  BY DEF Sortable, SortKey
<1> DEFINE L(u, v) ==
             \/ u[1] < v[1]
             \/ u[1] = v[1] /\ u[2] < v[2]
             \/ u[1] = v[1] /\ u[2] = v[2] /\ u[3] < v[3]
             \/ u[1] = v[1] /\ u[2] = v[2] /\ u[3] = v[3] /\ u[4] < v[4]
             \/ u[1] = v[1] /\ u[2] = v[2] /\ u[3] = v[3] /\ u[4] = v[4] /\ u[5] < v[5]
<1>2. /\ Precedes(a, a) <=> L(x, x)
      /\ Precedes(a, b) <=> L(x, y)
      /\ Precedes(b, a) <=> L(y, x)
      /\ Precedes(b, c) <=> L(y, z)
      /\ Precedes(c, b) <=> L(z, y)
      /\ Precedes(a, c) <=> L(x, z)
      /\ Precedes(c, a) <=> L(z, x)
  BY PrecedesByKey, Zenon
<1> HIDE DEF x, y, z
<1>3. /\ ~L(x, x)
      /\ L(x, y) => ~L(y, x)
      /\ L(x, y) /\ L(y, z) => L(x, z)
  BY <1>1
<1>4. /\ L(x, y) /\ ~L(z, y) => L(x, z)
      /\ ~L(y, x) /\ L(y, z) => L(x, z)
      /\ ~L(y, x) /\ ~L(z, y) => ~L(z, x)
  BY <1>1
<1> HIDE DEF L
<1> QED
  BY <1>2, <1>3, <1>4

\* Before orders the places of a vector, equivalent tuples by their place.
LEMMA BeforeIsOrder ==
  ASSUME NEW E, NEW set_s \in Seq(E), \A s \in E : Sortable(s)
  PROVE  LET D == DOMAIN set_s
         IN  StrictTotalOrder(D, {p \in D \X D : Before(set_s, p[1], p[2])})
<1> DEFINE D == DOMAIN set_s
           R == {p \in D \X D : Before(set_s, p[1], p[2])}
<1>1. \A i, j \in D : <<i, j>> \in R <=> Before(set_s, i, j)
  OBVIOUS
<1>2. \A i \in D : i \in Nat /\ Sortable(set_s[i])
  OBVIOUS
<1> HIDE DEF R, D
<1>3. ASSUME NEW i \in D
      PROVE  ~Before(set_s, i, i)
  BY <1>2, PrecedesIsOrder DEF Before
<1>4. ASSUME NEW i \in D, NEW j \in D, NEW k \in D, Before(set_s, i, j), Before(set_s, j, k)
      PROVE  Before(set_s, i, k)
  <2> DEFINE P(m, n) == Precedes(set_s[m], set_s[n])
  <2>1. /\ P(i, j) /\ P(j, k) => P(i, k)
        /\ P(i, j) /\ ~P(k, j) => P(i, k)
        /\ ~P(j, i) /\ P(j, k) => P(i, k)
        /\ ~P(j, i) /\ ~P(k, j) => ~P(k, i)
    BY <1>2, PrecedesIsOrder, Zenon
  <2>2. /\ P(i, j) \/ (~P(j, i) /\ i < j)
        /\ P(j, k) \/ (~P(k, j) /\ j < k)
    BY <1>4 DEF Before
  <2>3. i < j /\ j < k => i < k
    BY <1>2
  <2>4. P(i, k) \/ (~P(k, i) /\ i < k)
    <3> HIDE DEF P
    <3> QED
      BY <2>1, <2>2, <2>3
  <2> QED
    BY <2>4 DEF Before
<1>5. ASSUME NEW i \in D, NEW j \in D, i # j
      PROVE  Before(set_s, i, j) \/ Before(set_s, j, i)
  <2>1. i < j \/ j < i
    BY <1>2, <1>5
  <2> QED
    BY <2>1 DEF Before
<1> QED
  BY <1>1, <1>3, <1>4, <1>5 DEF StrictTotalOrder, R, D

\* A permutation of the places that sorts the vector
SortedBy(p, set_s) ==
  LET n == Len(set_s) IN
  /\ p \in [1 .. n -> 1 .. n]
  /\ \A k, l \in 1 .. n : p[k] = p[l] => k = l
  /\ \A i \in 1 .. n : \E k \in 1 .. n : p[k] = i
  /\ Sorted(set_s) = [k \in 1 .. n |-> set_s[p[k]]]
  /\ \A k, l \in 1 .. n : k < l => ~Precedes(set_s[p[l]], set_s[p[k]])

\* Sorting permutes the tuples, and puts none before one that precedes it.
LEMMA SortedOrder ==
  ASSUME NEW E, NEW set_s \in Seq(E), \A s \in E : Sortable(s)
  PROVE  \E p : SortedBy(p, set_s)
<1> DEFINE D == DOMAIN set_s
           n == Len(set_s)
           R == {q \in D \X D : Before(set_s, q[1], q[2])}
           rank(i) == Cardinality(Less(D, R, i))
           chosen(k) == CHOOSE i \in D : Cardinality({j \in D : Before(set_s, j, i)}) = k - 1
           p == [k \in 1 .. n |-> chosen(k)]
<1>1. D = 1 .. n /\ n \in Nat /\ \A i \in D : set_s[i] \in E /\ Sortable(set_s[i])
  OBVIOUS
<1>2. IsFiniteSet(D) /\ Cardinality(D) = n
  <2> HIDE DEF D, n, R, rank, chosen, p
  <2>1. IsFiniteSet(1 .. n) /\ Cardinality(1 .. n) = n
    BY <1>1, FS_Interval
  <2> QED
    BY <1>1, <2>1
<1>3. StrictTotalOrder(D, R)
  BY BeforeIsOrder
<1>4. \A i \in D : Less(D, R, i) = {j \in D : Before(set_s, j, i)}
  BY DEF Less
<1>5. Sorted(set_s) = [k \in 1 .. n |-> set_s[chosen(k)]]
  BY DEF Sorted
<1>6. \A i, j \in D : <<i, j>> \in R => ~Precedes(set_s[j], set_s[i])
  <2>1. \A i, j \in D : Precedes(set_s[i], set_s[j]) => ~Precedes(set_s[j], set_s[i])
    BY <1>1, PrecedesIsOrder, Zenon
  <2> QED
    BY <2>1 DEF Before
<1> HIDE DEF D, n, R
<1>7. /\ \A k \in 1 .. n : \E i \in D : rank(i) = k - 1
      /\ \A i, j \in D : rank(i) = rank(j) => i = j
      /\ \A i \in D : rank(i) \in 0 .. (n - 1)
  <2>1. /\ \A k \in 1 .. Cardinality(D) : \E i \in D : rank(i) = k - 1
        /\ \A i, j \in D : rank(i) = rank(j) => i = j
        /\ \A i \in D : rank(i) \in 0 .. (Cardinality(D) - 1)
    BY <1>2, <1>3, Positions
  <2> HIDE DEF rank
  <2> QED
    BY <1>2, <2>1
<1>8. \A k \in 1 .. n : chosen(k) \in D /\ rank(chosen(k)) = k - 1
  <2>1. \A k \in 1 .. n : \E i \in D : Cardinality({j \in D : Before(set_s, j, i)}) = k - 1
    BY <1>4, <1>7
  <2>2. \A k \in 1 .. n : /\ chosen(k) \in D
                          /\ Cardinality({j \in D : Before(set_s, j, chosen(k))}) = k - 1
    BY <2>1
  <2> HIDE DEF chosen
  <2> QED
    BY <1>4, <2>2
<1> HIDE DEF chosen
<1>9. \A i, j \in D : rank(i) < rank(j) => <<i, j>> \in R
  BY <1>2, <1>3, FewerBefore, Zenon
<1> HIDE DEF rank
<1>10. p \in [1 .. n -> 1 .. n] /\ \A k \in 1 .. n : p[k] \in D /\ rank(p[k]) = k - 1
  BY <1>1, <1>8
<1>11. Sorted(set_s) = [k \in 1 .. n |-> set_s[p[k]]]
  BY <1>5
<1> HIDE DEF p
<1>12. \A k, l \in 1 .. n : p[k] = p[l] => k = l
  BY <1>1, <1>10
<1>13. \A i \in 1 .. n : \E k \in 1 .. n : p[k] = i
  <2> SUFFICES ASSUME NEW i \in 1 .. n
               PROVE  \E k \in 1 .. n : p[k] = i
    OBVIOUS
  <2>1. rank(i) \in 0 .. (n - 1) /\ i \in D
    BY <1>1, <1>7
  <2>2. rank(i) + 1 \in 1 .. n /\ (rank(i) + 1) - 1 = rank(i)
    BY <1>1, <2>1
  <2>3. p[rank(i) + 1] = i
    BY <1>7, <1>10, <2>1, <2>2
  <2> QED
    BY <2>2, <2>3
<1>14. ASSUME NEW k \in 1 .. n, NEW l \in 1 .. n, k < l
       PROVE  ~Precedes(set_s[p[l]], set_s[p[k]])
  <2>1. rank(p[k]) < rank(p[l]) /\ p[k] \in D /\ p[l] \in D
    BY <1>1, <1>10, <1>14
  <2> QED
    BY <1>6, <1>9, <2>1
<1> QED
  BY <1>10, <1>11, <1>12, <1>13, <1>14 DEF SortedBy, n

\* Each place of the sorted vector holds one of the tuples.
LEMMA SortedFrom ==
  ASSUME NEW E, NEW set_s \in Seq(E), \A s \in E : Sortable(s)
  PROVE  Sorted(set_s) \in [1 .. Len(set_s) -> E]
<1>1. PICK p : SortedBy(p, set_s)
  BY SortedOrder, Zenon
<1>2. \A i \in 1 .. Len(set_s) : set_s[i] \in E
  OBVIOUS
<1> QED
  BY <1>1, <1>2 DEF SortedBy

ScanOf(E, n) == [vec : [1 .. n -> E], start : Nat, cancel : SUBSET {Bucket(s) : s \in E}]

\* The scans of the first tuples of a vector
ScanUpto(upto, E, set_s) ==
  LET n == Len(set_s) IN
  /\ upto[0] = [vec |-> Sorted(set_s), start |-> 1, cancel |-> {}]
  /\ \A i \in Nat : i <= n => upto[i] \in ScanOf(E, n)
  /\ \A i \in Nat : i + 1 <= n => upto[i + 1] = ScanStep(upto[i], i + 1)
  /\ Scan(set_s) = upto[n]

\* The scan is the last of a sequence that takes one tuple after the other.
LEMMA ScanSteps ==
  ASSUME NEW E, NEW set_s \in Seq(E), \A s \in E : Sortable(s)
  PROVE  \E upto : ScanUpto(upto, E, set_s)
<1> DEFINE vec == Sorted(set_s)
           n == Len(set_s)
           S == ScanOf(E, n)
           a == [vec |-> vec, start |-> 1, cancel |-> {}]
           step == [p \in Nat \X S |-> IF p[1] + 1 <= n THEN ScanStep(p[2], p[1] + 1) ELSE p[2]]
           body(f) == [i \in 0 .. Len(vec) |-> IF i = 0 THEN a ELSE ScanStep(f[i - 1], i)]
           upto == CHOOSE f : f = body(f)
<1>1. vec \in [1 .. n -> E] /\ n \in Nat /\ Len(vec) = n
  BY SortedFrom
<1>2. a \in S
  BY <1>1 DEF ScanOf
<1>3. ASSUME NEW scan \in S, NEW i \in 1 .. n
      PROVE  ScanStep(scan, i) \in S
  <2> DEFINE prev    == scan.vec[1]
             elem    == scan.vec[i]
             marked  == IF is_cancel(elem.m.t_dst) THEN {Bucket(prev)} ELSE {}
             changed == Bucket(prev) # Bucket(elem)
             full    == IF changed /\ i - scan.start > kRecv THEN {Bucket(prev)} ELSE {}
             new     == IF changed THEN [scan.vec EXCEPT ![1] = elem] ELSE scan.vec
             from    == IF changed THEN i ELSE scan.start
             cancel  == scan.cancel \cup marked \cup full
  <2>1. ScanStep(scan, i) = [vec |-> new, start |-> from, cancel |-> cancel]
    BY DEF ScanStep
  <2>2. scan.vec \in [1 .. n -> E] /\ scan.start \in Nat
        /\ scan.cancel \in SUBSET {Bucket(s) : s \in E}
    BY DEF ScanOf
  <2>3. prev \in E /\ elem \in E
    BY <1>1, <2>2
  <2>4. new \in [1 .. n -> E]
    BY <2>2, <2>3
  <2>5. from \in Nat
    BY <1>1, <2>2
  <2>6. marked \subseteq {Bucket(prev)} /\ full \subseteq {Bucket(prev)}
    OBVIOUS
  <2>7. cancel \in SUBSET {Bucket(s) : s \in E}
    <3> HIDE DEF marked, full, prev
    <3> QED
      BY <2>2, <2>3, <2>6
  <2> HIDE DEF new, from, cancel
  <2> QED
    BY <2>1, <2>4, <2>5, <2>7 DEF ScanOf
<1>4. step \in [Nat \X S -> S]
  <2> HIDE DEF S
  <2>1. ASSUME NEW k \in Nat, NEW scan \in S, k + 1 <= n
        PROVE  ScanStep(scan, k + 1) \in S
    BY <1>1, <1>3, <2>1
  <2> QED
    BY <2>1
<1>5. \A k \in Nat, scan \in S : k + 1 <= n => step[<<k, scan>>] = ScanStep(scan, k + 1)
  <2> HIDE DEF S
  <2> QED
    OBVIOUS
<1>6. Scan(set_s) = upto[Len(vec)]
  BY Zenon DEF Scan
<1> HIDE DEF S, a, step, vec, n
<1>7. PICK g : Loops(g, S, a, step, n)
  BY <1>1, <1>2, <1>4, BoundedRecursion, Zenon
<1>8. g = body(g)
  <2>1. ASSUME NEW i \in 0 .. n
        PROVE  g[i] = IF i = 0 THEN a ELSE ScanStep(g[i - 1], i)
    <3>1. CASE i = 0
      BY <1>7, <3>1 DEF Loops
    <3>2. CASE i # 0
      <4>1. i - 1 \in Nat /\ (i - 1) + 1 = i /\ i - 1 \in 0 .. n /\ i \in 1 .. n
        BY <1>1, <3>2
      <4>2. g[i] = step[<<i - 1, g[i - 1]>>] /\ g[i - 1] \in S
        BY <1>7, <4>1 DEF Loops
      <4>3. step[<<i - 1, g[i - 1]>>] = ScanStep(g[i - 1], i)
        BY <1>1, <1>5, <4>1, <4>2
      <4> QED
        BY <3>2, <4>2, <4>3
    <3> QED
      BY <3>1, <3>2
  <2>2. g = [i \in 0 .. n |-> g[i]]
    BY <1>7 DEF Loops
  <2> QED
    BY <1>1, <2>1, <2>2
<1>9. upto = body(upto)
  BY <1>8, Zenon
<1> HIDE DEF upto
<1>10. upto[0] = a
  BY <1>1, <1>9
<1>11. \A i \in Nat : i + 1 <= n => upto[i + 1] = ScanStep(upto[i], i + 1)
  <2> SUFFICES ASSUME NEW i \in Nat, i + 1 <= n
               PROVE  upto[i + 1] = ScanStep(upto[i], i + 1)
    OBVIOUS
  <2>1. i + 1 \in 0 .. Len(vec) /\ i + 1 # 0 /\ (i + 1) - 1 = i
    BY <1>1
  <2> QED
    BY <1>9, <2>1
<1> DEFINE T == {i \in Nat : i <= n => upto[i] \in S}
<1>12. 0 \in T
  BY <1>1, <1>2, <1>10
<1>13. \A i \in Nat : i \in T => i + 1 \in T
  <2> SUFFICES ASSUME NEW i \in Nat, i \in T, i + 1 <= n
               PROVE  upto[i + 1] \in S
    OBVIOUS
  <2>1. upto[i] \in S /\ i + 1 \in 1 .. n
    BY <1>1
  <2> QED
    BY <1>3, <1>11, <2>1
<1>14. Nat \subseteq T
  <2> HIDE DEF T
  <2> QED
    BY <1>12, <1>13, Induction
<1>15. \A i \in Nat : i <= n => upto[i] \in S
  BY <1>14
<1>16. ScanUpto(upto, E, set_s)
  BY <1>1, <1>6, <1>10, <1>11, <1>15 DEF ScanUpto, S, a, vec, n
<1> QED
  BY <1>16, Zenon

\* The scan overwrites entries of the vector by others of it.
LEMMA ScanFrom ==
  ASSUME NEW E, NEW set_s \in Seq(E), \A s \in E : Sortable(s)
  PROVE  Scan(set_s).vec \in [1 .. Len(set_s) -> E]
<1>1. PICK upto : ScanUpto(upto, E, set_s)
  BY ScanSteps, Zenon
<1>2. upto[Len(set_s)] \in ScanOf(E, Len(set_s)) /\ Scan(set_s) = upto[Len(set_s)]
  BY <1>1 DEF ScanUpto
<1> QED
  BY <1>2 DEF ScanOf

\* So what is left to be routed was handed to route().
LEMMA KeptFrom ==
  ASSUME NEW E, NEW set_s \in Seq(E), \A s \in E : Sortable(s)
  PROVE  Kept(set_s) \in Seq(E)
<1> DEFINE scan == Scan(set_s)
           wanted == {i \in DOMAIN scan.vec : Bucket(scan.vec[i]) \notin scan.cancel}
<1>1. scan.vec \in [1 .. Len(set_s) -> E]
  BY ScanFrom
<1>2. scan.vec \in Seq(E)
  BY <1>1
<1>3. wanted \in SUBSET (DOMAIN scan.vec)
  OBVIOUS
<1>4. Kept(set_s) = Selected(scan.vec, wanted)
  BY DEF Kept
<1> HIDE DEF scan, wanted
<1> QED
  BY <1>2, <1>3, <1>4, SelectedIsSeq

(* Of the tuples that traffic_out hands to route(), not one gets through:  *)
(* either an assert ends the round or nothing is routed in it              *)
(* (routing_scheme.cpp:10-39, client_enclave.cpp:336, 352-366).            *)
THEOREM RouteAbortsOrIsIdle ==
  ASSUME NEW l \in Nat, l + 2 * Dimension + 2 < Word,
         NEW E, NEW set_s \in Seq(E),
         \A s \in E : Sortable(s) /\ (Fresh(s, l) \/ Overdue(s, l))
  PROVE  RouteAborts(set_s, l) \/ route(set_s, l) = <<>>
<1> DEFINE kept == Kept(set_s)
<1>1. kept \in Seq(E)
  BY KeptFrom
<1>2. route(set_s, l) =
        [i \in 1 .. Len(kept) |-> [kept[i] EXCEPT !.onid_current = NextQuorum(kept[i], l)]]
  BY DEF route
<1>3. \A s \in E : ~HopInRange(s, l)
  BY NoHopInRange
<1>4. (\E i \in 1 .. Len(kept) : ~HopInRange(kept[i], l)) => RouteAborts(set_s, l)
  BY DEF RouteAborts
<1> HIDE DEF kept
<1>5. CASE Len(kept) = 0
  BY <1>2, <1>5
<1>6. CASE Len(kept) # 0
  <2>1. 1 \in 1 .. Len(kept) /\ kept[1] \in E
    BY <1>1, <1>6
  <2> QED
    BY <1>3, <1>4, <2>1
<1> QED
  BY <1>5, <1>6

-----------------------------------------------------------------------------
(* What the scan cancels.  The tuples of a bucket are next to each other in*)
(* the sorted vector, so that the scan counts them all when it meets the   *)
(* next bucket; the last bucket has no next one.                           *)

\* The order tells the pseudonyms of tuples apart.
Ranked(E) ==
  \A s, t \in E : Rank(s.bucket_dst) = Rank(t.bucket_dst) => s.bucket_dst = t.bucket_dst

\* Tuples of different buckets are ordered by their buckets; what lies
\* between two tuples of a bucket is in the bucket.
LEMMA BucketsApart ==
  ASSUME NEW E, \A s \in E : Sortable(s), Ranked(E), NEW a \in E, NEW b \in E, NEW c \in E
  PROVE  /\ Bucket(a) # Bucket(b) => Precedes(a, b) \/ Precedes(b, a)
         /\ Bucket(a) = Bucket(c) /\ ~Precedes(b, a) /\ ~Precedes(c, b) => Bucket(b) = Bucket(a)
<1> DEFINE x == SortKey(a)
           y == SortKey(b)
           z == SortKey(c)
           L(u, v) ==
             \/ u[1] < v[1]
             \/ u[1] = v[1] /\ u[2] < v[2]
             \/ u[1] = v[1] /\ u[2] = v[2] /\ u[3] < v[3]
             \/ u[1] = v[1] /\ u[2] = v[2] /\ u[3] = v[3] /\ u[4] < v[4]
             \/ u[1] = v[1] /\ u[2] = v[2] /\ u[3] = v[3] /\ u[4] = v[4] /\ u[5] < v[5]
           Same(u, v) == u[1] = v[1] /\ u[2] = v[2] /\ u[3] = v[3] /\ u[4] = v[4]
<1>1. /\ x[1] \in Nat /\ x[2] \in Nat /\ x[3] \in Nat /\ x[4] \in Nat /\ x[5] \in Nat
      /\ y[1] \in Nat /\ y[2] \in Nat /\ y[3] \in Nat /\ y[4] \in Nat /\ y[5] \in Nat
      /\ z[1] \in Nat /\ z[2] \in Nat /\ z[3] \in Nat /\ z[4] \in Nat /\ z[5] \in Nat
  BY DEF Sortable, SortKey
<1>2. /\ Bucket(a) = Bucket(b) <=> Same(x, y)
      /\ Bucket(a) = Bucket(c) => Same(x, z)
  BY DEF Ranked, Bucket, SortKey
<1>3. /\ Precedes(a, b) <=> L(x, y)
      /\ Precedes(b, a) <=> L(y, x)
      /\ Precedes(c, b) <=> L(z, y)
  BY PrecedesByKey, Zenon
<1> HIDE DEF x, y, z
<1>4. ~Same(x, y) => L(x, y) \/ L(y, x)
  BY <1>1
<1>5. Same(x, z) /\ ~L(y, x) /\ ~L(z, y) => Same(x, y)
  BY <1>1
<1> HIDE DEF L, Same
<1> QED
  BY <1>2, <1>3, <1>4, <1>5

\* The places of a bucket in the sorted vector
BucketPlaces(vec, b) == {k \in DOMAIN vec : Bucket(vec[k]) = b}

(* After i tuples the group that begins at "start" is the one being counted*)
(* and its first tuple has overwritten the first one of the vector; of the *)
(* earlier groups those are cancelled that have more than kRecv tuples.    *)
ScannedTo(scan, vec, i) ==
  /\ scan.start \in 1 .. i \/ (i = 0 /\ scan.start = 1)
  /\ scan.vec = [vec EXCEPT ![1] = vec[scan.start]]
  /\ \A k \in scan.start .. i : Bucket(vec[k]) = Bucket(vec[scan.start])
  /\ \A k \in 1 .. (scan.start - 1) : Bucket(vec[k]) # Bucket(vec[scan.start])
  /\ scan.cancel = {Bucket(vec[k]) : k \in {k \in 1 .. (scan.start - 1) :
                                         Cardinality(BucketPlaces(vec, Bucket(vec[k]))) > kRecv}}

\* Buckets are contiguous, and no tuple stands for a cancellation.
Grouped(vec, n) ==
  /\ DOMAIN vec = 1 .. n
  /\ \A k, l, m \in 1 .. n :
       k <= l /\ l <= m /\ Bucket(vec[k]) = Bucket(vec[m]) => Bucket(vec[l]) = Bucket(vec[k])
  /\ \A k \in 1 .. n : ~is_cancel(vec[k].m.t_dst)

\* A step of the scan looks at one more tuple.
LEMMA ScannedNext ==
  ASSUME NEW n \in Nat, NEW vec, Grouped(vec, n), NEW i \in Nat, i + 1 <= n,
         NEW scan, ScannedTo(scan, vec, i)
  PROVE  ScannedTo(ScanStep(scan, i + 1), vec, i + 1)
<1> DEFINE s       == scan.start
           prev    == scan.vec[1]
           elem    == scan.vec[i + 1]
           b       == Bucket(vec[s])
           next    == ScanStep(scan, i + 1)
<1>1. /\ DOMAIN vec = 1 .. n /\ 1 \in 1 .. n /\ i + 1 \in 1 .. n
      /\ s \in 1 .. n /\ s <= i + 1 /\ (s <= i \/ (i = 0 /\ s = 1))
  BY DEF Grouped, ScannedTo
<1>2. scan.vec = [vec EXCEPT ![1] = vec[s]]
  BY DEF ScannedTo
<1>3. prev = vec[s] /\ elem = vec[i + 1]
  <2>1. i + 1 = 1 => s = i + 1
    BY <1>1
  <2> HIDE DEF s
  <2> QED
    BY <1>1, <1>2, <2>1
<1>4. ~is_cancel(vec[i + 1].m.t_dst)
  BY <1>1 DEF Grouped
<1> HIDE DEF s, prev, elem
<1>5. next = [vec    |-> IF b # Bucket(vec[i + 1]) THEN [scan.vec EXCEPT ![1] = vec[i + 1]] ELSE scan.vec,
              start  |-> IF b # Bucket(vec[i + 1]) THEN i + 1 ELSE s,
              cancel |-> scan.cancel \cup
                           IF b # Bucket(vec[i + 1]) /\ (i + 1) - s > kRecv THEN {b} ELSE {}]
  <2>1. ScanStep(scan, i + 1) =
          [vec    |-> IF Bucket(prev) # Bucket(elem) THEN [scan.vec EXCEPT ![1] = elem] ELSE scan.vec,
           start  |-> IF Bucket(prev) # Bucket(elem) THEN i + 1 ELSE scan.start,
           cancel |-> scan.cancel \cup (IF is_cancel(elem.m.t_dst) THEN {Bucket(prev)} ELSE {})
                        \cup (IF Bucket(prev) # Bucket(elem) /\ (i + 1) - scan.start > kRecv
                              THEN {Bucket(prev)} ELSE {})]
    BY DEF ScanStep, prev, elem
  <2>2. (IF is_cancel(elem.m.t_dst) THEN {Bucket(prev)} ELSE {}) = {}
    BY <1>3, <1>4
  <2> QED
    BY <1>3, <2>1, <2>2 DEF s
<1> DEFINE Big(k) == Cardinality(BucketPlaces(vec, Bucket(vec[k]))) > kRecv
<1>6. /\ \A k \in s .. i : Bucket(vec[k]) = b
      /\ \A k \in 1 .. (s - 1) : Bucket(vec[k]) # b
      /\ scan.cancel = {Bucket(vec[k]) : k \in {k \in 1 .. (s - 1) : Big(k)}}
  BY DEF ScannedTo, s
<1> HIDE DEF next
<1>7. CASE b = Bucket(vec[i + 1])
  <2>1. next.start = s /\ next.vec = scan.vec /\ next.cancel = scan.cancel
    BY <1>5, <1>7
  <2>2. \A k \in s .. (i + 1) : Bucket(vec[k]) = b
    BY <1>1, <1>6, <1>7
  <2>3. s \in 1 .. (i + 1)
    BY <1>1
  <2>4. next.start \in 1 .. (i + 1) /\ next.vec = [vec EXCEPT ![1] = vec[next.start]]
    BY <1>2, <2>1, <2>3, Zenon
  <2>5. /\ \A k \in next.start .. (i + 1) : Bucket(vec[k]) = Bucket(vec[next.start])
        /\ \A k \in 1 .. (next.start - 1) : Bucket(vec[k]) # Bucket(vec[next.start])
        /\ next.cancel = {Bucket(vec[k]) : k \in {k \in 1 .. (next.start - 1) : Big(k)}}
    BY <1>6, <2>1, <2>2, Zenon
  <2>6. ScannedTo(next, vec, i + 1)
    BY <2>4, <2>5, Zenon DEF ScannedTo
  <2> QED
    BY <2>6 DEF next
<1>8. CASE b # Bucket(vec[i + 1])
  <2>1. /\ next.start = i + 1
        /\ next.vec = [scan.vec EXCEPT ![1] = vec[i + 1]]
        /\ next.cancel = scan.cancel \cup (IF (i + 1) - s > kRecv THEN {b} ELSE {})
    BY <1>5, <1>8
  <2>2. next.vec = [vec EXCEPT ![1] = vec[i + 1]]
    BY <1>2, <2>1
  <2>3. s <= i /\ i \in 1 .. n
    BY <1>1, <1>8
  <2>4. BucketPlaces(vec, b) = s .. i
    <3>1. ASSUME NEW k \in 1 .. n, Bucket(vec[k]) = b
          PROVE  k \in s .. i
      <4>1. k >= s
        BY <1>1, <1>6, <3>1
      <4>2. ~(k >= i + 1)
        BY <1>1, <1>8, <2>3, <3>1 DEF Grouped
      <4> QED
        BY <4>1, <4>2
    <3>2. s .. i \subseteq 1 .. n
      BY <1>1, <2>3
    <3> QED
      BY <1>1, <1>6, <3>1, <3>2 DEF BucketPlaces
  <2>5. Cardinality(BucketPlaces(vec, b)) = (i + 1) - s
    <3>1. Cardinality(s .. i) = (i + 1) - s
      BY <1>1, <2>3, FS_Interval
    <3> QED
      BY <2>4, <3>1
  <2>6. \A k \in 1 .. i : Bucket(vec[k]) # Bucket(vec[i + 1])
    <3> SUFFICES ASSUME NEW k \in 1 .. i, Bucket(vec[k]) = Bucket(vec[i + 1])
                 PROVE  FALSE
      OBVIOUS
    <3>1. CASE k <= s
      <4>1. Bucket(vec[s]) = Bucket(vec[k])
        BY <1>1, <2>3, <3>1 DEF Grouped
      <4> QED
        BY <1>8, <4>1
    <3>2. CASE k > s
      BY <1>1, <1>6, <1>8, <2>3, <3>2
    <3> QED
      BY <1>1, <3>1, <3>2
  <2>7. next.cancel = {Bucket(vec[k]) : k \in {k \in 1 .. i : Big(k)}}
    <3>1. \A k \in s .. i : Bucket(vec[k]) = b /\ (Big(k) <=> (i + 1) - s > kRecv)
      BY <1>6, <2>5
    <3>2. 1 .. i = 1 .. (s - 1) \cup s .. i /\ s \in s .. i
      BY <1>1, <2>3
    <3> HIDE DEF Big
    <3>3. {Bucket(vec[k]) : k \in {k \in s .. i : Big(k)}} = IF (i + 1) - s > kRecv THEN {b} ELSE {}
      BY <3>1, <3>2
    <3>4. {Bucket(vec[k]) : k \in {k \in 1 .. i : Big(k)}} =
            {Bucket(vec[k]) : k \in {k \in 1 .. (s - 1) : Big(k)}}
              \cup {Bucket(vec[k]) : k \in {k \in s .. i : Big(k)}}
      BY <3>2
    <3> QED
      BY <1>6, <2>1, <3>3, <3>4
  <2>8. (i + 1) - 1 = i /\ i + 1 \in 1 .. (i + 1)
    OBVIOUS
  <2>9. \A k \in (i + 1) .. (i + 1) : Bucket(vec[k]) = Bucket(vec[i + 1])
    OBVIOUS
  <2>10. next.start \in 1 .. (i + 1) /\ next.vec = [vec EXCEPT ![1] = vec[next.start]]
    BY <2>1, <2>2, <2>8, Zenon
  <2>11. /\ \A k \in next.start .. (i + 1) : Bucket(vec[k]) = Bucket(vec[next.start])
         /\ \A k \in 1 .. (next.start - 1) : Bucket(vec[k]) # Bucket(vec[next.start])
         /\ next.cancel = {Bucket(vec[k]) : k \in {k \in 1 .. (next.start - 1) : Big(k)}}
    BY <2>1, <2>6, <2>7, <2>8, <2>9, Zenon
  <2>12. ScannedTo(next, vec, i + 1)
    BY <2>10, <2>11, Zenon DEF ScannedTo
  <2> QED
    BY <2>12 DEF next
<1> QED
  BY <1>7, <1>8

\* What is known of a vector that p sorts
LEMMA SortedPlaces ==
  ASSUME NEW E, NEW set_s \in Seq(E), NEW p, SortedBy(p, set_s)
  PROVE  LET vec == Sorted(set_s)
             n == Len(set_s)
         IN  /\ n \in Nat /\ DOMAIN set_s = 1 .. n /\ vec \in [1 .. n -> E]
             /\ \A k \in 1 .. n : p[k] \in 1 .. n /\ vec[k] = set_s[p[k]]
             /\ \A k, l \in 1 .. n : p[k] = p[l] => k = l
             /\ \A i \in 1 .. n : \E k \in 1 .. n : p[k] = i
             /\ \A k, l \in 1 .. n : k < l => ~Precedes(vec[l], vec[k])
<1> DEFINE vec == Sorted(set_s)
           n == Len(set_s)
<1>1. /\ p \in [1 .. n -> 1 .. n]
      /\ \A k, l \in 1 .. n : p[k] = p[l] => k = l
      /\ \A i \in 1 .. n : \E k \in 1 .. n : p[k] = i
      /\ vec = [k \in 1 .. n |-> set_s[p[k]]]
      /\ \A k, l \in 1 .. n : k < l => ~Precedes(set_s[p[l]], set_s[p[k]])
  BY Zenon DEF SortedBy
<1>2. n \in Nat /\ DOMAIN set_s = 1 .. n /\ \A i \in 1 .. n : set_s[i] \in E
  OBVIOUS
<1> HIDE DEF vec, n
<1>3. \A k \in 1 .. n : p[k] \in 1 .. n /\ vec[k] = set_s[p[k]]
  BY <1>1
<1>4. vec \in [1 .. n -> E]
  BY <1>1, <1>2
<1>5. \A k, l \in 1 .. n : k < l => ~Precedes(vec[l], vec[k])
  BY <1>1, <1>3
<1> QED
  BY <1>1, <1>2, <1>3, <1>4, <1>5 DEF vec, n

\* The sorted vector is grouped, and scanned to its end.
LEMMA WholeScan ==
  ASSUME NEW E, NEW set_s \in Seq(E), Ranked(E),
         \A s \in E : Sortable(s) /\ ~is_cancel(s.m.t_dst)
  PROVE  /\ Grouped(Sorted(set_s), Len(set_s))
         /\ ScannedTo(Scan(set_s), Sorted(set_s), Len(set_s))
<1> DEFINE vec == Sorted(set_s)
           n == Len(set_s)
<1>1. PICK p : SortedBy(p, set_s)
  BY SortedOrder, Zenon
<1>2. n \in Nat /\ vec \in [1 .. n -> E]
  BY <1>1, SortedPlaces
<1>3. \A k, l \in 1 .. n : k < l => ~Precedes(vec[l], vec[k])
  BY <1>1, SortedPlaces
<1>4. PICK upto : ScanUpto(upto, E, set_s)
  BY ScanSteps, Zenon
<1>5. /\ upto[0] = [vec |-> vec, start |-> 1, cancel |-> {}]
      /\ \A i \in Nat : i + 1 <= n => upto[i + 1] = ScanStep(upto[i], i + 1)
      /\ Scan(set_s) = upto[n]
  BY <1>4 DEF ScanUpto
<1> HIDE DEF vec, n
<1>6. Grouped(vec, n)
  <2>1. ASSUME NEW k \in 1 .. n, NEW l \in 1 .. n, NEW m \in 1 .. n, k <= l, l <= m,
               Bucket(vec[k]) = Bucket(vec[m])
        PROVE  Bucket(vec[l]) = Bucket(vec[k])
    <3>1. vec[k] \in E /\ vec[l] \in E /\ vec[m] \in E
      BY <1>2
    <3>2. k = l \/ l = m \/ (k < l /\ l < m)
      BY <2>1
    <3>3. CASE k < l /\ l < m
      <4>1. ~Precedes(vec[l], vec[k]) /\ ~Precedes(vec[m], vec[l])
        BY <1>3, <3>3
      <4> QED
        BY <2>1, <3>1, <4>1, BucketsApart
    <3> QED
      BY <2>1, <3>2, <3>3
  <2>2. DOMAIN vec = 1 .. n /\ \A k \in 1 .. n : ~is_cancel(vec[k].m.t_dst)
    BY <1>2
  <2> QED
    BY <2>1, <2>2 DEF Grouped
<1> DEFINE T == {i \in Nat : i <= n => ScannedTo(upto[i], vec, i)}
<1>7. 0 \in T
  <2>1. ScannedTo([vec |-> vec, start |-> 1, cancel |-> {}], vec, 0)
    <3> DEFINE scan == [vec |-> vec, start |-> 1, cancel |-> {}]
    <3>1. scan.vec = vec /\ scan.start = 1 /\ scan.cancel = {}
      OBVIOUS
    <3> HIDE DEF scan
    <3>2. vec = [vec EXCEPT ![1] = vec[1]]
      BY <1>2
    <3>3. 1 .. 0 = {} /\ 1 - 1 = 0
      OBVIOUS
    <3>4. {Bucket(vec[k]) : k \in {k \in {} : Cardinality(BucketPlaces(vec, Bucket(vec[k]))) > kRecv}} = {}
      OBVIOUS
    <3>5. ScannedTo(scan, vec, 0)
      BY <3>1, <3>2, <3>3, <3>4, Zenon DEF ScannedTo
    <3> QED
      BY <3>5 DEF scan
  <2> QED
    BY <1>5, <2>1
<1>8. \A i \in Nat : i \in T => i + 1 \in T
  <2> SUFFICES ASSUME NEW i \in Nat, i \in T, i + 1 <= n
               PROVE  ScannedTo(upto[i + 1], vec, i + 1)
    OBVIOUS
  <2>1. ScannedTo(upto[i], vec, i)
    BY <1>2
  <2>2. ScannedTo(ScanStep(upto[i], i + 1), vec, i + 1)
    BY <1>2, <1>6, <2>1, ScannedNext
  <2> QED
    BY <1>5, <2>2
<1>9. Nat \subseteq T
  <2> HIDE DEF T
  <2> QED
    BY <1>7, <1>8, Induction
<1>10. ScannedTo(upto[n], vec, n)
  BY <1>2, <1>9
<1> QED
  BY <1>5, <1>6, <1>10 DEF vec, n

\* Sorting leaves the size of each bucket.
LEMMA SameSizes ==
  ASSUME NEW E, NEW set_s \in Seq(E), NEW p, SortedBy(p, set_s), NEW b
  PROVE  /\ IsFiniteSet(BucketPlaces(Sorted(set_s), b)) /\ Cardinality(BucketPlaces(Sorted(set_s), b)) \in Nat
         /\ Cardinality(BucketPlaces(Sorted(set_s), b)) = Cardinality(BucketPlaces(set_s, b))
<1> DEFINE vec == Sorted(set_s)
           n == Len(set_s)
           S == BucketPlaces(vec, b)
           T == BucketPlaces(set_s, b)
           f == [k \in S |-> p[k]]
<1>1. /\ n \in Nat /\ DOMAIN set_s = 1 .. n /\ DOMAIN vec = 1 .. n
      /\ \A k \in 1 .. n : vec[k] = set_s[p[k]] /\ p[k] \in 1 .. n
      /\ \A k, l \in 1 .. n : p[k] = p[l] => k = l
      /\ \A i \in 1 .. n : \E k \in 1 .. n : p[k] = i
  BY SortedPlaces
<1> HIDE DEF vec, n
<1>2. IsFiniteSet(S) /\ Cardinality(S) \in Nat
  <2>1. IsFiniteSet(1 .. n) /\ S \in SUBSET (1 .. n)
    BY <1>1, FS_Interval DEF BucketPlaces
  <2> HIDE DEF S
  <2> QED
    BY <2>1, FS_Subset, FS_CardinalityType
<1>3. f \in Bijection(S, T)
  <2>1. f \in [S -> T]
    BY <1>1 DEF BucketPlaces
  <2>2. \A k, l \in S : f[k] = f[l] => k = l
    BY <1>1 DEF BucketPlaces
  <2>3. ASSUME NEW i \in T
        PROVE  \E k \in S : f[k] = i
    <3>1. i \in 1 .. n /\ Bucket(set_s[i]) = b
      BY <1>1 DEF BucketPlaces
    <3>2. PICK k \in 1 .. n : p[k] = i
      BY <1>1, <3>1
    <3>3. k \in S
      BY <1>1, <3>1, <3>2 DEF BucketPlaces
    <3> QED
      BY <3>2, <3>3
  <2> HIDE DEF f, S, T
  <2> QED
    BY <2>1, <2>2, <2>3 DEF Bijection, Injection, Surjection, IsInjective
<1> HIDE DEF f, S, T
<1>4. Cardinality(T) = Cardinality(S)
  BY <1>2, <1>3, FS_Bijection DEF ExistsBijection
<1> QED
  BY <1>2, <1>4 DEF S, T, vec

\* Some tuple of another bucket comes after one of this bucket.
Followed(set_s, b) ==
  \E i, j \in DOMAIN set_s :
    Bucket(set_s[j]) = b /\ Bucket(set_s[i]) # b /\ Precedes(set_s[j], set_s[i])

\* The group the scan ends in is the one without a follower.
LEMMA FollowedBefore ==
  ASSUME NEW E, NEW set_s \in Seq(E), Ranked(E), \A s \in E : Sortable(s),
         NEW p, SortedBy(p, set_s), NEW scan, ScannedTo(scan, Sorted(set_s), Len(set_s)),
         NEW k \in 1 .. Len(set_s)
  PROVE  scan.start \in 1 .. Len(set_s) /\ (k < scan.start <=> Followed(set_s, Bucket(Sorted(set_s)[k])))
<1> DEFINE vec == Sorted(set_s)
           n == Len(set_s)
           s == scan.start
           b == Bucket(vec[k])
<1>1. /\ n \in Nat /\ DOMAIN set_s = 1 .. n
      /\ \A m \in 1 .. n : vec[m] = set_s[p[m]] /\ p[m] \in 1 .. n /\ vec[m] \in E
      /\ \A i \in 1 .. n : \E m \in 1 .. n : p[m] = i
  <2>1. /\ n \in Nat /\ DOMAIN set_s = 1 .. n /\ vec \in [1 .. n -> E]
        /\ \A m \in 1 .. n : p[m] \in 1 .. n /\ vec[m] = set_s[p[m]]
        /\ \A i \in 1 .. n : \E m \in 1 .. n : p[m] = i
    BY SortedPlaces
  <2> HIDE DEF vec, n
  <2> QED
    BY <2>1
<1>2. \A m, l \in 1 .. n : m < l => ~Precedes(vec[l], vec[m])
  BY SortedPlaces
<1>3. /\ s \in 1 .. n
      /\ \A m \in s .. n : Bucket(vec[m]) = Bucket(vec[s])
      /\ \A m \in 1 .. (s - 1) : Bucket(vec[m]) # Bucket(vec[s])
  BY <1>1 DEF ScannedTo
<1> HIDE DEF vec, n, s
<1>4. ASSUME k < s
      PROVE  Followed(set_s, b)
  <2>0. k \in 1 .. n /\ k \in 1 .. (s - 1)
    <3>1. k \in 1 .. n
      BY DEF n
    <3> QED
      BY <1>1, <1>3, <1>4, <3>1
  <2>1. Bucket(vec[k]) # Bucket(vec[s])
    BY <1>3, <2>0
  <2>2. vec[k] \in E /\ vec[s] \in E /\ k \in 1 .. n
    BY <1>1, <1>3, <2>0
  <2>3. ~Precedes(vec[s], vec[k])
    BY <1>2, <1>3, <1>4, <2>2
  <2>4. Precedes(vec[k], vec[s])
    BY <2>1, <2>2, <2>3, BucketsApart
  <2>5. /\ p[s] \in DOMAIN set_s /\ p[k] \in DOMAIN set_s
        /\ vec[s] = set_s[p[s]] /\ vec[k] = set_s[p[k]]
    BY <1>1, <1>3, <2>2
  <2> QED
    BY <2>1, <2>4, <2>5, Zenon DEF Followed
<1>5. ASSUME ~(k < s), Followed(set_s, b)
      PROVE  FALSE
  <2>1. k \in 1 .. n /\ k \in s .. n /\ b = Bucket(vec[s])
    BY <1>1, <1>3, <1>5 DEF n
  <2> HIDE DEF b
  <2>2. PICK i \in 1 .. n, j \in 1 .. n :
          Bucket(set_s[j]) = b /\ Bucket(set_s[i]) # b /\ Precedes(set_s[j], set_s[i])
    BY <1>1, <1>5 DEF Followed
  <2>3. PICK m \in 1 .. n, l \in 1 .. n : p[m] = i /\ p[l] = j
    BY <1>1
  <2>4. Bucket(vec[l]) = b /\ Bucket(vec[m]) # b /\ Precedes(vec[l], vec[m])
    BY <1>1, <2>2, <2>3
  <2>5. ~(l < s) /\ m < s
    BY <1>1, <1>3, <2>1, <2>4
  <2>6. m < l
    BY <1>1, <1>3, <2>5
  <2> QED
    BY <1>2, <2>4, <2>6
<1> QED
  BY <1>3, <1>4, <1>5 DEF vec, n, s

(* For all tuples a round may bring together, those buckets are cancelled  *)
(* that have more than kRecv tuples, except the last one in the order of   *)
(* the code (routing_scheme.cpp:41-71).                                    *)
THEOREM AllButLastCancelled ==
  ASSUME NEW E, NEW set_s \in Seq(E), Ranked(E),
         \A s \in E : Sortable(s) /\ ~is_cancel(s.m.t_dst)
  PROVE  determine_elements_to_be_cancelled(set_s) =
           {b \in {Bucket(set_s[i]) : i \in DOMAIN set_s} :
              Cardinality(BucketPlaces(set_s, b)) > kRecv /\ Followed(set_s, b)}
<1> DEFINE vec == Sorted(set_s)
           n == Len(set_s)
           scan == Scan(set_s)
           s == scan.start
           Big(b) == Cardinality(BucketPlaces(set_s, b)) > kRecv
<1>1. PICK p : SortedBy(p, set_s)
  BY SortedOrder, Zenon
<1>2. /\ n \in Nat /\ DOMAIN set_s = 1 .. n
      /\ \A k \in 1 .. n : vec[k] = set_s[p[k]] /\ p[k] \in 1 .. n
      /\ \A i \in 1 .. n : \E k \in 1 .. n : p[k] = i
  BY <1>1, SortedPlaces
<1>3. ScannedTo(scan, vec, n)
  BY WholeScan
<1>4. \A k \in 1 .. n : s \in 1 .. n /\ (k < s <=> Followed(set_s, Bucket(vec[k])))
  BY <1>1, <1>3, FollowedBefore
<1>5. \A b : Cardinality(BucketPlaces(vec, b)) = Cardinality(BucketPlaces(set_s, b))
  BY <1>1, SameSizes
<1>6. scan.cancel = {Bucket(vec[k]) : k \in {k \in 1 .. (s - 1) : Big(Bucket(vec[k]))}}
  BY <1>3, <1>5 DEF ScannedTo
<1>7. s \in 1 .. n \/ (n = 0 /\ s = 1)
  BY <1>3 DEF ScannedTo
<1>8. determine_elements_to_be_cancelled(set_s) = scan.cancel
  BY DEF determine_elements_to_be_cancelled
<1> HIDE DEF vec, n, s, scan, Big
<1>9. ASSUME NEW b \in scan.cancel
      PROVE  b \in {Bucket(set_s[i]) : i \in DOMAIN set_s} /\ Big(b) /\ Followed(set_s, b)
  <2>1. PICK k \in 1 .. (s - 1) : b = Bucket(vec[k]) /\ Big(b)
    BY <1>6
  <2>2. k \in 1 .. n /\ k < s
    BY <1>2, <1>7, <2>1
  <2>3. Followed(set_s, b)
    BY <1>4, <2>1, <2>2
  <2>4. vec[k] = set_s[p[k]] /\ p[k] \in DOMAIN set_s
    BY <1>2, <2>2
  <2> QED
    BY <2>1, <2>3, <2>4
<1>10. ASSUME NEW i \in DOMAIN set_s, Big(Bucket(set_s[i])), Followed(set_s, Bucket(set_s[i]))
       PROVE  Bucket(set_s[i]) \in scan.cancel
  <2>1. PICK k \in 1 .. n : p[k] = i
    BY <1>2
  <2>2. vec[k] = set_s[i]
    BY <1>2, <2>1
  <2>3. k < s /\ s \in 1 .. n
    BY <1>4, <1>10, <2>2
  <2>4. k \in 1 .. (s - 1)
    BY <2>3
  <2> QED
    BY <1>6, <1>10, <2>2, <2>4
<1> QED
  BY <1>8, <1>9, <1>10 DEF Big

\* Selecting entries makes no bucket larger.
LEMMA SelectedPlaces ==
  ASSUME NEW vec, NEW n \in Nat, DOMAIN vec = 1 .. n, NEW wanted \in SUBSET (1 .. n), NEW b
  PROVE  /\ IsFiniteSet(BucketPlaces(vec, b)) /\ Cardinality(BucketPlaces(vec, b)) \in Nat
         /\ Cardinality(BucketPlaces(Selected(vec, wanted), b)) \in 0 .. Cardinality(BucketPlaces(vec, b))
         /\ (\A i \in wanted : Bucket(vec[i]) # b) => BucketPlaces(Selected(vec, wanted), b) = {}
<1> DEFINE s == Selected(vec, wanted)
           S == BucketPlaces(s, b)
           T == BucketPlaces(vec, b)
           f == [k \in S |-> Place(wanted, k)]
<1>1. IsFiniteSet(1 .. n)
  BY FS_Interval
<1>2. IsFiniteSet(wanted) /\ wanted \in SUBSET Int
  <2> HIDE DEF s, S, T, f
  <2>1. IsFiniteSet(wanted)
    BY <1>1, FS_Subset
  <2> QED
    BY <2>1
<1>3. /\ \A k \in DOMAIN s : Place(wanted, k) \in wanted /\ s[k] = vec[Place(wanted, k)]
      /\ \A k, l \in DOMAIN s : Place(wanted, k) = Place(wanted, l) => k = l
  BY <1>2, SelectedEntries
<1> HIDE DEF s
<1>4. IsFiniteSet(T) /\ Cardinality(T) \in Nat
  <2>1. T \in SUBSET (1 .. n)
    BY DEF BucketPlaces
  <2> HIDE DEF T
  <2> QED
    BY <1>1, <2>1, FS_Subset, FS_CardinalityType
<1>5. f \in Injection(S, T)
  <2>1. f \in [S -> T]
    BY <1>3 DEF BucketPlaces
  <2>2. \A k, l \in S : f[k] = f[l] => k = l
    BY <1>3 DEF BucketPlaces
  <2> HIDE DEF f, S, T
  <2> QED
    BY <2>1, <2>2 DEF Injection, IsInjective
<1>6. (\A i \in wanted : Bucket(vec[i]) # b) => S = {}
  BY <1>3 DEF BucketPlaces
<1> HIDE DEF f, S, T
<1>7. IsFiniteSet(S) /\ Cardinality(S) <= Cardinality(T)
  BY <1>4, <1>5, FS_Injection
<1>8. Cardinality(S) \in Nat
  BY <1>7, FS_CardinalityType
<1>9. Cardinality(S) \in 0 .. Cardinality(T)
  BY <1>4, <1>7, <1>8
<1> QED
  BY <1>4, <1>6, <1>9 DEF S, T, s

(* So of every bucket but the last at most kRecv tuples are left to be     *)
(* routed: the receiver behind it gets no more in its round                *)
(* (routing_scheme.cpp:14-21, routing_scheme.h:28-30).                     *)
THEOREM KeptBounded ==
  ASSUME kRecv \in Nat, NEW E, NEW set_s \in Seq(E), Ranked(E),
         \A s \in E : Sortable(s) /\ ~is_cancel(s.m.t_dst),
         NEW i \in DOMAIN set_s, Followed(set_s, Bucket(set_s[i]))
  PROVE  Cardinality(BucketPlaces(Kept(set_s), Bucket(set_s[i]))) <= kRecv
<1> DEFINE b == Bucket(set_s[i])
           vec == Sorted(set_s)
           n == Len(set_s)
           scan == Scan(set_s)
           s == scan.start
           wanted == {k \in DOMAIN scan.vec : Bucket(scan.vec[k]) \notin scan.cancel}
<1>1. PICK p : SortedBy(p, set_s)
  BY SortedOrder, Zenon
<1>2. /\ n \in Nat /\ DOMAIN set_s = 1 .. n /\ vec \in [1 .. n -> E]
      /\ \A k \in 1 .. n : p[k] \in 1 .. n /\ vec[k] = set_s[p[k]]
      /\ \A j \in 1 .. n : \E k \in 1 .. n : p[k] = j
  BY <1>1, SortedPlaces
<1>3. ScannedTo(scan, vec, n)
  BY WholeScan
<1>4. \A k \in 1 .. n : s \in 1 .. n /\ (k < s <=> Followed(set_s, Bucket(vec[k])))
  BY <1>1, <1>3, FollowedBefore
<1>5. /\ Cardinality(BucketPlaces(vec, b)) = Cardinality(BucketPlaces(set_s, b))
      /\ IsFiniteSet(BucketPlaces(vec, b)) /\ Cardinality(BucketPlaces(vec, b)) \in Nat
  BY <1>1, SameSizes
<1>6. scan.vec = [vec EXCEPT ![1] = vec[s]]
  BY <1>3 DEF ScannedTo
<1>7. Cardinality(BucketPlaces(set_s, b)) > kRecv => b \in scan.cancel
  <2>1. scan.cancel = determine_elements_to_be_cancelled(set_s)
    BY DEF determine_elements_to_be_cancelled
  <2>2. determine_elements_to_be_cancelled(set_s) =
          {c \in {Bucket(set_s[j]) : j \in DOMAIN set_s} :
             Cardinality(BucketPlaces(set_s, c)) > kRecv /\ Followed(set_s, c)}
    BY AllButLastCancelled
  <2>3. b \in {Bucket(set_s[j]) : j \in DOMAIN set_s} /\ Followed(set_s, b)
    OBVIOUS
  <2> HIDE DEF scan, b
  <2> QED
    BY <2>1, <2>2, <2>3
<1>8. Kept(set_s) = Selected(scan.vec, wanted)
  BY DEF Kept
<1>9. Followed(set_s, b) /\ i \in 1 .. n
  BY <1>2
<1> HIDE DEF vec, n, s, scan, b
<1>10. s \in 1 .. n /\ Bucket(vec[s]) # b
  <2>1. s \in 1 .. n
    BY <1>4, <1>9
  <2>2. ~(s < s)
    BY <2>1
  <2> QED
    BY <1>4, <1>9, <2>1, <2>2
<1>11. DOMAIN scan.vec = 1 .. n /\ wanted \in SUBSET (1 .. n)
  BY <1>2, <1>6
<1>12. BucketPlaces(scan.vec, b) \in SUBSET BucketPlaces(vec, b)
  BY <1>2, <1>6, <1>10 DEF BucketPlaces
<1>13. Cardinality(BucketPlaces(scan.vec, b)) <= Cardinality(BucketPlaces(vec, b))
  BY <1>5, <1>12, FS_Subset
<1>14. b \in scan.cancel => \A k \in wanted : Bucket(scan.vec[k]) # b
  OBVIOUS
<1> HIDE DEF wanted
<1>15. /\ Cardinality(BucketPlaces(scan.vec, b)) \in Nat
       /\ Cardinality(BucketPlaces(Kept(set_s), b)) \in 0 .. Cardinality(BucketPlaces(scan.vec, b))
       /\ b \in scan.cancel => BucketPlaces(Kept(set_s), b) = {}
  BY <1>2, <1>8, <1>11, <1>14, SelectedPlaces
<1>16. Cardinality(BucketPlaces(Kept(set_s), b)) <= kRecv
  <2>1. CASE b \in scan.cancel
    <3>1. Cardinality(BucketPlaces(Kept(set_s), b)) = 0
      BY <1>15, <2>1, FS_EmptySet
    <3> QED
      BY <3>1
  <2>2. CASE b \notin scan.cancel
    <3>1. ~(Cardinality(BucketPlaces(vec, b)) > kRecv)
      BY <1>5, <1>7, <2>2
    <3> QED
      BY <1>5, <1>13, <1>15, <3>1
  <2> QED
    BY <2>1, <2>2
<1> QED
  BY <1>16 DEF b

(* The reference into the vector costs a message: as soon as a quorum holds*)
(* tuples of two buckets, the first one in their order is not routed       *)
(* (routing_scheme.cpp:50, 64).                                            *)
THEOREM FirstTupleLost ==
  ASSUME NEW E, NEW set_s \in Seq(E), Ranked(E),
         \A s \in E : Sortable(s) /\ ~is_cancel(s.m.t_dst),
         \A i, j \in DOMAIN set_s : set_s[i] = set_s[j] => i = j,
         \E i, j \in DOMAIN set_s : Bucket(set_s[i]) # Bucket(set_s[j])
  PROVE  \E i \in DOMAIN set_s :
           /\ \A j \in DOMAIN set_s : ~Precedes(set_s[j], set_s[i])
           /\ \A k \in DOMAIN Kept(set_s) : Kept(set_s)[k] # set_s[i]
<1> DEFINE vec == Sorted(set_s)
           n == Len(set_s)
           scan == Scan(set_s)
           s == scan.start
           wanted == {k \in DOMAIN scan.vec : Bucket(scan.vec[k]) \notin scan.cancel}
<1>1. PICK p : SortedBy(p, set_s)
  BY SortedOrder, Zenon
<1>2. /\ n \in Nat /\ DOMAIN set_s = 1 .. n /\ vec \in [1 .. n -> E]
      /\ \A k \in 1 .. n : p[k] \in 1 .. n /\ vec[k] = set_s[p[k]]
      /\ \A k, l \in 1 .. n : p[k] = p[l] => k = l
      /\ \A i \in 1 .. n : \E k \in 1 .. n : p[k] = i
      /\ \A k, l \in 1 .. n : k < l => ~Precedes(vec[l], vec[k])
  BY <1>1, SortedPlaces
<1>3. ScannedTo(scan, vec, n)
  BY WholeScan
<1>4. Kept(set_s) = Selected(scan.vec, wanted)
  BY DEF Kept
<1>5. /\ s \in 1 .. n \/ n = 0
      /\ \A k \in s .. n : Bucket(vec[k]) = Bucket(vec[s])
      /\ scan.vec = [vec EXCEPT ![1] = vec[s]]
  BY <1>3 DEF ScannedTo
<1>6. PICK i \in 1 .. n, j \in 1 .. n : Bucket(set_s[i]) # Bucket(set_s[j])
  BY <1>2
<1>7. \A k, l \in 1 .. n : set_s[p[k]] = set_s[p[l]] => k = l
  <2>1. \A k \in 1 .. n : p[k] \in DOMAIN set_s
    BY <1>2
  <2>2. \A k, l \in 1 .. n : set_s[p[k]] = set_s[p[l]] => p[k] = p[l]
    BY <2>1, Zenon
  <2>3. \A k, l \in 1 .. n : p[k] = p[l] => k = l
    BY <1>2
  <2> HIDE DEF n
  <2> QED
    BY <2>2, <2>3
<1>8. \A k \in 1 .. n : ~Precedes(vec[k], vec[k])
  <2>1. \A k \in 1 .. n : Sortable(vec[k])
    BY <1>2
  <2> HIDE DEF vec, n
  <2> QED
    BY <2>1, PrecedesIsOrder
<1> HIDE DEF vec, n, s, scan
<1>9. n \in Nat \ {0} /\ s \in 1 .. n /\ 1 \in 1 .. n
  <2>1. n \in Nat /\ i \in 1 .. n
    BY <1>2, <1>6
  <2>2. n \in Nat \ {0} /\ 1 \in 1 .. n
    BY <2>1
  <2> QED
    BY <1>5, <2>2
<1>10. s # 1
  <2> SUFFICES ASSUME s = 1
               PROVE  FALSE
    OBVIOUS
  <2>1. PICK k \in 1 .. n, l \in 1 .. n : p[k] = i /\ p[l] = j
    BY <1>2, <1>6
  <2>2. Bucket(vec[k]) = Bucket(vec[l])
    BY <1>5, <2>1
  <2> QED
    BY <1>2, <1>6, <2>1, <2>2
<1>11. \A k \in 1 .. n : scan.vec[k] # vec[1]
  <2>1. \A k \in 1 .. n : vec[k] = vec[1] => k = 1
    BY <1>2, <1>7, <1>9
  <2> QED
    BY <1>2, <1>5, <1>9, <1>10, <2>1
<1>12. IsFiniteSet(wanted) /\ wanted \in SUBSET Int /\ wanted \in SUBSET (1 .. n)
  <2>1. IsFiniteSet(1 .. n) /\ wanted \in SUBSET (1 .. n)
    BY <1>2, <1>5, FS_Interval
  <2> HIDE DEF wanted
  <2>2. IsFiniteSet(wanted)
    BY <2>1, FS_Subset
  <2>3. wanted \in SUBSET Int
    BY <2>1
  <2> QED
    BY <2>1, <2>2, <2>3
<1> HIDE DEF wanted
<1>13. \A k \in DOMAIN Kept(set_s) : Kept(set_s)[k] # vec[1]
  <2>1. \A k \in DOMAIN Kept(set_s) :
          Place(wanted, k) \in wanted /\ Kept(set_s)[k] = scan.vec[Place(wanted, k)]
    BY <1>4, <1>12, SelectedEntries
  <2>2. \A k \in DOMAIN Kept(set_s) : Place(wanted, k) \in 1 .. n
    BY <1>12, <2>1
  <2>3. ASSUME NEW k \in DOMAIN Kept(set_s)
        PROVE  Kept(set_s)[k] # vec[1]
    <3>1. scan.vec[Place(wanted, k)] # vec[1]
      BY <1>11, <2>2, <2>3
    <3> QED
      BY <2>1, <2>3, <3>1
  <2> QED
    BY <2>3
<1>14. \A k \in 1 .. n : ~Precedes(vec[k], vec[1])
  BY <1>2, <1>8, <1>9
<1>15. ASSUME NEW l \in 1 .. n
       PROVE  ~Precedes(set_s[l], vec[1])
  <2>1. PICK k \in 1 .. n : p[k] = l
    BY <1>2
  <2>2. vec[k] = set_s[l]
    BY <1>2, <2>1
  <2> QED
    BY <1>14, <2>2
<1>16. vec[1] = set_s[p[1]] /\ p[1] \in DOMAIN set_s
  BY <1>2, <1>9
<1>17. /\ \A l \in DOMAIN set_s : ~Precedes(set_s[l], set_s[p[1]])
       /\ \A k \in DOMAIN Kept(set_s) : Kept(set_s)[k] # set_s[p[1]]
  BY <1>2, <1>13, <1>15, <1>16
<1> QED
  BY <1>16, <1>17
=============================================================================
