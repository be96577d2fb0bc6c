------------------------------ MODULE DataLemmas ------------------------------
(***************************************************************************)
(* Facts about the data the enclave computes with, for the proofs of its   *)
(* components: induction and recursion on the naturals, the order of the   *)
(* elements of a finite set, the entries that Selected and FlattenSeq      *)
(* return, the bits of quorum ids, and bitwise or.                         *)
(*                                                                         *)
(* The induction theorems of the library take the proposition as an        *)
(* operator, which the provers do not instantiate.  Here it is the set of  *)
(* naturals that satisfy it, and a step of a recursion is a function.      *)
(***************************************************************************)
EXTENDS Bits, Vectors, SequencesExt, FiniteSetTheorems, WellFoundedInduction, TLAPS

-----------------------------------------------------------------------------
(* Induction and recursion on the naturals *)

\* Every nonempty set of naturals has a least element.
LEMMA LeastNatural ==
  ASSUME NEW T \in SUBSET Nat, T # {}
  PROVE  \E x \in T : \A y \in T : x <= y
<1> DEFINE R == OpToRel(<, Nat)
<1>1. IsWellFoundedOn(R, Nat)
  BY NatLessThanWellFounded
<1>2. \A y, x \in Nat : <<y, x>> \in R <=> y < x
  BY DEF OpToRel
<1> HIDE DEF R
<1>3. PICK x \in T : \A y \in T : ~ (<<y, x>> \in R)
  BY <1>1, WFMin
<1>4. ASSUME NEW y \in T
      PROVE  x <= y
  <2>1. x \in Nat /\ y \in Nat
    OBVIOUS
  <2>2. ~ (y < x)
    BY <1>2, <1>3, <2>1, Zenon
  <2> QED
    BY <2>1, <2>2
<1> QED
  BY <1>4

\* A set that holds 0 and is closed under successors holds every natural.
LEMMA Induction ==
  ASSUME NEW T, 0 \in T, \A n \in Nat : n \in T => n + 1 \in T
  PROVE  Nat \subseteq T
<1> SUFFICES ASSUME Nat \ T # {} PROVE FALSE
  OBVIOUS
<1>1. PICK x \in Nat \ T : \A y \in Nat \ T : x <= y
  BY LeastNatural
<1>2. x # 0 /\ x - 1 \in Nat /\ x - 1 \in T
  BY <1>1
<1> QED
  BY <1>1, <1>2

\* The first values of a sequence whose next value is a function of the last
Begins(S, a, step, n) ==
  {g \in [0 .. n -> S] : g[0] = a /\ \A i \in 1 .. n : g[i] = step[<<i - 1, g[i - 1]>>]}

\* Two beginnings of a recursion agree where both are defined.
LEMMA BeginsUnique ==
  ASSUME NEW S, NEW a \in S, NEW step \in [Nat \X S -> S], NEW m \in Nat,
         NEW n \in Nat, NEW g \in Begins(S, a, step, m), NEW h \in Begins(S, a, step, n),
         NEW k \in Nat, k <= m, k <= n
  PROVE  g[k] = h[k]
<1> DEFINE T == {i \in Nat : i <= m /\ i <= n => g[i] = h[i]}
<1>1. 0 \in T
  BY DEF Begins
<1>2. ASSUME NEW i \in Nat, i \in T, i + 1 <= m, i + 1 <= n
      PROVE  g[i + 1] = h[i + 1]
  <2>1. g[i] = h[i]
    BY <1>2
  <2>2. i + 1 \in 1 .. m /\ i + 1 \in 1 .. n /\ (i + 1) - 1 = i
    BY <1>2
  <2>3. g[i + 1] = step[<<i, g[i]>>] /\ h[i + 1] = step[<<i, h[i]>>]
    BY <2>2 DEF Begins
  <2> QED
    BY <2>1, <2>3
<1>3. \A i \in Nat : i \in T => i + 1 \in T
  BY <1>2
<1>4. Nat \subseteq T
  <2> HIDE DEF T
  <2> QED
    BY <1>1, <1>3, Induction
<1> QED
  BY <1>4

\* A recursion has a beginning of every length.
LEMMA BeginsExist ==
  ASSUME NEW S, NEW a \in S, NEW step \in [Nat \X S -> S]
  PROVE  \A n \in Nat : Begins(S, a, step, n) # {}
<1> DEFINE T == {n \in Nat : Begins(S, a, step, n) # {}}
<1>1. 0 \in T
  <2>1. [i \in 0 .. 0 |-> a] \in Begins(S, a, step, 0)
    BY DEF Begins
  <2> QED
    BY <2>1
<1>2. ASSUME NEW n \in Nat, n \in T
      PROVE  n + 1 \in T
  <2>1. PICK g \in Begins(S, a, step, n) : TRUE
    BY <1>2
  <2> DEFINE h == [i \in 0 .. (n + 1) |-> IF i = n + 1 THEN step[<<n, g[n]>>] ELSE g[i]]
  <2>2. g \in [0 .. n -> S] /\ g[n] \in S
    BY <2>1 DEF Begins
  <2>3. step[<<n, g[n]>>] \in S
    BY <2>2
  <2>4. h \in [0 .. (n + 1) -> S]
    BY <2>2, <2>3
  <2>5. \A i \in 1 .. (n + 1) : h[i] = step[<<i - 1, h[i - 1]>>]
    <3> SUFFICES ASSUME NEW i \in 1 .. (n + 1) PROVE h[i] = step[<<i - 1, h[i - 1]>>]
      OBVIOUS
    <3>1. i - 1 \in 0 .. n /\ h[i - 1] = g[i - 1]
      OBVIOUS
    <3>2. CASE i = n + 1
      <4>1. i - 1 = n /\ h[i] = step[<<n, g[n]>>]
        BY <3>2
      <4> QED
        BY <3>1, <4>1
    <3>3. CASE i # n + 1
      <4>1. i \in 1 .. n
        BY <3>3
      <4> QED
        BY <3>1, <3>3, <4>1, <2>1 DEF Begins
    <3> QED
      BY <3>2, <3>3
  <2>6. h[0] = a
    BY <2>1 DEF Begins
  <2>7. h \in Begins(S, a, step, n + 1)
    BY <2>4, <2>5, <2>6 DEF Begins
  <2> QED
    BY <2>7
<1>3. Nat \subseteq T
  <2> HIDE DEF T
  <2> QED
    BY <1>1, <1>2, Induction
<1> QED
  BY <1>3

\* The whole of such a sequence
Follows(h, S, a, step) ==
  h \in [Nat -> S] /\ h[0] = a /\ \A n \in Nat : h[n + 1] = step[<<n, h[n]>>]

\* A function defined by recursion on the naturals exists.
LEMMA Recursion ==
  ASSUME NEW S, NEW a \in S, NEW step \in [Nat \X S -> S]
  PROVE  \E h : Follows(h, S, a, step)
<1> DEFINE g(n) == CHOOSE f \in Begins(S, a, step, n) : TRUE
           h == [n \in Nat |-> g(n)[n]]
<1>1. \A n \in Nat : g(n) \in Begins(S, a, step, n)
  BY BeginsExist
<1> HIDE DEF g
<1>2. \A n \in Nat : g(n)[n] \in S
  <2> TAKE n \in Nat
  <2>1. g(n) \in [0 .. n -> S]
    BY <1>1 DEF Begins
  <2> QED
    BY <2>1
<1>3. h \in [Nat -> S]
  BY <1>2
<1>4. h[0] = a
  BY <1>1 DEF Begins
<1>5. ASSUME NEW n \in Nat
      PROVE  h[n + 1] = step[<<n, h[n]>>]
  <2>1. n + 1 \in Nat /\ n + 1 \in 1 .. (n + 1) /\ (n + 1) - 1 = n
    OBVIOUS
  <2>2. g(n + 1)[n + 1] = step[<<n, g(n + 1)[n]>>]
    BY <1>1, <2>1 DEF Begins
  <2>3. g(n + 1)[n] = g(n)[n]
    <3>1. g(n + 1) \in Begins(S, a, step, n + 1) /\ g(n) \in Begins(S, a, step, n)
      BY <1>1, <2>1
    <3>2. n <= n + 1 /\ n <= n
      OBVIOUS
    <3> QED
      BY <2>1, <3>1, <3>2, BeginsUnique
  <2> QED
    BY <2>1, <2>2, <2>3
<1> QED
  BY <1>3, <1>4, <1>5 DEF Follows

\* A sequence that starts with "a" and goes on as "step" says
Loops(g, S, a, step, n) ==
  /\ g \in [0 .. n -> S] /\ g[0] = a
  /\ \A k \in 1 .. n : g[k] = step[<<k - 1, g[k - 1]>>]

\* A recursion on an interval exists.
LEMMA BoundedRecursion ==
  ASSUME NEW S, NEW a \in S, NEW step \in [Nat \X S -> S], NEW n \in Nat
  PROVE  \E g : Loops(g, S, a, step, n)
<1>1. PICK h : Follows(h, S, a, step)
  BY Recursion, Zenon
<1> DEFINE g == [k \in 0 .. n |-> h[k]]
<1>2. g \in [0 .. n -> S] /\ g[0] = a
  BY <1>1 DEF Follows
<1>3. ASSUME NEW k \in 1 .. n
      PROVE  g[k] = step[<<k - 1, g[k - 1]>>]
  <2>1. k - 1 \in Nat /\ (k - 1) + 1 = k /\ k - 1 \in 0 .. n /\ k \in 0 .. n
    OBVIOUS
  <2>2. h[(k - 1) + 1] = step[<<k - 1, h[k - 1]>>]
    BY <1>1, <2>1, Zenon DEF Follows
  <2>3. g[k] = h[k] /\ g[k - 1] = h[k - 1]
    BY <2>1
  <2> QED
    BY <2>1, <2>2, <2>3, Zenon
<1>4. Loops(g, S, a, step, n)
  BY <1>2, <1>3 DEF Loops
<1> QED
  BY <1>4, Zenon

-----------------------------------------------------------------------------
(* The order of the elements of a finite set *)

\* The elements that a relation, a set of pairs, puts before another
Less(D, R, i) == {j \in D : <<j, i>> \in R}

StrictTotalOrder(D, R) ==
  /\ \A i \in D : <<i, i>> \notin R
  /\ \A i, j, k \in D : <<i, j>> \in R /\ <<j, k>> \in R => <<i, k>> \in R
  /\ \A i, j \in D : i # j => <<i, j>> \in R \/ <<j, i>> \in R

\* Every position of a totally ordered finite set is held by one element.
LEMMA Positions ==
  ASSUME NEW D, IsFiniteSet(D), NEW R, StrictTotalOrder(D, R)
  PROVE  /\ \A k \in 1 .. Cardinality(D) :
              \E i \in D : Cardinality(Less(D, R, i)) = k - 1
         /\ \A i, j \in D : Cardinality(Less(D, R, i)) = Cardinality(Less(D, R, j)) => i = j
         /\ \A i \in D : Cardinality(Less(D, R, i)) \in 0 .. (Cardinality(D) - 1)
<1> DEFINE n == Cardinality(D)
           rank == [i \in D |-> Cardinality(Less(D, R, i))]
<1>1. n \in Nat
  BY FS_CardinalityType
<1>2. ASSUME NEW i \in D
      PROVE  IsFiniteSet(Less(D, R, i)) /\ rank[i] \in 0 .. (n - 1)
  <2>1. Less(D, R, i) \subseteq D \ {i}
    BY DEF Less, StrictTotalOrder
  <2>2. IsFiniteSet(D \ {i}) /\ Cardinality(D \ {i}) = n - 1
    BY FS_RemoveElement
  <2>3. IsFiniteSet(Less(D, R, i)) /\ Cardinality(Less(D, R, i)) <= n - 1
    BY <2>1, <2>2, FS_Subset
  <2>4. Cardinality(Less(D, R, i)) \in Nat
    BY <2>3, FS_CardinalityType
  <2> QED
    BY <2>3, <2>4, <1>1
<1>3. ASSUME NEW i \in D, NEW j \in D, <<i, j>> \in R
      PROVE  rank[i] < rank[j]
  <2>1. Less(D, R, i) \subseteq Less(D, R, j)
    BY <1>3 DEF Less, StrictTotalOrder
  <2>2. i \in Less(D, R, j) /\ i \notin Less(D, R, i)
    BY <1>3 DEF Less, StrictTotalOrder
  <2>3. Cardinality(Less(D, R, i)) <= Cardinality(Less(D, R, j))
        /\ Cardinality(Less(D, R, i)) # Cardinality(Less(D, R, j))
    BY <2>1, <2>2, <1>2, FS_Subset
  <2> QED
    BY <2>3, <1>2
<1>4. ASSUME NEW i \in D, NEW j \in D, rank[i] = rank[j]
      PROVE  i = j
  <2>1. rank[i] \in Nat /\ rank[j] \in Nat
    BY <1>2
  <2>2. <<i, j>> \notin R /\ <<j, i>> \notin R
    BY <2>1, <1>3, <1>4
  <2> QED
    BY <2>2 DEF StrictTotalOrder
<1>5. \A i \in D : rank[i] \in 0 .. (n - 1)
  BY <1>2
<1>6. IsFiniteSet(0 .. (n - 1)) /\ Cardinality(0 .. (n - 1)) = n
  <2>1. Cardinality(0 .. (n - 1)) = IF 0 > n - 1 THEN 0 ELSE (n - 1) - 0 + 1
    BY <1>1, FS_Interval
  <2> QED
    BY <2>1, <1>1, FS_Interval
<1>7. rank \in Injection(D, 0 .. (n - 1))
  BY <1>4, <1>5 DEF Injection, IsInjective
<1>8. rank \in Surjection(D, 0 .. (n - 1))
  <2>1. Cardinality(D) = Cardinality(0 .. (n - 1))
    BY <1>6
  <2> HIDE DEF rank, n
  <2> QED
    BY <1>6, <1>7, <2>1, FS_Injection
<1>9. \A k \in 1 .. n : \E i \in D : rank[i] = k - 1
  <2> SUFFICES ASSUME NEW k \in 1 .. n PROVE \E i \in D : rank[i] = k - 1
    OBVIOUS
  <2>1. k - 1 \in 0 .. (n - 1)
    BY <1>1
  <2> HIDE DEF rank, n
  <2> QED
    BY <1>8, <2>1 DEF Surjection
<1>10. \A i \in D : rank[i] = Cardinality(Less(D, R, i))
  OBVIOUS
<1> HIDE DEF rank
<1> QED
  BY <1>4, <1>5, <1>9, <1>10

\* An element that has fewer before it comes before.
LEMMA FewerBefore ==
  ASSUME NEW D, IsFiniteSet(D), NEW R, StrictTotalOrder(D, R), NEW i \in D, NEW j \in D,
         Cardinality(Less(D, R, i)) < Cardinality(Less(D, R, j))
  PROVE  <<i, j>> \in R
<1>1. /\ Cardinality(Less(D, R, i)) \in Nat /\ Cardinality(Less(D, R, j)) \in Nat
      /\ IsFiniteSet(Less(D, R, i))
  <2>1. Less(D, R, i) \in SUBSET D /\ Less(D, R, j) \in SUBSET D
    BY DEF Less
  <2> QED
    BY <2>1, FS_Subset, FS_CardinalityType
<1>2. i # j
  BY <1>1
<1>3. ASSUME <<j, i>> \in R
      PROVE  FALSE
  <2>1. Less(D, R, j) \in SUBSET Less(D, R, i)
    BY <1>3 DEF Less, StrictTotalOrder
  <2>2. Cardinality(Less(D, R, j)) <= Cardinality(Less(D, R, i))
    BY <1>1, <2>1, FS_Subset
  <2> QED
    BY <1>1, <2>2
<1> QED
  BY <1>2, <1>3 DEF StrictTotalOrder

-----------------------------------------------------------------------------
(* The entries at the wanted places of a vector *)

\* The k-th place has k places up to itself, and every place is the k-th for some k.
LEMMA PlacesInOrder ==
  ASSUME NEW wanted \in SUBSET Int, IsFiniteSet(wanted)
  PROVE  /\ \A k \in 1 .. Cardinality(wanted) :
              /\ Place(wanted, k) \in wanted
              /\ Cardinality({j \in wanted : j <= Place(wanted, k)}) = k
         /\ \A i \in wanted : \E k \in 1 .. Cardinality(wanted) : Place(wanted, k) = i
<1> DEFINE R == {p \in wanted \X wanted : p[1] < p[2]}
           upto(i) == {j \in wanted : j <= i}
<1>1. StrictTotalOrder(wanted, R)
  <2>1. \A i, j \in wanted : <<i, j>> \in R <=> i < j
    OBVIOUS
  <2> HIDE DEF R
  <2>2. \A i \in wanted : <<i, i>> \notin R
    BY <2>1
  <2>3. \A i, j, k \in wanted : <<i, j>> \in R /\ <<j, k>> \in R => <<i, k>> \in R
    <3> TAKE i, j, k \in wanted
    <3>1. i < j /\ j < k => i < k
      OBVIOUS
    <3> QED
      BY <2>1, <3>1
  <2>4. \A i, j \in wanted : i # j => <<i, j>> \in R \/ <<j, i>> \in R
    BY <2>1
  <2> QED
    BY <2>2, <2>3, <2>4 DEF StrictTotalOrder
<1>2. ASSUME NEW i \in wanted
      PROVE  Cardinality(upto(i)) = Cardinality(Less(wanted, R, i)) + 1
  <2>0. ASSUME NEW j \in wanted
        PROVE  j <= i <=> <<j, i>> \in R \/ j = i
    <3>1. <<j, i>> \in R <=> j < i
      OBVIOUS
    <3> QED
      BY <3>1
  <2>1. upto(i) = Less(wanted, R, i) \cup {i}
    BY <2>0 DEF Less
  <2>2. Less(wanted, R, i) \subseteq wanted /\ i \notin Less(wanted, R, i)
    BY DEF Less
  <2>3. IsFiniteSet(Less(wanted, R, i))
    BY <2>2, FS_Subset
  <2> HIDE DEF R
  <2> QED
    BY <2>1, <2>2, <2>3, FS_AddElement
<1> HIDE DEF R
<1>3. /\ \A k \in 1 .. Cardinality(wanted) :
            \E i \in wanted : Cardinality(Less(wanted, R, i)) = k - 1
      /\ \A i, j \in wanted :
            Cardinality(Less(wanted, R, i)) = Cardinality(Less(wanted, R, j)) => i = j
      /\ \A i \in wanted :
            Cardinality(Less(wanted, R, i)) \in 0 .. (Cardinality(wanted) - 1)
  BY <1>1, Positions
<1>4. Cardinality(wanted) \in Nat
  BY FS_CardinalityType
<1>5. \A k \in 1 .. Cardinality(wanted) : \E i \in wanted : Cardinality(upto(i)) = k
  BY <1>2, <1>3
<1>6. \A i, j \in wanted : Cardinality(upto(i)) = Cardinality(upto(j)) => i = j
  BY <1>2, <1>3
<1>7. \A i \in wanted : Cardinality(upto(i)) \in 1 .. Cardinality(wanted)
  BY <1>2, <1>3, <1>4
<1>8. \A k : Place(wanted, k) = CHOOSE i \in wanted : Cardinality(upto(i)) = k
  BY DEF Place
<1>9. ASSUME NEW k \in 1 .. Cardinality(wanted)
      PROVE  Place(wanted, k) \in wanted /\ Cardinality(upto(Place(wanted, k))) = k
  BY <1>5, <1>8
<1> HIDE DEF upto
<1>10. ASSUME NEW i \in wanted
       PROVE  \E k \in 1 .. Cardinality(wanted) : Place(wanted, k) = i
  <2>1. PICK k \in 1 .. Cardinality(wanted) : Cardinality(upto(i)) = k
    BY <1>7
  <2>2. Place(wanted, k) \in wanted /\ Cardinality(upto(Place(wanted, k))) = k
    BY <1>9
  <2> QED
    BY <1>6, <2>1, <2>2
<1> QED
  BY <1>9, <1>10 DEF upto

\* Selected returns each wanted entry once, and nothing else.
LEMMA SelectedEntries ==
  ASSUME NEW vec, NEW wanted \in SUBSET Int, IsFiniteSet(wanted)
  PROVE  LET s == Selected(vec, wanted) IN
         /\ Cardinality(wanted) \in Nat
         /\ DOMAIN s = 1 .. Cardinality(wanted)
         /\ Len(s) = Cardinality(wanted)
         /\ \A k \in DOMAIN s : Place(wanted, k) \in wanted /\ s[k] = vec[Place(wanted, k)]
         /\ \A i \in wanted : \E k \in DOMAIN s : s[k] = vec[i]
         /\ \A k, l \in DOMAIN s : Place(wanted, k) = Place(wanted, l) => k = l
<1> DEFINE s == Selected(vec, wanted)
<1>1. Cardinality(wanted) \in Nat
  BY FS_CardinalityType
<1>2. DOMAIN s = 1 .. Cardinality(wanted) /\ Len(s) = Cardinality(wanted)
  BY <1>1 DEF Selected
<1>3. \A k \in DOMAIN s : Place(wanted, k) \in wanted /\ s[k] = vec[Place(wanted, k)]
  BY <1>2, PlacesInOrder DEF Selected
<1>4. \A i \in wanted : \E k \in DOMAIN s : s[k] = vec[i]
  BY <1>2, <1>3, PlacesInOrder
<1>5. \A k, l \in DOMAIN s : Place(wanted, k) = Place(wanted, l) => k = l
  <2> TAKE k, l \in DOMAIN s
  <2>1. /\ Cardinality({j \in wanted : j <= Place(wanted, k)}) = k
        /\ Cardinality({j \in wanted : j <= Place(wanted, l)}) = l
    BY <1>2, PlacesInOrder
  <2> QED
    BY <2>1
<1> QED
  BY <1>1, <1>2, <1>3, <1>4, <1>5

\* Selecting from a sequence gives a sequence with the same type of entries.
LEMMA SelectedIsSeq ==
  ASSUME NEW S, NEW vec \in Seq(S), NEW wanted \in SUBSET (DOMAIN vec)
  PROVE  /\ IsFiniteSet(wanted) /\ wanted \in SUBSET Int
         /\ Selected(vec, wanted) \in Seq(S)
<1>1. Len(vec) \in Nat /\ DOMAIN vec = 1 .. Len(vec)
  OBVIOUS
<1>2. IsFiniteSet(1 .. Len(vec))
  BY <1>1, FS_Interval
<1>3. IsFiniteSet(wanted) /\ wanted \in SUBSET Int
  BY <1>1, <1>2, FS_Subset
<1> DEFINE s == Selected(vec, wanted)
<1>4. /\ Cardinality(wanted) \in Nat
      /\ \A k \in 1 .. Cardinality(wanted) : Place(wanted, k) \in DOMAIN vec
  BY <1>3, PlacesInOrder, FS_CardinalityType
<1>5. \A k \in 1 .. Cardinality(wanted) : vec[Place(wanted, k)] \in S
  BY <1>1, <1>4
<1> QED
  BY <1>3, <1>4, <1>5 DEF Selected

\* A list of entries is a sequence of what it lists.
LEMMA ListIsSeq ==
  ASSUME NEW n \in Nat, NEW s, DOMAIN s = 1 .. n, s = [i \in 1 .. n |-> s[i]]
  PROVE  s \in Seq(ToSet(s)) /\ Len(s) = n
<1>1. \A i \in 1 .. n : s[i] \in ToSet(s)
  BY DEF ToSet
<1> HIDE DEF ToSet
<1>2. s \in [1 .. n -> ToSet(s)]
  BY <1>1
<1>3. s \in Seq(ToSet(s))
  BY <1>2
<1> QED
  BY <1>3

\* FlattenSeq concatenates step by step.
LEMMA FlattenSteps ==
  ASSUME NEW S, NEW seqs \in Seq(Seq(S)), Len(seqs) # 0
  PROVE  \E F : /\ F[1] = seqs[1]
                /\ \A i \in 2 .. Len(seqs) : F[i] = F[i - 1] \o seqs[i]
                /\ FlattenSeq(seqs) = F[Len(seqs)]
<1> DEFINE n == Len(seqs)
           body(f) == [i \in 1 .. n |-> IF i = 1 THEN seqs[i] ELSE f[i - 1] \o seqs[i]]
           F == CHOOSE f : f = body(f)
<1> HIDE DEF body, F
<1>1. n \in Nat /\ DOMAIN seqs = 1 .. n /\ \A i \in 1 .. n : seqs[i] \in Seq(S)
  OBVIOUS
<1> HIDE DEF n
<1>3. n # 0
  BY DEF n
<1>4. QED
  <2> DEFINE step == [p \in Nat \X Seq(S) |->
                        IF p[1] + 2 <= n THEN p[2] \o seqs[p[1] + 2] ELSE p[2]]
  <2>1. step \in [Nat \X Seq(S) -> Seq(S)]
    <3>1. ASSUME NEW k \in Nat, NEW s \in Seq(S), k + 2 <= n
          PROVE  s \o seqs[k + 2] \in Seq(S)
      BY <3>1, <1>1
    <3> QED
      BY <3>1
  <2>2. seqs[1] \in Seq(S)
    BY <1>1, <1>3
  <2>3. \A k \in Nat, s \in Seq(S) : k + 2 <= n => step[<<k, s>>] = s \o seqs[k + 2]
    OBVIOUS
  <2> HIDE DEF step
  <2>4. PICK h : Follows(h, Seq(S), seqs[1], step)
    BY <2>1, <2>2, Recursion, Zenon
  <2> DEFINE g == [i \in 1 .. n |-> h[i - 1]]
  <2>5. g = body(g)
    <3>1. ASSUME NEW i \in 1 .. n
          PROVE  g[i] = IF i = 1 THEN seqs[i] ELSE g[i - 1] \o seqs[i]
      <4>1. CASE i = 1
        BY <4>1, <2>4 DEF Follows
      <4>2. CASE i # 1
        <5>1. i - 2 \in Nat /\ (i - 2) + 1 = i - 1 /\ (i - 2) + 2 = i /\ i - 1 \in 1 .. n
          BY <4>2, <1>1
        <5>2. h[i - 1] = step[<<i - 2, h[i - 2]>>] /\ h[i - 2] \in Seq(S)
          BY <5>1, <2>4 DEF Follows
        <5>3. step[<<i - 2, h[i - 2]>>] = h[i - 2] \o seqs[(i - 2) + 2]
          <6>1. (i - 2) + 2 <= n
            BY <1>1
          <6> QED
            BY <5>1, <5>2, <6>1, <2>3, Zenon
        <5>4. g[i] = h[i - 1] /\ g[i - 1] = h[(i - 1) - 1] /\ (i - 1) - 1 = i - 2
          BY <5>1
        <5> QED
          BY <4>2, <5>1, <5>2, <5>3, <5>4, Zenon
      <4> QED
        BY <4>1, <4>2
    <3> QED
      BY <3>1 DEF body
  <2> HIDE DEF g
  <2>6. F = body(F)
    BY <2>5 DEF F
  <2>7. /\ F[1] = seqs[1]
        /\ \A i \in 2 .. n : F[i] = F[i - 1] \o seqs[i]
    <3>1. \A i \in 1 .. n : F[i] = IF i = 1 THEN seqs[i] ELSE F[i - 1] \o seqs[i]
      BY <2>6, Zenon DEF body
    <3>2. 1 \in 1 .. n /\ \A i \in 2 .. n : i \in 1 .. n /\ i # 1
      BY <1>1, <1>3
    <3> QED
      BY <3>1, <3>2, Zenon
  <2>8. FlattenSeq(seqs) = F[n]
    BY <1>3, Zenon DEF FlattenSeq, F, body, n
  <2> QED
    BY <2>7, <2>8 DEF n

\* A concatenation of sequences holds only what the sequences hold.
LEMMA FlattenIsSeq ==
  ASSUME NEW S, NEW seqs \in Seq(Seq(S))
  PROVE  FlattenSeq(seqs) \in Seq(S)
<1> DEFINE n == Len(seqs)
<1>1. n \in Nat /\ DOMAIN seqs = 1 .. n /\ \A i \in 1 .. n : seqs[i] \in Seq(S)
  OBVIOUS
<1>2. CASE n = 0
  <2>1. seqs = <<>>
    BY <1>2 DEF n
  <2>2. FlattenSeq(seqs) = seqs
    BY <1>2, Zenon DEF FlattenSeq, n
  <2>3. <<>> \in Seq(S)
    OBVIOUS
  <2> QED
    BY <2>1, <2>2, <2>3
<1>3. CASE n # 0
  <2>7. PICK F : /\ F[1] = seqs[1]
                 /\ \A i \in 2 .. n : F[i] = F[i - 1] \o seqs[i]
                 /\ FlattenSeq(seqs) = F[n]
    BY <1>3, FlattenSteps
  <2> HIDE DEF n
  <2> DEFINE T == {k \in Nat : k + 1 <= n => F[k + 1] \in Seq(S)}
  <2>8. 0 \in T
    BY <1>1, <1>3, <2>7
  <2>9. ASSUME NEW k \in Nat, k \in T, k + 2 <= n
        PROVE  F[k + 2] \in Seq(S)
    <3>1. k + 2 \in 2 .. n /\ (k + 2) - 1 = k + 1 /\ k + 2 \in 1 .. n
      BY <2>9, <1>1
    <3>2. F[k + 1] \in Seq(S)
      BY <2>9, <1>1
    <3>3. F[k + 2] = F[k + 1] \o seqs[k + 2]
      BY <3>1, <2>7, Zenon
    <3>4. seqs[k + 2] \in Seq(S)
      BY <3>1, <1>1
    <3> QED
      BY <3>2, <3>3, <3>4
  <2>10. \A k \in Nat : k \in T => k + 1 \in T
    BY <2>9
  <2>11. Nat \subseteq T
    <3> HIDE DEF T
    <3> QED
      BY <2>8, <2>10, Induction
  <2>12. n - 1 \in Nat /\ (n - 1) + 1 = n /\ (n - 1) + 1 <= n
    BY <1>1, <1>3
  <2>13. n - 1 \in T
    BY <2>11, <2>12, Zenon
  <2>15. F[n] \in Seq(S)
    BY <2>12, <2>13, Zenon
  <2> QED
    BY <2>7, <2>15
<1> QED
  BY <1>2, <1>3

\* SetToSeq returns the elements of a finite set, each once.
LEMMA SetToSeqEntries ==
  ASSUME NEW S, IsFiniteSet(S)
  PROVE  /\ SetToSeq(S) \in Seq(S)
         /\ Len(SetToSeq(S)) = Cardinality(S)
         /\ \A i, j \in DOMAIN SetToSeq(S) : SetToSeq(S)[i] = SetToSeq(S)[j] => i = j
<1> DEFINE n == Cardinality(S)
<1>1. n \in Nat /\ ExistsBijection(1 .. n, S)
  BY FS_CardinalityType
<1>2. \E f \in [1 .. n -> S] : IsInjective(f)
  BY <1>1 DEF ExistsBijection, Bijection, Injection
<1>3. SetToSeq(S) \in [1 .. n -> S] /\ IsInjective(SetToSeq(S))
  BY <1>2 DEF SetToSeq
<1> HIDE DEF n
<1> QED
  BY <1>1, <1>3 DEF IsInjective, n

\* What the concatenation of vectors holds, one of the vectors holds.
LEMMA FlattenEntries ==
  ASSUME NEW n \in Nat, NEW seqs, seqs = [k \in 1 .. n |-> seqs[k]],
         \A k \in 1 .. n : seqs[k] \in Seq(ToSet(seqs[k]))
  PROVE  /\ \A x \in ToSet(FlattenSeq(seqs)) : \E k \in 1 .. n : x \in ToSet(seqs[k])
         /\ FlattenSeq(seqs) \in Seq(ToSet(FlattenSeq(seqs)))
<1> DEFINE S == UNION {ToSet(seqs[k]) : k \in 1 .. n}
<1>1. \A k \in 1 .. n : ToSet(seqs[k]) \subseteq S
  OBVIOUS
<1>2. \A x \in S : \E k \in 1 .. n : x \in ToSet(seqs[k])
  OBVIOUS
<1> HIDE DEF S
<1>3. \A T : T \subseteq S => Seq(T) \subseteq Seq(S)
  OBVIOUS
<1>4. \A k \in 1 .. n : seqs[k] \in Seq(S)
  BY <1>1, <1>3
<1>5. seqs \in Seq(Seq(S))
  BY <1>4
<1>6. FlattenSeq(seqs) \in Seq(S)
  BY <1>5, FlattenIsSeq
<1> DEFINE flat == FlattenSeq(seqs)
<1> HIDE DEF flat
<1>7. \A i \in DOMAIN flat : flat[i] \in S
  BY <1>6 DEF flat
<1>8. flat \in Seq(ToSet(flat))
  <2>1. \A i \in DOMAIN flat : flat[i] \in ToSet(flat)
    BY DEF ToSet
  <2>2. flat \in [1 .. Len(flat) -> ToSet(flat)] /\ Len(flat) \in Nat
    BY <1>6, <2>1 DEF flat
  <2> QED
    BY <2>2
<1> QED
  BY <1>2, <1>7, <1>8 DEF flat, ToSet

-----------------------------------------------------------------------------
(* Quotients, and bits of quorum ids *)

\* A quotient is determined by its bounds.
LEMMA DivUnique ==
  ASSUME NEW b \in Nat \ {0}, NEW a \in Nat, NEW q \in Nat,
         b * q <= a, a < b * q + b
  PROVE  a \div b = q
  OBVIOUS

\* A quotient of naturals lies between 0 and the dividend.
LEMMA DivBounds ==
  ASSUME NEW b \in Nat \ {0}, NEW a \in Nat
  PROVE  /\ a \div b \in Nat
         /\ b * (a \div b) <= a
         /\ a \div b <= a
  <1>1. a \div b \in Nat /\ b * (a \div b) <= a
    OBVIOUS
  <1>2. b * (a \div b) >= a \div b
    BY <1>1
  <1> QED
    BY <1>1, <1>2

\* The recursion of the powers of two.
LEMMA Powers ==
  /\ Pow2[0] = 1
  /\ \A n \in Nat : Pow2[n] \in Nat \ {0} /\ Pow2[n + 1] = 2 * Pow2[n]
<1> DEFINE body(f) == [i \in Nat |-> IF i = 0 THEN 1 ELSE 2 * f[i - 1]]
           step == [p \in Nat \X Nat |-> 2 * p[2]]
<1>1. step \in [Nat \X Nat -> Nat] /\ \A k, x \in Nat : step[<<k, x>>] = 2 * x
  OBVIOUS
<1> HIDE DEF step
<1>2. PICK h : Follows(h, Nat, 1, step)
  <2>1. 1 \in Nat
    OBVIOUS
  <2> QED
    BY <1>1, <2>1, Recursion, Zenon
<1>3. h = body(h)
  <2>1. ASSUME NEW i \in Nat
        PROVE  h[i] = IF i = 0 THEN 1 ELSE 2 * h[i - 1]
    <3>1. CASE i # 0
      <4>1. i - 1 \in Nat /\ (i - 1) + 1 = i
        BY <3>1
      <4>2. h[i] = step[<<i - 1, h[i - 1]>>] /\ h[i - 1] \in Nat
        BY <4>1, <1>2 DEF Follows
      <4> QED
        BY <3>1, <4>1, <4>2, <1>1
    <3> QED
      BY <3>1, <1>2 DEF Follows
  <2> QED
    BY <2>1, <1>2 DEF Follows
<1>4. Pow2 = body(Pow2)
  <2>1. Pow2 = CHOOSE f : f = body(f)
    BY Zenon DEF Pow2
  <2> HIDE DEF body
  <2> QED
    BY <1>3, <2>1
<1>5. Pow2[0] = 1 /\ \A n \in Nat : Pow2[n + 1] = 2 * Pow2[n]
  <2>1. \A i \in Nat : Pow2[i] = IF i = 0 THEN 1 ELSE 2 * Pow2[i - 1]
    BY <1>4
  <2>2. \A n \in Nat : n + 1 \in Nat /\ n + 1 # 0 /\ (n + 1) - 1 = n
    OBVIOUS
  <2>3. \A n \in Nat : Pow2[n + 1] = 2 * Pow2[n]
    BY <2>1, <2>2
  <2> QED
    BY <2>1, <2>3
<1> DEFINE T == {n \in Nat : Pow2[n] \in Nat \ {0}}
<1>6. 0 \in T /\ \A n \in Nat : n \in T => n + 1 \in T
  BY <1>5
<1>7. Nat \subseteq T
  <2> HIDE DEF T
  <2> QED
    BY <1>6, Induction
<1> QED
  BY <1>5, <1>7

\* Powers of two multiply as their exponents add.
LEMMA PowerOfSum ==
  \A i, j \in Nat : Pow2[i + j] = Pow2[i] * Pow2[j]
<1> TAKE i \in Nat
<1> DEFINE T == {j \in Nat : Pow2[i + j] = Pow2[i] * Pow2[j]}
<1>1. 0 \in T
  BY Powers
<1>2. ASSUME NEW j \in Nat, j \in T
      PROVE  j + 1 \in T
  <2>1. i + j \in Nat /\ i + (j + 1) = (i + j) + 1
    OBVIOUS
  <2>2. Pow2[i + (j + 1)] = 2 * Pow2[i + j] /\ Pow2[j + 1] = 2 * Pow2[j]
    BY <2>1, Powers
  <2>3. Pow2[i] \in Nat /\ Pow2[j] \in Nat
    BY Powers
  <2>4. Pow2[i + j] = Pow2[i] * Pow2[j]
    BY <1>2
  <2>5. 2 * (Pow2[i] * Pow2[j]) = Pow2[i] * (2 * Pow2[j])
    BY <2>3
  <2> QED
    BY <2>2, <2>4, <2>5
<1>3. Nat \subseteq T
  <2> HIDE DEF T
  <2> QED
    BY <1>1, <1>2, Induction
<1> QED
  BY <1>3

\* A number around its bit i: what is above the bit, the bit, and what is below
LEMMA AroundBit ==
  ASSUME NEW x \in Nat, NEW i \in Nat
  PROVE  /\ Bit(x, i) \in 0 .. 1
         /\ \E q \in Nat, r \in 0 .. (Pow2[i] - 1) :
              x = Pow2[i] * (2 * q + Bit(x, i)) + r
<1> DEFINE p == Pow2[i]
           y == x \div p
<1>1. p \in Nat \ {0}
  BY Powers
<1>2. Bit(x, i) = y % 2
  BY DEF Bit
<1> HIDE DEF p
<1>3. y \in Nat /\ x % p \in 0 .. (p - 1) /\ x = p * y + (x % p)
  BY <1>1
<1> HIDE DEF y
<1>4. y % 2 \in 0 .. 1 /\ y \div 2 \in Nat /\ y = 2 * (y \div 2) + (y % 2)
  BY <1>3
<1>5. x = p * (2 * (y \div 2) + Bit(x, i)) + (x % p)
  BY <1>2, <1>3, <1>4
<1> QED
  BY <1>2, <1>3, <1>4, <1>5 DEF p

\* The bit of a number that is given by its parts
LEMMA BitOfParts ==
  ASSUME NEW i \in Nat, NEW q \in Nat, NEW b \in 0 .. 1, NEW r \in 0 .. (Pow2[i] - 1),
         NEW x, x = Pow2[i] * (2 * q + b) + r
  PROVE  x \in Nat /\ Bit(x, i) = b
<1>1. Pow2[i] \in Nat \ {0}
  BY Powers
<1> DEFINE y == 2 * q + b
<1>2. y \in Nat /\ y % 2 = b
  OBVIOUS
<1> HIDE DEF y
<1>3. Pow2[i] * y \in Nat
  BY <1>1, <1>2
<1>4. x = Pow2[i] * y + r
  BY DEF y
<1>5. x \in Nat /\ Pow2[i] * y <= x /\ x < Pow2[i] * y + Pow2[i]
  BY <1>1, <1>3, <1>4
<1>6. x \div Pow2[i] = y
  BY <1>1, <1>2, <1>5, DivUnique
<1> QED
  BY <1>2, <1>5, <1>6 DEF Bit

\* Flipping a bit stays within the width, changes the bit, and is undone by
\* flipping it again.
LEMMA Flipping ==
  ASSUME NEW d \in Nat, NEW x \in 0 .. (Pow2[d] - 1), NEW i \in 0 .. (d - 1)
  PROVE  /\ FlipBit(x, i) \in 0 .. (Pow2[d] - 1)
         /\ Bit(FlipBit(x, i), i) = 1 - Bit(x, i)
         /\ FlipBit(FlipBit(x, i), i) = x
<1> DEFINE p == Pow2[i]
           b == Bit(x, i)
<1>1. p \in Nat \ {0} /\ Pow2[d] \in Nat \ {0} /\ x \in Nat
  BY Powers
<1>2. b \in 0 .. 1 /\ \E q \in Nat, r \in 0 .. (p - 1) : x = p * (2 * q + b) + r
  <2>1. x \in Nat /\ i \in Nat
    BY <1>1
  <2> QED
    BY <2>1, AroundBit, Zenon
<1>3. PICK q \in Nat, r \in 0 .. (p - 1) : x = p * (2 * q + b) + r
  BY <1>2
<1>4. FlipBit(x, i) = x + ((1 - b) - b) * p
  BY DEF FlipBit, WithBit
<1>5. \A z : FlipBit(z, i) = z + ((1 - Bit(z, i)) - Bit(z, i)) * p
  BY DEF FlipBit, WithBit
<1>6. \E m \in Nat \ {0} : Pow2[d] = p * (2 * m)
  <2>1. d - 1 - i \in Nat /\ i + (d - 1 - i) = d - 1 /\ d - 1 \in Nat /\ (d - 1) + 1 = d
    OBVIOUS
  <2>2. Pow2[d - 1] = p * Pow2[d - 1 - i]
    <3>1. i \in Nat
      OBVIOUS
    <3>2. Pow2[i + (d - 1 - i)] = Pow2[i] * Pow2[d - 1 - i]
      BY <2>1, <3>1, PowerOfSum, Zenon
    <3> QED
      BY <2>1, <3>2
  <2>5. Pow2[d] = 2 * Pow2[d - 1]
    <3>1. Pow2[(d - 1) + 1] = 2 * Pow2[d - 1]
      BY <2>1, Powers, Zenon
    <3> QED
      BY <2>1, <3>1
  <2>3. Pow2[d - 1 - i] \in Nat \ {0}
    BY <2>1, Powers
  <2>4. 2 * (p * Pow2[d - 1 - i]) = p * (2 * Pow2[d - 1 - i])
    BY <1>1, <2>3
  <2> QED
    BY <2>2, <2>3, <2>4, <2>5
<1>7. PICK m \in Nat \ {0} : Pow2[d] = p * (2 * m)
  BY <1>6
<1>8. FlipBit(x, i) = p * (2 * q + (1 - b)) + r
  <2> HIDE DEF p, b
  <2>1. p * (2 * q + b) + r + ((1 - b) - b) * p = p * (2 * q + (1 - b)) + r
    BY <1>1, <1>2
  <2> QED
    BY <1>3, <1>4, <2>1
<1>9. Bit(FlipBit(x, i), i) = 1 - b /\ FlipBit(x, i) \in Nat
  <2>1. 1 - b \in 0 .. 1
    BY <1>2
  <2> QED
    BY <1>8, <2>1, BitOfParts
<1>10. FlipBit(FlipBit(x, i), i) = x
  <2>1. FlipBit(FlipBit(x, i), i) = FlipBit(x, i) + ((1 - (1 - b)) - (1 - b)) * p
    BY <1>5, <1>9
  <2> HIDE DEF p, b
  <2>2. (1 - (1 - b)) - (1 - b) = b - (1 - b)
    BY <1>2
  <2>3. p * (2 * q + (1 - b)) + r + (b - (1 - b)) * p = p * (2 * q + b) + r
    BY <1>1, <1>2
  <2> QED
    BY <2>1, <2>2, <2>3, <1>3, <1>8
<1>11. FlipBit(x, i) <= Pow2[d] - 1
  <2> HIDE DEF p, b
  <2>1. q <= m - 1
    <3>1. p * (2 * q) <= x
      BY <1>1, <1>2, <1>3
    <3>2. p * (2 * q) < p * (2 * m)
      BY <1>1, <1>7, <3>1
    <3> QED
      BY <1>1, <3>2
  <2>2. p * (2 * q + (1 - b)) + r <= p * (2 * q + 1) + (p - 1)
    BY <1>1, <1>2
  <2>3. p * (2 * q + 1) + (p - 1) = p * (2 * (q + 1)) - 1
    BY <1>1
  <2>4. p * (2 * (q + 1)) <= p * (2 * m)
    BY <1>1, <2>1
  <2> QED
    BY <1>1, <1>7, <1>8, <1>9, <2>2, <2>3, <2>4
<1> QED
  BY <1>1, <1>9, <1>10, <1>11

-----------------------------------------------------------------------------
(* x | y *)

\* Powers of two grow with their exponents.
LEMMA PowersGrow ==
  ASSUME NEW i \in Nat, NEW j \in Nat, i <= j
  PROVE  Pow2[i] <= Pow2[j]
<1>1. j - i \in Nat /\ i + (j - i) = j
  OBVIOUS
<1>2. Pow2[i + (j - i)] = Pow2[i] * Pow2[j - i]
  BY <1>1, PowerOfSum, Zenon
<1>3. Pow2[i] \in Nat \ {0} /\ Pow2[j - i] \in Nat \ {0} /\ Pow2[j] = Pow2[i] * Pow2[j - i]
  <2>1. Pow2[i] \in Nat \ {0} /\ Pow2[j - i] \in Nat \ {0}
    BY <1>1, Powers
  <2> QED
    BY <1>1, <1>2, <2>1
<1> DEFINE p == Pow2[i]
           q == Pow2[j - i]
<1>4. p \in Nat \ {0} /\ q \in Nat \ {0} /\ Pow2[j] = p * q
  BY <1>3
<1> HIDE DEF p, q
<1>5. p <= p * q
  BY <1>4
<1> QED
  BY <1>4, <1>5 DEF p

\* A number has no bits above its width.
LEMMA NoBitAbove ==
  ASSUME NEW m \in Nat, NEW x \in 0 .. (Pow2[m] - 1), NEW k \in Nat, m <= k
  PROVE  Bit(x, k) = 0
<1>1. Pow2[m] \in Nat \ {0} /\ Pow2[k] \in Nat \ {0} /\ Pow2[m] <= Pow2[k]
  BY Powers, PowersGrow
<1>2. x \div Pow2[k] = 0
  <2>1. x \in Nat /\ 0 \in Nat /\ Pow2[k] * 0 <= x /\ x < Pow2[k] * 0 + Pow2[k]
    BY <1>1
  <2> QED
    BY <1>1, <2>1, DivUnique
<1> QED
  BY <1>2 DEF Bit

\* A multiple of a power of two has no bits below.
LEMMA NoBitBelow ==
  ASSUME NEW m \in Nat, NEW a \in Nat, NEW k \in 0 .. (m - 1)
  PROVE  Bit(a * Pow2[m], k) = 0
<1>1. k \in Nat /\ m - 1 - k \in Nat /\ m - 1 \in Nat /\ (m - 1) + 1 = m /\ k + (m - 1 - k) = m - 1
  OBVIOUS
<1>2. Pow2[m] = 2 * (Pow2[k] * Pow2[m - 1 - k])
  <2>1. Pow2[m] = 2 * Pow2[m - 1]
    BY <1>1, Powers, Zenon
  <2>2. Pow2[k + (m - 1 - k)] = Pow2[k] * Pow2[m - 1 - k]
    BY <1>1, PowerOfSum, Zenon
  <2> QED
    BY <1>1, <2>1, <2>2
<1> DEFINE p == Pow2[k]
           q == Pow2[m - 1 - k]
<1>3. p \in Nat \ {0} /\ q \in Nat \ {0} /\ Pow2[m] = 2 * (p * q)
  BY <1>1, <1>2, Powers
<1> HIDE DEF q
<1>4. a * q \in Nat
  BY <1>3
<1>5. a * Pow2[m] = Pow2[k] * (2 * (a * q) + 0) + 0
  <2> HIDE DEF p
  <2>1. a * (2 * (p * q)) = p * (2 * (a * q))
    BY <1>3
  <2>2. p * (2 * (a * q)) = p * (2 * (a * q) + 0) + 0
    BY <1>3, <1>4
  <2> QED
    BY <1>3, <2>1, <2>2 DEF p
<1>6. 0 \in 0 .. 1 /\ 0 \in 0 .. (Pow2[k] - 1)
  BY <1>3
<1> QED
  BY <1>1, <1>4, <1>5, <1>6, BitOfParts

\* A quotient and a remainder are determined by their bounds.
LEMMA ModUnique ==
  ASSUME NEW b \in Nat \ {0}, NEW a \in Nat, NEW q \in Nat, NEW r \in 0 .. (b - 1), a = b * q + r
  PROVE  a \div b = q /\ a % b = r
<1>1. b * q \in Nat
  OBVIOUS
<1>2. a \div b = q
  BY <1>1, DivUnique
<1>3. a = b * (a \div b) + (a % b) /\ a % b \in Int
  OBVIOUS
<1> QED
  BY <1>1, <1>2, <1>3

\* The part of a number below a bit
Low(x, k) == x % Pow2[k]

\* That part with and without the bit
LEMMA LowParts ==
  ASSUME NEW x \in Nat, NEW k \in Nat
  PROVE  /\ Bit(x, k) \in 0 .. 1
         /\ Low(x, k) \in Nat
         /\ Low(x, k + 1) = Low(x, k) + Bit(x, k) * Pow2[k]
         /\ Low(x, 0) = 0
         /\ x < Pow2[k] => Low(x, k) = x
<1> DEFINE p == Pow2[k]
           b == Bit(x, k)
<1>1. p \in Nat \ {0} /\ Pow2[k + 1] = 2 * p
  BY Powers
<1>2. b \in 0 .. 1 /\ \E q \in Nat, r \in 0 .. (p - 1) : x = p * (2 * q + b) + r
  BY AroundBit, Zenon
<1>3. PICK q \in Nat, r \in 0 .. (p - 1) : x = p * (2 * q + b) + r
  BY <1>2
<1> HIDE DEF p, b
<1> DEFINE y == 2 * q + b
<1>4. y \in Nat /\ x = p * y + r
  BY <1>2, <1>3
<1> HIDE DEF y
<1>5. x % p = r
  BY <1>1, <1>3, <1>4, ModUnique
<1>6. x % (2 * p) = r + b * p
  <2>1. r + b * p \in 0 .. (2 * p - 1)
    <3>1. b = 0 \/ b = 1
      BY <1>2
    <3> QED
      BY <1>1, <1>3, <3>1
  <2>2. x = (2 * p) * q + (r + b * p)
    BY <1>1, <1>2, <1>3
  <2>3. 2 * p \in Nat \ {0} /\ (2 * p) * q \in Nat
    BY <1>1
  <2> QED
    BY <2>1, <2>2, <2>3, ModUnique
<1> QED
  <2>1. Low(x, k + 1) = Low(x, k) + Bit(x, k) * Pow2[k] /\ Low(x, k) \in Nat
    BY <1>1, <1>3, <1>5, <1>6 DEF p, b, Low
  <2>2. Low(x, 0) = 0
    BY Powers DEF Low
  <2>3. ASSUME x < Pow2[k]
        PROVE  Low(x, k) = x
    <3>1. x \in 0 .. (p - 1) /\ x = p * 0 + x /\ 0 \in Nat
      BY <1>1, <2>3 DEF p
    <3> QED
      BY <1>1, <3>1, ModUnique DEF Low, p
  <2> QED
    BY <1>2, <2>1, <2>2, <2>3 DEF b

\* What bit k adds to x | y
OrBit(x, y, k) == IF Bit(x, k) = 0 /\ Bit(y, k) = 0 THEN 0 ELSE Pow2[k]

OrUpto(low, x, y, width) ==
  /\ low \in [0 .. width -> Nat] /\ low[0] = 0
  /\ \A k \in Nat : k + 1 <= width => low[k + 1] = low[k] + OrBit(x, y, k)
  /\ BitOr(x, y, width) = low[width]

\* x | y is the last of a sequence that takes one bit after the other.
LEMMA OrSteps ==
  ASSUME NEW x, NEW y, NEW width \in Nat
  PROVE  \E low : OrUpto(low, x, y, width)
<1> DEFINE body(f) == [k \in 0 .. width |->
                         IF k = 0 THEN 0
                         ELSE f[k - 1] + (IF Bit(x, k - 1) = 0 /\ Bit(y, k - 1) = 0 THEN 0 ELSE Pow2[k - 1])]
           low == CHOOSE f : f = body(f)
           step == [p \in Nat \X Nat |-> p[2] + OrBit(x, y, p[1])]
<1>1. \A k \in Nat : OrBit(x, y, k) \in Nat
  BY Powers DEF OrBit
<1>2. step \in [Nat \X Nat -> Nat] /\ \A k, z \in Nat : step[<<k, z>>] = z + OrBit(x, y, k)
  BY <1>1
<1> HIDE DEF step
<1>3. PICK g : Loops(g, Nat, 0, step, width)
  <2>1. 0 \in Nat
    OBVIOUS
  <2> QED
    BY <1>2, <2>1, BoundedRecursion, Zenon
<1>4. \A k \in 1 .. width : g[k] = g[k - 1] + OrBit(x, y, k - 1)
  <2>1. ASSUME NEW k \in 1 .. width
        PROVE  g[k] = g[k - 1] + OrBit(x, y, k - 1)
    <3>1. k - 1 \in Nat /\ k - 1 \in 0 .. width
      OBVIOUS
    <3>2. g[k - 1] \in Nat /\ g[k] = step[<<k - 1, g[k - 1]>>]
      BY <1>3, <3>1 DEF Loops
    <3> QED
      BY <1>2, <3>1, <3>2, Zenon
  <2> QED
    BY <2>1
<1>5. g = body(g)
  <2>1. ASSUME NEW k \in 0 .. width
        PROVE  g[k] = IF k = 0 THEN 0
                      ELSE g[k - 1] + (IF Bit(x, k - 1) = 0 /\ Bit(y, k - 1) = 0 THEN 0 ELSE Pow2[k - 1])
    <3>1. CASE k = 0
      BY <1>3, <3>1 DEF Loops
    <3>2. CASE k # 0
      <4>1. k \in 1 .. width
        BY <3>2
      <4> QED
        BY <1>4, <3>2, <4>1, Zenon DEF OrBit
    <3> QED
      BY <3>1, <3>2
  <2>2. g = [k \in 0 .. width |-> g[k]]
    BY <1>3 DEF Loops
  <2> QED
    BY <2>1, <2>2, Zenon
<1>6. low = body(low)
  <2> HIDE DEF body
  <2> QED
    BY <1>5
<1>7. BitOr(x, y, width) = low[width]
  BY Zenon DEF BitOr
<1> HIDE DEF low
<1>8. low[0] = 0 /\ \A k \in 1 .. width : low[k] = low[k - 1] + OrBit(x, y, k - 1)
  <2>1. \A k \in 0 .. width :
          low[k] = IF k = 0 THEN 0
                   ELSE low[k - 1] + (IF Bit(x, k - 1) = 0 /\ Bit(y, k - 1) = 0 THEN 0 ELSE Pow2[k - 1])
    BY <1>6, Zenon
  <2>2. 0 \in 0 .. width /\ \A k \in 1 .. width : k \in 0 .. width /\ k # 0
    OBVIOUS
  <2> QED
    BY <2>1, <2>2, Zenon DEF OrBit
<1>9. \A k \in Nat : k + 1 <= width => low[k + 1] = low[k] + OrBit(x, y, k)
  <2>1. \A k \in Nat : k + 1 <= width => k + 1 \in 1 .. width /\ (k + 1) - 1 = k
    OBVIOUS
  <2> QED
    BY <1>8, <2>1
<1>10. low \in [0 .. width -> Nat]
  <2> DEFINE T == {k \in Nat : k <= width => low[k] \in Nat}
  <2>1. 0 \in T
    BY <1>8
  <2>2. ASSUME NEW k \in Nat, k \in T, k + 1 <= width
        PROVE  low[k + 1] \in Nat
    <3>1. low[k + 1] = low[k] + OrBit(x, y, k) /\ low[k] \in Nat /\ OrBit(x, y, k) \in Nat
      BY <1>1, <1>9, <2>2
    <3> QED
      BY <3>1
  <2>3. \A k \in Nat : k \in T => k + 1 \in T
    BY <2>2
  <2>6. Nat \subseteq T
    <3> HIDE DEF T
    <3> QED
      BY <2>1, <2>3, Induction
  <2>4. \A k \in 0 .. width : low[k] \in Nat
    BY <2>6
  <2>5. low = [k \in 0 .. width |-> low[k]]
    BY <1>6
  <2> HIDE DEF T
  <2> QED
    BY <2>4, <2>5
<1> QED
  BY <1>7, <1>8, <1>9, <1>10, Zenon DEF OrUpto

\* x | y has no bits above those of x and y, and is no less than either.
LEMMA OrBounds ==
  ASSUME NEW width \in Nat, NEW m \in 0 .. width,
         NEW x \in 0 .. (Pow2[m] - 1), NEW y \in 0 .. (Pow2[m] - 1)
  PROVE  /\ BitOr(x, y, width) \in 0 .. (Pow2[m] - 1)
         /\ x <= BitOr(x, y, width) /\ y <= BitOr(x, y, width)
<1>0. PICK low : OrUpto(low, x, y, width)
  BY OrSteps, Zenon
<1>1. /\ low \in [0 .. width -> Nat] /\ low[0] = 0
      /\ \A k \in Nat : k + 1 <= width => low[k + 1] = low[k] + OrBit(x, y, k)
      /\ BitOr(x, y, width) = low[width]
  BY <1>0, Zenon DEF OrUpto
<1>2. m \in Nat /\ x \in Nat /\ y \in Nat /\ \A k \in Nat : Pow2[k] \in Nat \ {0}
  BY Powers
<1> DEFINE Bounded(k) == low[k] < Pow2[k] /\ low[k] < Pow2[m]
           Above(z, k) == Low(z, k) <= low[k]
           T == {k \in Nat : k <= width => Bounded(k) /\ Above(x, k) /\ Above(y, k)}
<1>3. 0 \in T
  <2>1. Low(x, 0) = 0 /\ Low(y, 0) = 0 /\ Pow2[0] = 1
    BY <1>2, LowParts, Powers
  <2> QED
    BY <1>1, <1>2, <2>1
<1>4. ASSUME NEW k \in Nat, k \in T, k + 1 <= width
      PROVE  Bounded(k + 1) /\ Above(x, k + 1) /\ Above(y, k + 1)
  <2>1. low[k + 1] = low[k] + OrBit(x, y, k) /\ low[k] \in Nat
    BY <1>1, <1>4
  <2>2. Bounded(k) /\ Above(x, k) /\ Above(y, k)
    BY <1>4
  <2>3. Pow2[k] \in Nat \ {0} /\ Pow2[m] \in Nat /\ Pow2[k + 1] = 2 * Pow2[k]
    BY <1>2, Powers
  <2>4. /\ Bit(x, k) \in 0 .. 1 /\ Low(x, k) \in Nat
        /\ Low(x, k + 1) = Low(x, k) + Bit(x, k) * Pow2[k]
        /\ Bit(y, k) \in 0 .. 1 /\ Low(y, k) \in Nat
        /\ Low(y, k + 1) = Low(y, k) + Bit(y, k) * Pow2[k]
    BY <1>2, <2>3, LowParts
  <2>5. Above(x, k + 1) /\ Above(y, k + 1)
    <3>1. Bit(x, k) \in 0 .. 1 /\ Bit(y, k) \in 0 .. 1
      BY <2>4
    <3>2. OrBit(x, y, k) = IF Bit(x, k) = 0 /\ Bit(y, k) = 0 THEN 0 ELSE Pow2[k]
      BY DEF OrBit
    <3>3. Bit(x, k) * Pow2[k] <= OrBit(x, y, k) /\ Bit(y, k) * Pow2[k] <= OrBit(x, y, k)
      BY <2>3, <3>1, <3>2
    <3>4. Bit(x, k) * Pow2[k] \in Nat /\ Bit(y, k) * Pow2[k] \in Nat /\ OrBit(x, y, k) \in Nat
      BY <2>3, <3>1, <3>2
    <3> HIDE DEF Bounded
    <3> QED
      BY <2>1, <2>2, <2>4, <3>3, <3>4
  <2>6. low[k + 1] < Pow2[k + 1]
    BY <2>1, <2>2, <2>3 DEF OrBit
  <2>7. low[k + 1] < Pow2[m]
    <3>1. CASE k + 1 <= m
      <4>1. Pow2[k + 1] <= Pow2[m]
        BY <1>2, <3>1, PowersGrow
      <4> QED
        BY <2>1, <2>3, <2>6, <4>1 DEF OrBit
    <3>2. CASE m <= k
      <4>1. Bit(x, k) = 0 /\ Bit(y, k) = 0
        BY <1>2, <3>2, NoBitAbove
      <4>2. low[k + 1] = low[k]
        BY <2>1, <4>1 DEF OrBit
      <4> QED
        BY <2>2, <4>2
    <3> QED
      BY <1>2, <3>1, <3>2
  <2> QED
    BY <2>5, <2>6, <2>7
<1>5. \A k \in Nat : k \in T => k + 1 \in T
  BY <1>4
<1>6. Nat \subseteq T
  <2> HIDE DEF T
  <2> QED
    BY <1>3, <1>5, Induction
<1>7. Bounded(width) /\ Above(x, width) /\ Above(y, width)
  BY <1>6
<1>8. x < Pow2[width] /\ y < Pow2[width]
  BY <1>2, PowersGrow
<1>9. Low(x, width) = x /\ Low(y, width) = y
  BY <1>2, <1>8, LowParts
<1> QED
  BY <1>1, <1>2, <1>7, <1>9

\* x | y is a sum if y lies below all bits of x.
LEMMA OrAdds ==
  ASSUME NEW width \in Nat, NEW m \in Nat, NEW a \in Nat, a * Pow2[m] < Pow2[width],
         NEW y \in 0 .. (Pow2[m] - 1), y < Pow2[width]
  PROVE  BitOr(a * Pow2[m], y, width) = a * Pow2[m] + y
<1> DEFINE x == a * Pow2[m]
<1>0. PICK low : OrUpto(low, x, y, width)
  BY OrSteps, Zenon
<1>1. /\ low \in [0 .. width -> Nat] /\ low[0] = 0
      /\ \A k \in Nat : k + 1 <= width => low[k + 1] = low[k] + OrBit(x, y, k)
      /\ BitOr(x, y, width) = low[width]
  BY <1>0, Zenon DEF OrUpto
<1>2. x \in Nat /\ y \in Nat /\ \A k \in Nat : Pow2[k] \in Nat \ {0}
  BY Powers
<1>3. \A k \in Nat : Bit(x, k) = 0 \/ Bit(y, k) = 0
  <2>1. ASSUME NEW k \in Nat, k < m
        PROVE  Bit(x, k) = 0
    BY <2>1, NoBitBelow
  <2>2. ASSUME NEW k \in Nat, m <= k
        PROVE  Bit(y, k) = 0
    BY <2>2, NoBitAbove
  <2> HIDE DEF x
  <2> QED
    BY <2>1, <2>2
<1> HIDE DEF x
<1> DEFINE T == {k \in Nat : k <= width => low[k] = Low(x, k) + Low(y, k)}
<1>4. 0 \in T
  <2>1. Low(x, 0) = 0 /\ Low(y, 0) = 0 /\ Pow2[0] = 1
    BY <1>2, LowParts, Powers
  <2> QED
    BY <1>1, <2>1
<1>5. ASSUME NEW k \in Nat, k \in T, k + 1 <= width
      PROVE  low[k + 1] = Low(x, k + 1) + Low(y, k + 1)
  <2>1. low[k + 1] = low[k] + OrBit(x, y, k) /\ low[k] = Low(x, k) + Low(y, k)
    BY <1>1, <1>5
  <2>2. /\ Bit(x, k) \in 0 .. 1 /\ Low(x, k) \in Nat
        /\ Low(x, k + 1) = Low(x, k) + Bit(x, k) * Pow2[k]
        /\ Bit(y, k) \in 0 .. 1 /\ Low(y, k) \in Nat
        /\ Low(y, k + 1) = Low(y, k) + Bit(y, k) * Pow2[k]
    BY <1>2, LowParts
  <2>3. OrBit(x, y, k) = Bit(x, k) * Pow2[k] + Bit(y, k) * Pow2[k]
    <3>1. Bit(x, k) \in 0 .. 1 /\ Bit(y, k) \in 0 .. 1 /\ (Bit(x, k) = 0 \/ Bit(y, k) = 0)
      BY <1>3, <2>2
    <3> QED
      BY <1>2, <3>1 DEF OrBit
  <2>4. Bit(x, k) * Pow2[k] \in Nat /\ Bit(y, k) * Pow2[k] \in Nat
    BY <1>2, <2>2
  <2> QED
    BY <2>1, <2>2, <2>3, <2>4
<1>6. \A k \in Nat : k \in T => k + 1 \in T
  BY <1>5
<1>7. Nat \subseteq T
  <2> HIDE DEF T
  <2> QED
    BY <1>4, <1>6, Induction
<1>8. low[width] = Low(x, width) + Low(y, width)
  BY <1>7
<1>9. Low(x, width) = x /\ Low(y, width) = y
  <2>1. x < Pow2[width]
    BY DEF x
  <2> QED
    BY <1>2, <2>1, LowParts
<1> QED
  BY <1>1, <1>8, <1>9 DEF x
=============================================================================
