---------------------------- MODULE RoutingScheme ----------------------------
(***************************************************************************)
(* The routing scheme: one hop of the tuples a quorum holds.  A tuple is a *)
(* RoutingSchemeTuple; std::sort is modelled by a stable sort, one of the  *)
(* orders it may leave equivalent tuples in.                               *)
(***************************************************************************)
EXTENDS OverlayScheme, Vectors, SequencesExt

CONSTANTS
  kRecv,                     \* messages a pseudonym receives per round
  IntermediateTarget(_, _),  \* the keyed hash of (bucket_dst, l_dst) on Quorums
  Rank(_)                    \* the position of a pseudonym in their byte order

\* What the code compares to tell the target buckets of two tuples apart
Bucket(s) == <<s.onid_dst, s.bucket_dst, s.l_dst, s.onid_current>>

SortKey(s) ==
  <<s.onid_dst, Rank(s.bucket_dst), s.l_dst, s.onid_current, s.m.t_dst>>

\* operator< of RoutingSchemeTuple: std::tie compares lexicographically
Precedes(a, b) ==
  LET x == SortKey(a)
      y == SortKey(b)
  IN  \E i \in 1 .. 5 : x[i] < y[i] /\ \A j \in 1 .. (i - 1) : x[j] = y[j]

\* The tuple at j comes before the one at i in the sorted vector.
Before(set_s, j, i) ==
  \/ Precedes(set_s[j], set_s[i])
  \/ ~Precedes(set_s[i], set_s[j]) /\ j < i

Sorted(set_s) ==
  [k \in 1 .. Len(set_s) |->
     set_s[CHOOSE i \in DOMAIN set_s :
             Cardinality({j \in DOMAIN set_s : Before(set_s, j, i)}) = k - 1]]

(* prev_element is a reference to the first entry of the sorted vector, so *)
(* that "prev_element = set_s.at(i)" at each change of bucket overwrites   *)
(* that entry.  A scan carries the vector, the index at which the current  *)
(* group starts and the buckets marked so far.                             *)
ScanStep(scan, i) ==
  LET prev    == scan.vec[1]
      elem    == scan.vec[i]
      marked  == IF is_cancel(elem.m.t_dst) THEN {Bucket(prev)} ELSE {}
      changed == Bucket(prev) # Bucket(elem)
      full    == IF changed /\ i - scan.start > kRecv THEN {Bucket(prev)} ELSE {}
  IN  [vec    |-> IF changed THEN [scan.vec EXCEPT ![1] = elem] ELSE scan.vec,
       start  |-> IF changed THEN i ELSE scan.start,
       cancel |-> scan.cancel \cup marked \cup full]

Scan(set_s) ==
  LET vec == Sorted(set_s)
      upto[i \in 0 .. Len(vec)] ==
        IF i = 0 THEN [vec |-> vec, start |-> 1, cancel |-> {}]
                 ELSE ScanStep(upto[i - 1], i)
  IN  upto[Len(vec)]

\* determine_elements_to_be_cancelled(): the buckets to be cancelled
determine_elements_to_be_cancelled(set_s) == Scan(set_s).cancel

\* Mutant: the hops of a message are counted from the round it is injected in.
HopIndexFromStart(s, cur_round) == WSub(2 * Dimension + 3, WSub(s.l_dst, cur_round))

\* i = 1 + 2 * overlay_dimension - (l_dst - cur_round), in 64 bits
HopIndex(s, cur_round) == WSub(1 + 2 * Dimension, WSub(s.l_dst, cur_round))

\* Both asserts of route()
HopInRange(s, cur_round) == HopIndex(s, cur_round) \in 1 .. (2 * Dimension)

\* The quorum a tuple is sent to next
NextQuorum(s, cur_round) ==
  LET i == HopIndex(s, cur_round)
  IN  IF i <= Dimension
      THEN WithBit(s.onid_current, i, Bit(IntermediateTarget(s.bucket_dst, s.l_dst), i))
      ELSE WithBit(s.onid_current, i, Bit(s.onid_dst, i - Dimension))

\* The tuples that are not cancelled, in the order route() visits them
Kept(set_s) ==
  LET scan == Scan(set_s)
  IN  Selected(scan.vec, {i \in DOMAIN scan.vec : Bucket(scan.vec[i]) \notin scan.cancel})

\* route() runs into an assert
RouteAborts(set_s, cur_round) ==
  \E i \in 1 .. Len(Kept(set_s)) : ~HopInRange(Kept(set_s)[i], cur_round)

route(set_s, cur_round) ==
  LET kept == Kept(set_s)
  IN  [i \in 1 .. Len(kept) |->
         [kept[i] EXCEPT !.onid_current = NextQuorum(kept[i], cur_round)]]
=============================================================================
