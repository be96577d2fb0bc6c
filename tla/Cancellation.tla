----------------------------- MODULE Cancellation -----------------------------
(***************************************************************************)
(* determine_elements_to_be_cancelled() on the tuples that a quorum injects*)
(* in one round: they are due in the same round, and each has the quorum   *)
(* its sender is associated with and the pseudonym of its receiver.        *)
(***************************************************************************)
EXTENDS RoutingScheme

CONSTANTS
  Pseudonyms,     \* decrypted pseudonyms of receivers: their quorum and number
  MaxTuples       \* bound on the tuples of a round

VARIABLES
  set_s,          \* the tuples handed to route()
  cancelled       \* the buckets to be cancelled, once they are determined

vars == <<set_s, cancelled>>

Unknown == {"unknown"}

\* Values for the constants: two pseudonyms of one quorum, ranked by number;
\* the cancellation does not look at the keyed hash.
TwoPseudonyms == {[onid |-> 0, num |-> 0], [onid |-> 0, num |-> 1]}
NumberRank(pseudonym) == pseudonym.num
NoTarget(bucket, l) == 0

RoutingTuples ==
  {[m |-> [t_dst |-> t], onid_dst |-> n.onid, bucket_dst |-> n, l_dst |-> 2 * Dimension + 2,
    onid_current |-> o] : t \in 50 .. (50 + MaxTuples - 1), n \in Pseudonyms, o \in Quorums}

\* Of messages with the same t_dst a quorum injects only one.
Init ==
  /\ set_s \in {s \in BoundedSeq(RoutingTuples, MaxTuples) :
                 \A i, j \in DOMAIN s : s[i].m.t_dst = s[j].m.t_dst => i = j}
  /\ cancelled = Unknown

Determine ==
  /\ cancelled = Unknown
  /\ cancelled' = determine_elements_to_be_cancelled(set_s)
  /\ UNCHANGED set_s

Next == Determine

Spec == Init /\ [][Next]_vars

TuplesOf(bucket) == {i \in DOMAIN set_s : Bucket(set_s[i]) = bucket}

(* "messages that exceed k_receive for one target bucket are dropped": the *)
(* buckets with more than kRecv tuples are cancelled, whatever their place *)
(* in the order of the tuples, and no others (routing_scheme.h:28-30,      *)
(* routing_scheme.cpp:41-71).                                              *)
ExceedingDropped ==
  cancelled # Unknown =>
    cancelled = {b \in {Bucket(set_s[i]) : i \in DOMAIN set_s} :
                   Cardinality(TuplesOf(b)) > kRecv}
=============================================================================
