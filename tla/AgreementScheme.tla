--------------------------- MODULE AgreementScheme ---------------------------
(***************************************************************************)
(* The distributed agreement scheme: one run's state is the set S of peers *)
(* known to be aware of the message (set_s_i_).                            *)
(***************************************************************************)
EXTENDS Integers, FiniteSets

\* Mutant: a peer that is known to be aware announces itself again.
NewlyAwareAgain(S, aware, own_id) ==
  IF aware \/ S = {} \/ own_id \in S THEN {own_id} ELSE {}

\* The peers update() announces as aware (s_out)
NewlyAware(S, aware, own_id) ==
  IF aware \/ S = {} THEN {own_id} ELSE {}

\* set_s_i_ after update(): the peers reported by others (s_m) are added
\* only when the set was not empty to begin with.
Updated(S, aware, own_id, s_m) ==
  IF aware THEN S \cup {own_id} \cup s_m
  ELSE IF S = {} THEN {own_id}
  ELSE S \cup s_m

\* The <<receiver, aware peer>> pairs update() returns
Notifications(S, aware, participating_nodes, own_id) ==
  participating_nodes \X NewlyAware(S, aware, own_id)

\* finalize(): the set it leaves and its verdict for threshold t
Finalized(S, own_id, s_m) == S \cup s_m \cup {own_id}
Accepts(S, own_id, s_m, t) == Cardinality(Finalized(S, own_id, s_m)) >= t + 1
=============================================================================
