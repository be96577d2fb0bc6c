------------------------------- MODULE Vectors -------------------------------
(***************************************************************************)
(* What the loops of the enclave do with their vectors: they append those  *)
(* entries to another vector that pass a test, given as an operator or as  *)
(* the set of places that pass it.                                         *)
(***************************************************************************)
EXTENDS Naturals, Sequences, FiniteSets

\* The k-th of a set of places
Place(wanted, k) == CHOOSE i \in wanted : Cardinality({j \in wanted : j <= i}) = k

\* The entries at the wanted places, in their order
Selected(vec, wanted) ==
  [k \in 1 .. Cardinality(wanted) |-> vec[Place(wanted, k)]]

\* The entries that pass a test, in their order
Filtered(vec, Passes(_)) == Selected(vec, {i \in DOMAIN vec : Passes(vec[i])})
=============================================================================
