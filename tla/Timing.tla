------------------------------- MODULE Timing -------------------------------
(***************************************************************************)
(* The round model of the peers: helpers.h, the constants of config.h and  *)
(* the predicates of MessageTuple (structures.h) that compare a delivery   *)
(* time with a round.                                                      *)
(*                                                                         *)
(* Times and rounds are uint64_t in the code.  Word stands for 2^64 and    *)
(* IntWord for 2^32; instances use small values, so that a wrap-around     *)
(* happens within the bounds of a run.                                     *)
(***************************************************************************)
EXTENDS Integers

CONSTANTS
  kDelta,       \* a quarter of a round, in seconds
  Word,         \* 2^64: the modulus of round_t, onid_t and the clock
  IntWord       \* 2^32: the modulus of int

ASSUME TimingAssumption ==
  /\ kDelta \in Nat \ {0}
  /\ Word \in Nat \ {0}
  /\ IntWord \in Nat \ {0}
  /\ IntWord <= Word

Words == 0 .. (Word - 1)

\* a + b and a - b of two words, as unsigned arithmetic computes them
WAdd(a, b) == IF a + b < Word THEN a + b ELSE a + b - Word
WSub(a, b) == IF b <= a THEN a - b ELSE a - b + Word

calculate_agreement_time(dim) == dim + 2
calculate_routing_time(dim) == 2 * dim + 2

\* the length of a round in seconds
RoundLength == 4 * kDelta

calculate_round_from_t(t) == t \div RoundLength
calculate_subround_from_t(t) == t \div kDelta

\* How far ahead of its delivery time a message has to be handed in.
Lead(dim) ==
  (calculate_agreement_time(dim) + calculate_routing_time(dim) + 4) * RoundLength

\* First second of the round whose messages are announced in cur_round.  The
\* product stays below Word in every round the clock has reached.
DueFrom(cur_round, dim) ==
  (cur_round + calculate_agreement_time(dim) + calculate_routing_time(dim) + 3)
    * RoundLength

\* Mutant: the first second of the round is left out.
is_due_after_start(t_dst, cur_round, dim) ==
  /\ t_dst > DueFrom(cur_round, dim)
  /\ t_dst < DueFrom(cur_round, dim) + RoundLength

is_due(t_dst, cur_round, dim) ==
  /\ t_dst >= DueFrom(cur_round, dim)
  /\ t_dst < DueFrom(cur_round, dim) + RoundLength

is_dummy(t_dst) == t_dst = 0
is_cancel(t_dst) == t_dst = 1

\* "int l_dst = calculate_round_from_t(t_dst)", used as a uint64_t map key:
\* the low half of the round, sign-extended.
IntKey(round) ==
  LET low == round % IntWord
  IN  IF 2 * low < IntWord THEN low ELSE low + Word - IntWord
=============================================================================
