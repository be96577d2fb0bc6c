------------------------------- MODULE Numbers -------------------------------
(***************************************************************************)
(* serialize_number and deserialize_number for an uint64_t, byte by byte.  *)
(* Reading shifts each byte as an int, whatever the type of the number.    *)
(***************************************************************************)
EXTENDS Bits, Sequences

CONSTANTS
  ByteBits,       \* bits of a byte
  NumberBytes,    \* bytes of an uint64_t
  IntBits         \* bits of an int

NumberBits == ByteBits * NumberBytes

ASSUME NumbersAssumption ==
  /\ ByteBits \in Nat \ {0} /\ NumberBytes \in Nat
  /\ IntBits \in 1 .. NumberBits

NumberSize == Pow2[NumberBits]
IntSize == Pow2[IntBits]

\* The distance of byte i from the right end; the most significant one comes
\* first.
Distance(i) == ByteBits * (NumberBytes - i)

serialize_number(n) ==
  [i \in 1 .. NumberBytes |-> (n \div Pow2[Distance(i)]) % Pow2[ByteBits]]

\* An int with the bit pattern "bits", converted to uint64_t
Converted(bits) == IF 2 * bits < IntSize THEN bits ELSE bits + NumberSize - IntSize

(* A byte shifted to the left.  A shift by the width of an int or more is  *)
(* undefined: the processor takes the distance modulo the width ("wraps"), *)
(* and a compiler that evaluates the shift may yield 0.                    *)
Shifted(byte, distance, wraps) ==
  IF distance < IntBits \/ wraps
  THEN Converted((byte * Pow2[distance % IntBits]) % IntSize)
  ELSE 0

\* Mutant: the bytes are expected in the other order.
deserialize_number_reversed(bytes, wraps) ==
  LET upto[i \in 0 .. NumberBytes] ==
        IF i = 0 THEN 0
        ELSE BitOr(upto[i - 1], Shifted(bytes[i], Distance(NumberBytes - i + 1), wraps), NumberBits)
  IN  upto[NumberBytes]

deserialize_number(bytes, wraps) ==
  LET upto[i \in 0 .. NumberBytes] ==
        IF i = 0 THEN 0
        ELSE BitOr(upto[i - 1], Shifted(bytes[i], Distance(i), wraps), NumberBits)
  IN  upto[NumberBytes]
=============================================================================
