--------------------------------- MODULE Bits ---------------------------------
(***************************************************************************)
(* Bits of quorum ids, the least significant one first, and of bytes.      *)
(***************************************************************************)
EXTENDS Integers

\* 1 << i
Pow2[i \in Nat] == IF i = 0 THEN 1 ELSE 2 * Pow2[i - 1]

Bit(x, i) == (x \div Pow2[i]) % 2
WithBit(x, i, b) == x + (b - Bit(x, i)) * Pow2[i]
FlipBit(x, i) == WithBit(x, i, 1 - Bit(x, i))

\* x | y, of numbers of "width" bits
BitOr(x, y, width) ==
  LET low[k \in 0 .. width] ==
        IF k = 0 THEN 0
        ELSE low[k - 1] + (IF Bit(x, k - 1) = 0 /\ Bit(y, k - 1) = 0 THEN 0 ELSE Pow2[k - 1])
  IN  low[width]
=============================================================================
