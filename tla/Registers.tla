----------------------------- MODULE Registers ------------------------------
(***************************************************************************)
(* A register is the set of the numbers of its bits that are one.          *)
(***************************************************************************)
EXTENDS Integers
LOCAL INSTANCE FiniteSetsExt

\* reg = (reg & ~mask) | bits
MODIFY_REG(reg, mask, bits) == (reg \ mask) \union bits

\* reg |= mask, or reg &= ~mask
SwitchBits(reg, mask, on) == IF on THEN reg \union mask ELSE reg \ mask

Shl(bits, n) == {b + n : b \in bits} \intersect 0..31
Shr(bits, n) == {b - n : b \in bits} \intersect 0..31

\* The bits of a number below 2^31, and the number of some of these bits.
BitsOf(n) == {b \in 0..30 : (n \div 2 ^ b) % 2 = 1}
NumberOf(bits) == MapThenSumSet(LAMBDA b : 2 ^ b, bits)
=============================================================================
