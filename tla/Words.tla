------------------------------- MODULE Words -------------------------------
(***************************************************************************)
(* Words of four bytes, of ByteBits bits each: machines of 32 and 64 bits  *)
(* scaled down, for the models of the processors and what they are compared*)
(* with.                                                                   *)
(***************************************************************************)
EXTENDS Integers

CONSTANT ByteBits

B == 2 ^ ByteBits
H == B * B
W == H * H
WordBits == 4 * ByteBits

\* x, of n values, as a signed number; and as a word again.
Signed(x, n)     == IF x >= n \div 2 THEN x - n ELSE x
SignExtend(x, n) == Signed(x, n) % W
Int32(x)         == Signed(x, W)

Bit(x, k)      == (x \div 2 ^ k) % 2
Put(x, k, on)  == x + ((IF on THEN 1 ELSE 0) - Bit(x, k)) * 2 ^ k
Truth(b)       == IF b THEN 1 ELSE 0
Aligned(x)     == x - (x % 4)

\* A quotient rounded towards zero.
Magnitude(x) == IF x < 0 THEN -x ELSE x
Quotient(x, y) == LET q == Magnitude(x) \div Magnitude(y) IN IF (x < 0) = (y < 0) THEN q ELSE -q
=============================================================================
