--------------------------- MODULE TsedgeNumbers ----------------------------
(***************************************************************************)
(* Numbers as rows of digits: what the loops of bitstream.c that shift and *)
(* mask compute, for a digit of any number of bits.                        *)
(***************************************************************************)
EXTENDS Integers, SequencesExt

\* 2 to the power n: a shift by n bits multiplies or divides by it.
TwoTo[n \in Nat] == IF n = 0 THEN 1 ELSE 2 * TwoTo[n - 1]

\* The lowest n digits of w, with `bits' bits each, the lowest one first.
Split(bits, n, w) == [i \in 1..n |-> (w \div TwoTo[bits * (i - 1)]) % TwoTo[bits]]

\* The number that has these digits.
Join(bits, digits) == SumFunction([i \in DOMAIN digits |-> digits[i] * TwoTo[bits * (i - 1)]])
=============================================================================
