------------------------------ MODULE MCQuery ------------------------------
(* Small instances of TsedgeQuery. *)
EXTENDS TsedgeQuery

\* Words of five 3-bit bytes.  From the smallest timestamp to the others the
\* difference passes MaxInt; the values differ in two bytes or in all of them, and
\* one is a NaN.
MCPoints == {<<MinInt, 5>>, <<0, MaxInt - 72>>, <<MaxInt - 8, MaxInt>>}

\* What no append wrote, in the range that is read.
MCGarbage == {<<MaxInt - 8, 5>>}

MCNaNBits == MaxInt

MCBounds == {MinInt, 0, MaxInt}

\* MaxInt makes 13 windows of the second size, one too many, 12 of the third and 4
\* of the last; the last window of each would pass MaxInt.
MCWindowSizes == {0, 1365, 1366, 4096}

MCReadRanges == {<<1, MaxInt>>}
=============================================================================
