---------------------------- MODULE MCTimestamps ----------------------------
(***************************************************************************)
(* Small instances of Timestamps for TLC.                                  *)
(***************************************************************************)
EXTENDS Timestamps

Base(n, d) == [num |-> n, den |-> d]

\* A short interval around 0, and bases whose ratios are 1, whole numbers, and
\* fractions that leave a half or a third to round.
SmallTimes == -2..3
SmallBases == {Base(1, 1), Base(1, 2), Base(1, 3)}

\* An input that counts in microseconds, at 30 frames a second, and an output
\* that counts in 1/90000, both in a hundredth of a thousandth of that.
FrameTimes == {0, 33, 67}
Fine   == {Base(1, 100)}
Coarse == {Base(1, 9)}
=============================================================================
