------------------------------ MODULE Normalize ------------------------------
(***************************************************************************)
(* The shapes every score is made of (app/scoring/normalize.py), in        *)
(* per mille: 1.0 is 1000, and a quotient is rounded down.                 *)
(***************************************************************************)
EXTENDS Integers, SequencesExt

One == 1000

\* clamp(), to [0, 1].
Clamp(x) == IF x < 0 THEN 0 ELSE IF x > One THEN One ELSE x

Larger(a, b) == IF a >= b THEN a ELSE b

\* a share of a share
Times(a, b) == (a * b) \div One

\* ramp(): linear from 0 at lo to 1 at hi.
Ramp(x, lo, hi) ==
  IF hi <= lo \/ x <= lo THEN 0
  ELSE IF x >= hi THEN One
  ELSE ((x - lo) * One) \div (hi - lo)

\* The largest r with r^3 <= n, for n up to 1000^3.
CubeRoot(n) ==
  CHOOSE r \in 0..One : r * r * r <= n /\ n < (r + 1) * (r + 1) * (r + 1)

\* soft_and() of three: their geometric mean (the code's floor of 1e-9 under each
\* is below the resolution).
SoftAnd(a, b, c) == CubeRoot(Clamp(a) * Clamp(b) * Clamp(c))
=============================================================================
