------------------------------- MODULE Float64 ------------------------------
(***************************************************************************)
(* The floating-point numbers that a program computes with (IEEE 754,      *)
(* rounding to nearest, ties to even), as fractions <<n, d>> with d > 0,   *)
(* and NaN.  The significand of a number lies between Half and 2 * Half;   *)
(* Half is 2^52 for a float64, and a small Half shows the rounding on      *)
(* small numbers.  Exponents have no limit here.                           *)
(***************************************************************************)
EXTENDS Integers

CONSTANT Half   \* the least significand of a normal number

ASSUME HalfAssumption == Half \in Nat \ {0}

\* Up to this number every integer is a float64.
Exact == 2 * Half

NaN == <<0, 0>>

\* The powers of two, by their exponents up to n.
Powers(n) ==
    LET pow2[k \in 0 .. n] == IF k = 0 THEN 1 ELSE 2 * pow2[k - 1]
    IN  pow2

\* The greatest power of two that takes m no further than n.
Scale(m, n) ==
    Powers(n)[CHOOSE k \in 0 .. n : m * Powers(n)[k] <= n /\ n < 2 * (m * Powers(n)[k])]

\* The integer nearest to n / d, the even one of two.
RoundHalfEven(n, d) ==
    LET q == n \div d
        r == n % d
    IN  IF 2 * r < d \/ (2 * r = d /\ q % 2 = 0) THEN q ELSE q + 1

\* The number nearest to n / d, which is positive: n / d is scaled by a power of
\* two to where the significands are, and rounded to an integer there.
Nearest(n, d) ==
    IF n >= Half * d
    THEN LET s == Scale(Half * d, n)
         IN  <<RoundHalfEven(n, d * s) * s, 1>>
    ELSE LET s == 2 * Scale(n, Half * d - 1)
         IN  <<RoundHalfEven(n * s, d), s>>

\* n / d as a float64: ParseFloat of a decimal, and float64(n) of an int64 with
\* d = 1.
Float(n, d) ==
    IF n = 0 THEN <<0, 1>>
    ELSE IF n > 0 THEN Nearest(n, d)
    ELSE LET x == Nearest(-n, d) IN <<-x[1], x[2]>>

\* x / y, for a y above zero.
Quotient(x, y) == Float(x[1] * y[2], x[2] * y[1])

\* x >= y, which is false of NaN.
AtLeast(x, y) == x # NaN /\ y # NaN /\ x[1] * y[2] >= y[1] * x[2]
=============================================================================
