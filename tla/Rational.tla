------------------------------ MODULE Rational ------------------------------
(***************************************************************************)
(* Exact rationals in lowest terms, standing for the doubles of the        *)
(* metrics code.  A rational is a pair <<numerator, positive denominator>>.*)
(***************************************************************************)
EXTENDS Integers

Gcd[p \in Nat \X Nat] == IF p[2] = 0 THEN p[1] ELSE Gcd[<<p[2], p[1] % p[2]>>]
AbsInt(i) == IF i < 0 THEN -i ELSE i

\* n/d in lowest terms, for any d other than 0.
Frac(n, d) ==
    LET g == Gcd[<<AbsInt(n), AbsInt(d)>>]
        s == IF d < 0 THEN -1 ELSE 1
    IN  <<(s * n) \div g, (s * d) \div g>>

Whole(i) == <<i, 1>>
Zero == Whole(0)

Plus(a, b)  == Frac(a[1] * b[2] + b[1] * a[2], a[2] * b[2])
Minus(a, b) == Frac(a[1] * b[2] - b[1] * a[2], a[2] * b[2])
Times(a, b) == Frac(a[1] * b[1], a[2] * b[2])
Over(a, b)  == Frac(a[1] * b[2], a[2] * b[1])

AtMost(a, b) == a[1] * b[2] <= b[1] * a[2]
Larger(a, b) == IF AtMost(a, b) THEN b ELSE a
FloorOf(a)   == a[1] \div a[2]
CeilOf(a)    == -((-a[1]) \div a[2])
=============================================================================
