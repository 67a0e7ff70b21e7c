------------------------- MODULE MetricsEngineProofs -------------------------
(***************************************************************************)
(* The metrics engine implements a rolling window, and every figure of its *)
(* snapshots is the one recomputed from that window, for every limit and   *)
(* any frametimes.                                                         *)
(***************************************************************************)
EXTENDS MetricsEngine, SequenceFacts

-----------------------------------------------------------------------------
(* Rationals *)

\* g computes greatest common divisors of a and any b up to n.
Euclid(g, n) ==
    /\ g \in [Nat \X (0..n) -> Nat]
    /\ \A a \in Nat, b \in 0..n: g[<<a, b>>] = IF b = 0 THEN a ELSE g[<<b, a % b>>]

LEMMA ModFits == ASSUME NEW a \in Nat, NEW b \in Nat, b # 0 PROVE a % b \in 0..(b - 1)
OBVIOUS

LEMMA EuclidExists == ASSUME NEW n \in Nat PROVE \E g: Euclid(g, n)
<1> DEFINE S == {m \in Nat: \E g: Euclid(g, m)}
<1>1. 0 \in S
  <2> DEFINE g == [p \in Nat \X (0..0) |-> p[1]]
  <2>1. Euclid(g, 0) BY DEF Euclid
  <2> QED BY <2>1
<1>2. ASSUME NEW m \in Nat, m \in S PROVE m + 1 \in S
  <2>1. PICK h: Euclid(h, m) BY <1>2
  <2> DEFINE g == [p \in Nat \X (0..(m + 1)) |-> IF p[2] = m + 1 THEN h[<<m + 1, p[1] % (m + 1)>>]
                                                ELSE h[p]]
  <2>2. \A a \in Nat: a % (m + 1) \in 0..m BY ModFits
  <2>3. \A a \in Nat, b \in 0..m: <<a, b>> \in Nat \X (0..(m + 1)) /\ <<a, b>> \in Nat \X (0..m) /\ b # m + 1
    OBVIOUS
  <2>4. \A a \in Nat, b \in 0..m: g[<<a, b>>] = h[<<a, b>>] BY <2>3
  <2>5. \A a \in Nat: g[<<a, m + 1>>] = h[<<m + 1, a % (m + 1)>>]
    <3> SUFFICES ASSUME NEW a \in Nat PROVE g[<<a, m + 1>>] = h[<<m + 1, a % (m + 1)>>] OBVIOUS
    <3>1. <<a, m + 1>> \in Nat \X (0..(m + 1)) OBVIOUS
    <3> QED BY <3>1
  <2>6. g \in [Nat \X (0..(m + 1)) -> Nat]
    <3> SUFFICES ASSUME NEW p \in Nat \X (0..(m + 1))
                 PROVE  (IF p[2] = m + 1 THEN h[<<m + 1, p[1] % (m + 1)>>] ELSE h[p]) \in Nat
      OBVIOUS
    <3>1. CASE p[2] = m + 1
      <4>1. <<m + 1, p[1] % (m + 1)>> \in Nat \X (0..m) BY <2>2
      <4> QED BY <2>1, <3>1, <4>1 DEF Euclid
    <3>2. CASE p[2] # m + 1
      <4>1. p \in Nat \X (0..m) BY <3>2
      <4> QED BY <2>1, <3>2, <4>1 DEF Euclid
    <3> QED BY <3>1, <3>2
  <2> HIDE DEF g
  <2>7. ASSUME NEW a \in Nat, NEW b \in 0..(m + 1)
        PROVE  g[<<a, b>>] = IF b = 0 THEN a ELSE g[<<b, a % b>>]
    <3>1. CASE b = m + 1
      <4>1. g[<<m + 1, a % (m + 1)>>] = h[<<m + 1, a % (m + 1)>>] BY <2>2, <2>4
      <4> QED BY <2>5, <3>1, <4>1
    <3>2. CASE b = 0
      <4>1. b \in 0..m BY <3>2
      <4>2. h[<<a, b>>] = a BY <2>1, <3>2, <4>1 DEF Euclid
      <4> QED BY <2>4, <3>2, <4>1, <4>2
    <3>3. CASE b \in 1..m
      <4>1. b \in 0..m /\ b \in Nat /\ b # 0 BY <3>3
      <4>2. a % b \in 0..(b - 1) BY <4>1, ModFits
      <4>3. a % b \in 0..m BY <3>3, <4>2
      <4>4. h[<<a, b>>] = h[<<b, a % b>>] BY <2>1, <4>1 DEF Euclid
      <4> QED BY <2>4, <4>1, <4>3, <4>4
    <3> QED BY <3>1, <3>2, <3>3
  <2>8. Euclid(g, m + 1) BY <2>6, <2>7 DEF Euclid
  <2> QED BY <2>8
<1>3. n \in S
  <2> HIDE DEF S
  <2> QED BY <1>1, <1>2, NatSetInduction
<1> QED BY <1>3

\* Wherever two of them are defined they agree.
LEMMA EuclidUnique ==
    ASSUME NEW n \in Nat, NEW m \in Nat, NEW g, NEW h, Euclid(g, n), Euclid(h, m),
           NEW a \in Nat, NEW b \in Nat, b <= n, b <= m
    PROVE  g[<<a, b>>] = h[<<a, b>>]
<1> DEFINE S == {k \in Nat: \A j \in 0..k: j <= n /\ j <= m =>
                                \A c \in Nat: g[<<c, j>>] = h[<<c, j>>]}
<1>1. 0 \in S
  <2> SUFFICES ASSUME NEW c \in Nat PROVE g[<<c, 0>>] = h[<<c, 0>>] OBVIOUS
  <2>1. 0 \in 0..n /\ 0 \in 0..m OBVIOUS
  <2> QED BY <2>1 DEF Euclid
<1>2. ASSUME NEW k \in Nat, k \in S PROVE k + 1 \in S
  <2> SUFFICES ASSUME k + 1 <= n, k + 1 <= m, NEW c \in Nat
               PROVE  g[<<c, k + 1>>] = h[<<c, k + 1>>]
    <3>1. \A j \in 0..(k + 1): j = k + 1 \/ j \in 0..k OBVIOUS
    <3> QED BY <1>2, <3>1
  <2>1. c % (k + 1) \in 0..k BY ModFits
  <2>2. k + 1 \in 0..n /\ k + 1 \in 0..m /\ k + 1 # 0 OBVIOUS
  <2>3. g[<<c, k + 1>>] = g[<<k + 1, c % (k + 1)>>] /\ h[<<c, k + 1>>] = h[<<k + 1, c % (k + 1)>>]
    BY <2>2 DEF Euclid
  <2>4. g[<<k + 1, c % (k + 1)>>] = h[<<k + 1, c % (k + 1)>>] BY <1>2, <2>1
  <2> QED BY <2>3, <2>4
<1>3. b \in S
  <2> HIDE DEF S
  <2> QED BY <1>1, <1>2, NatSetInduction
<1> QED BY <1>3

LEMMA GcdStep ==
    ASSUME NEW a \in Nat, NEW b \in Nat
    PROVE  Gcd[<<a, b>>] = IF b = 0 THEN a ELSE Gcd[<<b, a % b>>]
<1> DEFINE Is(g) == g = [p \in Nat \X Nat |-> IF p[2] = 0 THEN p[1] ELSE g[<<p[2], p[1] % p[2]>>]]
           At(n) == CHOOSE g: Euclid(g, n)
           all == [p \in Nat \X Nat |-> At(p[2])[p]]
<1>1. \A n \in Nat: Euclid(At(n), n) BY EuclidExists
<1>2. ASSUME NEW p \in Nat \X Nat
      PROVE  all[p] = IF p[2] = 0 THEN p[1] ELSE all[<<p[2], p[1] % p[2]>>]
  <2> DEFINE c == p[1]
             d == p[2]
  <2>1. p = <<c, d>> /\ c \in Nat /\ d \in Nat OBVIOUS
  <2>2. all[p] = At(d)[<<c, d>>] BY <2>1
  <2>3. Euclid(At(d), d) BY <1>1, <2>1
  <2> HIDE DEF At
  <2>4. CASE d = 0 
    <3>1. d \in 0..d BY <2>1
    <3> QED BY <2>1, <2>2, <2>3, <2>4, <3>1 DEF Euclid
  <2>5. CASE d # 0
    <3> DEFINE r == c % d
    <3>1. r \in 0..(d - 1) /\ r \in Nat /\ r <= d
      <4> HIDE DEF c, d
      <4>1. r \in 0..(d - 1) BY <2>1, <2>5, ModFits
      <4> QED BY <2>1, <4>1
    <3>2. all[<<d, r>>] = At(r)[<<d, r>>] BY <2>1, <3>1
    <3>3. Euclid(At(r), r) BY <1>1, <3>1
    <3>4. d \in 0..d BY <2>1
    <3>5. At(d)[<<c, d>>] = At(d)[<<d, r>>] BY <2>1, <2>3, <2>5, <3>4 DEF Euclid
    <3> HIDE DEF r, all
    <3>6. At(d)[<<d, r>>] = At(r)[<<d, r>>] 
      <4> HIDE DEF d
      <4> QED BY <2>1, <2>3, <3>1, <3>3, EuclidUnique
    <3> QED BY <2>2, <2>5, <3>2, <3>5, <3>6 DEF r
  <2> QED BY <2>4, <2>5
<1>3. Is(all)
  <2> DEFINE other == [p \in Nat \X Nat |-> IF p[2] = 0 THEN p[1] ELSE all[<<p[2], p[1] % p[2]>>]]
  <2>1. \A p \in Nat \X Nat: all[p] = other[p] 
    <3> HIDE DEF all
    <3> QED BY <1>2
  <2>2. DOMAIN all = Nat \X Nat /\ DOMAIN other = Nat \X Nat OBVIOUS
  <2>3. all = [p \in Nat \X Nat |-> all[p]] /\ other = [p \in Nat \X Nat |-> other[p]] OBVIOUS
  <2>4. all = other
    <3> HIDE DEF all, other
    <3> QED BY <2>1, <2>3
  <2> QED BY <2>4
<1>4. Gcd = CHOOSE g: Is(g) BY DEF Gcd
<1>5. Is(Gcd)
  <2> HIDE DEF Is, all
  <2> QED BY <1>3, <1>4
<1>6. <<a, b>> \in Nat \X Nat OBVIOUS
<1>7. \A p \in Nat \X Nat: Gcd[p] = IF p[2] = 0 THEN p[1] ELSE Gcd[<<p[2], p[1] % p[2]>>]
  BY <1>5
<1> QED BY <1>6, <1>7

LEMMA DivMod == ASSUME NEW a \in Nat, NEW b \in Nat, b # 0
    PROVE  a \div b \in Nat /\ a = b * (a \div b) + (a % b)
OBVIOUS

LEMMA DivExact == ASSUME NEW g \in Nat, g # 0, NEW k \in Int PROVE (g * k) \div g = k
OBVIOUS

LEMMA ModExact ==
    ASSUME NEW a \in Nat, NEW b \in Nat, b # 0, NEW c \in Nat, c # 0
    PROVE  (c * a) % (c * b) = c * (a % b)
OBVIOUS

IsGcd(g, a, b) ==
    /\ g \in Nat /\ (a # 0 \/ b # 0 => g # 0)
    /\ \E k \in Nat, l \in Nat: a = g * k /\ b = g * l

\* Each step of Euclid's algorithm keeps the common divisors.
LEMMA GcdDivides == ASSUME NEW a \in Nat, NEW b \in Nat PROVE IsGcd(Gcd[<<a, b>>], a, b)
<1> DEFINE S == {n \in Nat: \A d \in 0..n: \A c \in Nat: IsGcd(Gcd[<<c, d>>], c, d)}
<1>1. \A c \in Nat: IsGcd(Gcd[<<c, 0>>], c, 0)
  <2> SUFFICES ASSUME NEW c \in Nat PROVE IsGcd(Gcd[<<c, 0>>], c, 0) OBVIOUS
  <2>1. Gcd[<<c, 0>>] = c BY GcdStep
  <2>2. c = c * 1 /\ 0 = c * 0 OBVIOUS
  <2> QED BY <2>1, <2>2 DEF IsGcd
<1>2. 0 \in S BY <1>1
<1>3. ASSUME NEW n \in Nat, n \in S PROVE n + 1 \in S
  <2> SUFFICES ASSUME NEW c \in Nat PROVE IsGcd(Gcd[<<c, n + 1>>], c, n + 1)
    <3>1. \A d \in 0..(n + 1): d = n + 1 \/ d \in 0..n OBVIOUS
    <3> QED BY <1>3, <3>1
  <2> DEFINE d == n + 1
             r == c % d
             q == c \div d
             g == Gcd[<<d, r>>]
  <2>1. d \in Nat /\ d # 0 OBVIOUS
  <2>2. r \in 0..n /\ r \in Nat BY ModFits
  <2>3. q \in Nat /\ c = d * q + r
    <3> HIDE DEF d
    <3> QED BY <2>1, DivMod
  <2>4. IsGcd(g, d, r) BY <1>3, <2>1, <2>2
  <2>5. Gcd[<<c, d>>] = g BY <2>1, GcdStep
  <2> HIDE DEF d, r, q, g
  <2>6. PICK k \in Nat, l \in Nat: d = g * k /\ r = g * l BY <2>4 DEF IsGcd
  <2>7. g \in Nat /\ g # 0 BY <2>1, <2>4 DEF IsGcd
  <2>8. c = g * (k * q + l) BY <2>3, <2>6, <2>7
  <2>9. k * q + l \in Nat BY <2>3
  <2> QED BY <2>5, <2>6, <2>7, <2>8, <2>9 DEF IsGcd, d
<1>4. b \in S
  <2> HIDE DEF S
  <2> QED BY <1>2, <1>3, NatSetInduction
<1> QED BY <1>4

LEMMA GcdScales ==
    ASSUME NEW a \in Nat, NEW b \in Nat, NEW c \in Nat, c # 0
    PROVE  Gcd[<<c * a, c * b>>] = c * Gcd[<<a, b>>]
<1> DEFINE S == {n \in Nat: \A d \in 0..n: \A e \in Nat: Gcd[<<c * e, c * d>>] = c * Gcd[<<e, d>>]}
<1>1. ASSUME NEW e \in Nat PROVE Gcd[<<c * e, c * 0>>] = c * Gcd[<<e, 0>>]
  <2>1. c * e \in Nat /\ c * 0 = 0 OBVIOUS
  <2> QED BY <2>1, GcdStep
<1>2. 0 \in S BY <1>1
<1>3. ASSUME NEW n \in Nat, n \in S PROVE n + 1 \in S
  <2> SUFFICES ASSUME NEW e \in Nat PROVE Gcd[<<c * e, c * (n + 1)>>] = c * Gcd[<<e, n + 1>>]
    <3>1. \A d \in 0..(n + 1): d = n + 1 \/ d \in 0..n OBVIOUS
    <3> QED BY <1>3, <3>1
  <2> DEFINE d == n + 1
             r == e % d
  <2>1. d \in Nat /\ d # 0 OBVIOUS
  <2>2. r \in 0..n BY ModFits
  <2>3. c * e \in Nat /\ c * d \in Nat /\ c * d # 0 OBVIOUS
  <2>4. (c * e) % (c * d) = c * r BY <2>1, ModExact
  <2>5. Gcd[<<c * d, c * r>>] = c * Gcd[<<d, r>>] BY <1>3, <2>1, <2>2
  <2>6. Gcd[<<e, d>>] = Gcd[<<d, r>>] BY <2>1, GcdStep
  <2>7. Gcd[<<c * e, c * d>>] = Gcd[<<c * d, (c * e) % (c * d)>>]
    <3> HIDE DEF d
    <3> QED BY <2>3, GcdStep
  <2> HIDE DEF r
  <2> QED BY <2>4, <2>5, <2>6, <2>7
<1>4. b \in S
  <2> HIDE DEF S
  <2> QED BY <1>2, <1>3, NatSetInduction
<1> QED BY <1>4

\* What Frac does with a positive denominator: it divides by a common divisor.
LEMMA FracReduces ==
    ASSUME NEW n \in Int, NEW d \in Nat, d # 0
    PROVE  \E g \in Nat, k \in Int, l \in Nat:
               /\ g # 0 /\ l # 0 /\ n = g * k /\ d = g * l
               /\ g = Gcd[<<AbsInt(n), d>>] /\ Frac(n, d) = <<k, l>>
<1> DEFINE g == Gcd[<<AbsInt(n), d>>]
<1>1. AbsInt(n) \in Nat /\ AbsInt(d) = d BY DEF AbsInt
<1>2. IsGcd(g, AbsInt(n), d) BY <1>1, GcdDivides
<1>3. Frac(n, d) = <<(1 * n) \div g, (1 * d) \div g>> BY <1>1 DEF Frac
<1> HIDE DEF g
<1>4. g \in Nat /\ g # 0 BY <1>2 DEF IsGcd
<1>5. PICK j \in Nat, l \in Nat: AbsInt(n) = g * j /\ d = g * l BY <1>2 DEF IsGcd
<1>6. PICK k \in Int: n = g * k
  <2>1. CASE n >= 0
    <3>1. n = g * j BY <1>5, <2>1 DEF AbsInt
    <3> QED BY <3>1
  <2>2. CASE n < 0
    <3>1. n = g * (-j) /\ -j \in Int BY <1>4, <1>5, <2>2 DEF AbsInt
    <3> QED BY <3>1
  <2> QED BY <2>1, <2>2
<1>7. (1 * n) \div g = k
  <2>1. (g * k) \div g = k BY <1>4, DivExact
  <2> QED BY <1>6, <2>1
<1>8. (1 * d) \div g = l
  <2>1. (g * l) \div g = l BY <1>4, DivExact
  <2> QED BY <1>5, <2>1
<1>9. l # 0 BY <1>4, <1>5
<1> QED BY <1>3, <1>4, <1>5, <1>6, <1>7, <1>8, <1>9 DEF g

LEMMA FracCancels ==
    ASSUME NEW n \in Int, NEW d \in Nat, d # 0, NEW c \in Nat, c # 0
    PROVE  Frac(c * n, c * d) = Frac(n, d)
<1>1. PICK g \in Nat, k \in Int, l \in Nat:
          /\ g # 0 /\ l # 0 /\ n = g * k /\ d = g * l
          /\ g = Gcd[<<AbsInt(n), d>>] /\ Frac(n, d) = <<k, l>>
  BY FracReduces
<1> DEFINE m == c * n
           e == c * d
<1>2. m \in Int /\ e \in Nat /\ e # 0 OBVIOUS
<1>3. AbsInt(m) = c * AbsInt(n) /\ AbsInt(n) \in Nat
  <2>1. CASE n >= 0
    <3>1. c * n >= 0 BY <2>1
    <3> QED BY <2>1, <3>1 DEF AbsInt
  <2>2. CASE n < 0
    <3>1. c * n < 0 BY <2>2
    <3> QED BY <2>2, <3>1 DEF AbsInt
  <2> QED BY <2>1, <2>2
<1>4. Gcd[<<AbsInt(m), e>>] = c * g BY <1>1, <1>3, GcdScales
<1> HIDE DEF m, e
<1>5. PICK h \in Nat, j \in Int, i \in Nat:
          /\ h # 0 /\ i # 0 /\ m = h * j /\ e = h * i
          /\ h = Gcd[<<AbsInt(m), e>>] /\ Frac(m, e) = <<j, i>>
  BY <1>2, FracReduces
<1>6. h = c * g BY <1>4, <1>5
<1>7. h * j = h * k
  <2>1. m = c * (g * k) BY <1>1 DEF m
  <2>2. c * (g * k) = (c * g) * k BY <1>1
  <2> QED BY <1>5, <1>6, <2>1, <2>2
<1>8. h * i = h * l
  <2>1. e = c * (g * l) BY <1>1 DEF e
  <2>2. c * (g * l) = (c * g) * l BY <1>1
  <2> QED BY <1>5, <1>6, <2>1, <2>2
<1>9. j = k /\ i = l BY <1>5, <1>7, <1>8
<1> QED BY <1>1, <1>5, <1>9 DEF m, e

\* Equal quotients have the same lowest terms.
LEMMA FracEqual ==
    ASSUME NEW n \in Int, NEW d \in Nat, d # 0, NEW m \in Int, NEW e \in Nat, e # 0,
           n * e = m * d
    PROVE  Frac(n, d) = Frac(m, e)
<1>1. Frac(n, d) = Frac(e * n, e * d) BY FracCancels
<1>2. Frac(m, e) = Frac(d * m, d * e) BY FracCancels
<1>3. e * n = d * m /\ e * d = d * e OBVIOUS
<1> QED BY <1>1, <1>2, <1>3

Rationals == Int \X (Nat \ {0})

\* The terms of a fraction, for computing with them.
LEMMA FracTerms ==
    ASSUME NEW n \in Int, NEW d \in Nat, d # 0
    PROVE  LET f == Frac(n, d) IN
           /\ f \in Rationals /\ f = <<f[1], f[2]>>
           /\ f[1] \in Int /\ f[2] \in Nat /\ f[2] # 0
           /\ f[1] * d = n * f[2]
<1>1. PICK g \in Nat, k \in Int, l \in Nat:
          /\ g # 0 /\ l # 0 /\ n = g * k /\ d = g * l
          /\ g = Gcd[<<AbsInt(n), d>>] /\ Frac(n, d) = <<k, l>>
  BY FracReduces
<1>2. k * (g * l) = (g * k) * l BY <1>1
<1> QED BY <1>1, <1>2 DEF Rationals

LEMMA WholeIsFrac == ASSUME NEW i \in Int PROVE Whole(i) = Frac(i, 1)
<1>1. PICK g \in Nat, k \in Int, l \in Nat:
          /\ g # 0 /\ l # 0 /\ i = g * k /\ 1 = g * l
          /\ g = Gcd[<<AbsInt(i), 1>>] /\ Frac(i, 1) = <<k, l>>
  <2> DEFINE one == 1
  <2>1. one \in Nat /\ one # 0 OBVIOUS
  <2> HIDE DEF one
  <2> QED BY <2>1, FracReduces DEF one
<1>2. g = 1 /\ l = 1 BY <1>1
<1> QED BY <1>1, <1>2 DEF Whole

LEMMA PlusFrac ==
    ASSUME NEW n \in Int, NEW d \in Nat, d # 0, NEW m \in Int, NEW e \in Nat, e # 0
    PROVE  Plus(Frac(n, d), Frac(m, e)) = Frac(n * e + m * d, d * e)
<1> DEFINE a == Frac(n, d)
           b == Frac(m, e)
<1>1. a[1] \in Int /\ a[2] \in Nat /\ a[2] # 0 /\ a[1] * d = n * a[2] BY FracTerms
<1>2. b[1] \in Int /\ b[2] \in Nat /\ b[2] # 0 /\ b[1] * e = m * b[2] BY FracTerms
<1>3. Plus(a, b) = Frac(a[1] * b[2] + b[1] * a[2], a[2] * b[2]) BY DEF Plus
<1> DEFINE p == a[1]
           q == a[2]
           r == b[1]
           s == b[2]
<1>4. (p * s + r * q) * (d * e) = (p * d) * (s * e) + (r * e) * (q * d) BY <1>1, <1>2
<1>5. (n * e + m * d) * (q * s) = (n * q) * (s * e) + (m * s) * (q * d) BY <1>1, <1>2
<1>6. (p * s + r * q) * (d * e) = (n * e + m * d) * (q * s) BY <1>1, <1>2, <1>4, <1>5
<1>7. p * s + r * q \in Int /\ q * s \in Nat /\ q * s # 0 /\ n * e + m * d \in Int
      /\ d * e \in Nat /\ d * e # 0
  BY <1>1, <1>2
<1> HIDE DEF p, q, r, s
<1>8. Frac(p * s + r * q, q * s) = Frac(n * e + m * d, d * e) BY <1>6, <1>7, FracEqual
<1> QED BY <1>3, <1>8 DEF p, q, r, s

LEMMA MinusFrac ==
    ASSUME NEW n \in Int, NEW d \in Nat, d # 0, NEW m \in Int, NEW e \in Nat, e # 0
    PROVE  Minus(Frac(n, d), Frac(m, e)) = Frac(n * e - m * d, d * e)
<1> DEFINE a == Frac(n, d)
           b == Frac(m, e)
<1>1. a[1] \in Int /\ a[2] \in Nat /\ a[2] # 0 /\ a[1] * d = n * a[2] BY FracTerms
<1>2. b[1] \in Int /\ b[2] \in Nat /\ b[2] # 0 /\ b[1] * e = m * b[2] BY FracTerms
<1>3. Minus(a, b) = Frac(a[1] * b[2] - b[1] * a[2], a[2] * b[2]) BY DEF Minus
<1> DEFINE p == a[1]
           q == a[2]
           r == b[1]
           s == b[2]
<1>4. (p * s - r * q) * (d * e) = (p * d) * (s * e) - (r * e) * (q * d) BY <1>1, <1>2
<1>5. (n * e - m * d) * (q * s) = (n * q) * (s * e) - (m * s) * (q * d) BY <1>1, <1>2
<1>6. (p * s - r * q) * (d * e) = (n * e - m * d) * (q * s) BY <1>1, <1>2, <1>4, <1>5
<1>7. p * s - r * q \in Int /\ q * s \in Nat /\ q * s # 0 /\ n * e - m * d \in Int
      /\ d * e \in Nat /\ d * e # 0
  BY <1>1, <1>2
<1> HIDE DEF p, q, r, s
<1>8. Frac(p * s - r * q, q * s) = Frac(n * e - m * d, d * e) BY <1>6, <1>7, FracEqual
<1> QED BY <1>3, <1>8 DEF p, q, r, s

LEMMA TimesFrac ==
    ASSUME NEW n \in Int, NEW d \in Nat, d # 0, NEW m \in Int, NEW e \in Nat, e # 0
    PROVE  Times(Frac(n, d), Frac(m, e)) = Frac(n * m, d * e)
<1> DEFINE a == Frac(n, d)
           b == Frac(m, e)
<1>1. a[1] \in Int /\ a[2] \in Nat /\ a[2] # 0 /\ a[1] * d = n * a[2] BY FracTerms
<1>2. b[1] \in Int /\ b[2] \in Nat /\ b[2] # 0 /\ b[1] * e = m * b[2] BY FracTerms
<1>3. Times(a, b) = Frac(a[1] * b[1], a[2] * b[2]) BY DEF Times
<1> DEFINE p == a[1]
           q == a[2]
           r == b[1]
           s == b[2]
<1>4. (p * r) * (d * e) = (p * d) * (r * e) BY <1>1, <1>2
<1>5. (n * m) * (q * s) = (n * q) * (m * s) BY <1>1, <1>2
<1>6. (p * r) * (d * e) = (n * m) * (q * s) BY <1>1, <1>2, <1>4, <1>5
<1>7. p * r \in Int /\ q * s \in Nat /\ q * s # 0 /\ n * m \in Int
      /\ d * e \in Nat /\ d * e # 0
  BY <1>1, <1>2
<1> HIDE DEF p, q, r, s
<1>8. Frac(p * r, q * s) = Frac(n * m, d * e) BY <1>6, <1>7, FracEqual
<1> QED BY <1>3, <1>8 DEF p, q, r, s

\* Division by a positive whole number.
LEMMA OverWhole ==
    ASSUME NEW n \in Int, NEW d \in Nat, d # 0, NEW c \in Nat, c # 0
    PROVE  Over(Frac(n, d), Whole(c)) = Frac(n, d * c)
<1> DEFINE a == Frac(n, d)
           p == a[1]
           q == a[2]
<1>1. p \in Int /\ q \in Nat /\ q # 0 /\ p * d = n * q BY FracTerms
<1>2. Over(a, Whole(c)) = Frac(p * 1, q * c) BY DEF Over, Whole
<1>3. (p * 1) * (d * c) = n * (q * c)
  <2>1. (p * 1) * (d * c) = (p * d) * c BY <1>1
  <2>2. n * (q * c) = (n * q) * c BY <1>1
  <2> QED BY <1>1, <2>1, <2>2
<1>4. p * 1 \in Int /\ q * c \in Nat /\ q * c # 0 /\ d * c \in Nat /\ d * c # 0 BY <1>1
<1> HIDE DEF p, q
<1>5. Frac(p * 1, q * c) = Frac(n, d * c) BY <1>3, <1>4, FracEqual
<1> QED BY <1>2, <1>5

-----------------------------------------------------------------------------
(* The window *)

\* A limit of 0 was raised to 1, and the deque never outgrows it.
WindowInv ==
    /\ limit \in Nat \ {0}
    /\ frametimes \in Seq(Values)
    /\ Len(frametimes) <= limit

LEMMA InitWindow == Init => WindowInv /\ Promise!Init
BY MetricsAssumption, EmptySeq DEF Init, Constructed, WindowInv, Promise!Init

\* A push on a window that is not full appends; on a full one it drops the
\* oldest frametime first, so that the length stays the limit.
LEMMA PushRolls ==
    ASSUME WindowInv, NEW x \in Values, PushSample(x)
    PROVE  WindowInv' /\ Promise!Push(x)
<1> DEFINE w == frametimes
<1>1. /\ limit' = limit
      /\ frametimes' = Append(IF Len(w) >= limit THEN Tail(w) ELSE w, x)
  BY DEF PushSample, IsFull
<1>2. w \in Seq(Values) /\ Len(w) \in Nat /\ Len(w) <= limit /\ limit \in Nat \ {0}
  BY LenProperties DEF WindowInv
<1>3. CASE Len(w) = limit
  <2>1. w # <<>> BY <1>2, <1>3, EmptySeq
  <2>2. Tail(w) \in Seq(Values) /\ Len(Tail(w)) = Len(w) - 1 BY <1>2, <2>1, HeadTailProperties
  <2>3. frametimes' = Append(Tail(w), x) BY <1>1, <1>2, <1>3
  <2>4. frametimes' \in Seq(Values) /\ Len(frametimes') = limit
    BY <1>2, <1>3, <2>2, <2>3, AppendProperties
  <2> QED BY <1>1, <1>2, <1>3, <2>3, <2>4 DEF WindowInv, Promise!Push
<1>4. CASE Len(w) < limit
  <2>1. frametimes' = Append(w, x) BY <1>1, <1>2, <1>4
  <2>2. frametimes' \in Seq(Values) /\ Len(frametimes') = Len(w) + 1
    BY <1>2, <2>1, AppendProperties
  <2> QED BY <1>1, <1>2, <1>4, <2>1, <2>2 DEF WindowInv, Promise!Push
<1> QED BY <1>2, <1>3, <1>4

\* Every step of the engine is one of the promise.
LEMMA StepRolls ==
    ASSUME WindowInv, [Next]_vars
    PROVE  WindowInv' /\ [Promise!Next]_<<limit, frametimes>>
<1>1. CASE UNCHANGED vars BY <1>1 DEF vars, WindowInv
<1>2. CASE Reset
  BY <1>2, EmptySeq DEF Reset, WindowInv, Promise!Next, Promise!Clear
<1>3. ASSUME NEW x \in Values, PushSample(x)
      PROVE  WindowInv' /\ [Promise!Next]_<<limit, frametimes>>
  BY <1>3, PushRolls DEF Promise!Next
<1> QED BY <1>1, <1>2, <1>3 DEF Next

\* Every call on the engine is a push on the promised window or its clearing:
\* no sequence of pushes and resets lets the deque differ from the last limit
\* frametimes, with `>=` in the code where the promise says `=`.
THEOREM EngineKeepsRollingWindow == Spec => KeepsRollingWindow
BY InitWindow, StepRolls, PTL DEF Spec, KeepsRollingWindow, Promise!Spec

-----------------------------------------------------------------------------
(* The mirror *)

Sorted(s) == \A i, j \in DOMAIN s: i <= j => s[i] <= s[j]

\* insert keeps the order and adds one copy.
LEMMA InsertedFacts ==
    ASSUME NEW s \in Seq(Values), Sorted(s), NEW x \in Values
    PROVE  /\ Inserted(s, x) \in Seq(Values) /\ Sorted(Inserted(s, x))
           /\ \A S: Count(Inserted(s, x), S) = Count(s, S) + One(x, S)
<1> DEFINE n == Len(s)
           above == {i \in DOMAIN s: s[i] > x} \union {n + 1}
           at == Min(above)
           a == SubSeq(s, 1, at - 1)
           b == SubSeq(s, at, n)
<1>1. /\ n \in Nat /\ DOMAIN s = 1..n /\ \A i \in 1..n: s[i] \in Values /\ s[i] \in Nat
      /\ x \in Nat
  BY LenProperties, ElementOfSeq, MetricsAssumption
<1>2. at \in above /\ \A i \in above: at <= i
  <2>1. above \subseteq Nat /\ above # {} BY <1>1
  <2> HIDE DEF above
  <2>2. PICK i \in above: \A j \in above: ~ (<<j, i>> \in OpToRel(<, Nat))
    BY <2>1, NatLessThanWellFounded, WFMin
  <2>3. \A j \in above: i <= j
    <3> SUFFICES ASSUME NEW j \in above, j < i PROVE FALSE BY <2>1
    <3>1. <<j, i>> \in OpToRel(<, Nat) BY <2>1 DEF OpToRel
    <3> QED BY <2>2, <3>1
  <2> QED BY <2>1, <2>3 DEF Min
<1>3. /\ at \in 1..(n + 1)
      /\ \A i \in 1..(at - 1): s[i] <= x
      /\ \A i \in at..n: x <= s[i]
  <2>1. at \in 1..(n + 1) BY <1>1, <1>2
  <2>2. \A i \in 1..(at - 1): i \in 1..n /\ s[i] <= x
    <3> HIDE DEF at, above
    <3>1. \A i \in 1..(at - 1): i \in 1..n /\ ~ (at <= i) BY <1>1, <2>1
    <3>2. \A i \in 1..(at - 1): i \in 1..n /\ i \notin above BY <1>2, <3>1
    <3>3. \A i \in 1..n: i \notin above => ~ (s[i] > x) BY <1>1 DEF above
    <3>4. \A i \in 1..n: ~ (s[i] > x) => s[i] <= x BY <1>1
    <3> QED BY <3>2, <3>3, <3>4
  <2>3. ASSUME NEW i \in at..n PROVE x <= s[i]
    <3>1. at \in 1..n /\ i \in 1..n BY <1>1, <2>1, <2>3
    <3>2. s[at] > x BY <1>1, <1>2, <3>1
    <3>3. s[at] <= s[i] BY <1>1, <3>1 DEF Sorted
    <3> QED BY <1>1, <3>1, <3>2, <3>3
  <2> QED BY <1>1, <2>1, <2>2, <2>3
<1>4. Inserted(s, x) = a \o <<x>> \o b BY DEF Inserted, InsertAt
<1> HIDE DEF at
<1>5. /\ a \in Seq(Values) /\ Len(a) = at - 1 /\ \A i \in 1..(at - 1): a[i] = s[i]
      /\ b \in Seq(Values) /\ Len(b) = n - at + 1 /\ \A i \in 1..(n - at + 1): b[i] = s[at + i - 1]
      /\ s = a \o b
  <2> DEFINE k == at - 1
  <2>1. k \in 0..n /\ k + 1 = at /\ n - k = n - at + 1 BY <1>1, <1>3
  <2>2. \A i \in 1..(n - k): k + i = at + i - 1 BY <1>1, <1>3
  <2> HIDE DEF k
  <2>3. /\ SubSeq(s, 1, k) \in Seq(Values) /\ Len(SubSeq(s, 1, k)) = k
        /\ \A i \in 1..k: SubSeq(s, 1, k)[i] = s[i]
        /\ SubSeq(s, k + 1, Len(s)) \in Seq(Values) /\ Len(SubSeq(s, k + 1, Len(s))) = Len(s) - k
        /\ \A i \in 1..(Len(s) - k): SubSeq(s, k + 1, Len(s))[i] = s[k + i]
        /\ s = SubSeq(s, 1, k) \o SubSeq(s, k + 1, Len(s))
    <3>1. k \in 0..Len(s) BY <2>1
    <3> QED BY <3>1, CutAt, ZenonT(40)
  <2>4. a = SubSeq(s, 1, k) /\ b = SubSeq(s, k + 1, Len(s)) BY <2>1 DEF k
  <2> HIDE DEF a, b
  <2> QED BY <2>1, <2>2, <2>3, <2>4 DEF k
<1> DEFINE c == a \o <<x>>
           r == c \o b
<1> HIDE DEF a, b, n, above
<1>6. <<x>> \in Seq(Values) /\ Len(<<x>>) = 1 /\ <<x>>[1] = x OBVIOUS
<1>7. /\ c \in Seq(Values) /\ Len(c) = at
      /\ \A i \in 1..at: c[i] = IF i <= at - 1 THEN s[i] ELSE x
  <2>1. /\ c \in Seq(Values) /\ Len(c) = (at - 1) + 1
        /\ \A i \in 1..((at - 1) + 1): c[i] = IF i <= at - 1 THEN a[i] ELSE <<x>>[i - (at - 1)]
    BY <1>5, <1>6, ConcatProperties
  <2> HIDE DEF c
  <2>2. \A i \in 1..at: i \in 1..((at - 1) + 1) /\ (i > at - 1 => i - (at - 1) = 1) BY <1>1, <1>3
  <2> QED BY <1>1, <1>3, <1>5, <1>6, <2>1, <2>2
<1> HIDE DEF c
<1>8. /\ r \in Seq(Values) /\ Len(r) = n + 1
      /\ \A i \in 1..(n + 1): r[i] = IF i <= at THEN c[i] ELSE b[i - at]
  <2>1. /\ r \in Seq(Values) /\ Len(r) = at + (n - at + 1)
        /\ \A i \in 1..(at + (n - at + 1)): r[i] = IF i <= at THEN c[i] ELSE b[i - at]
    BY <1>5, <1>7, ConcatProperties
  <2>2. at + (n - at + 1) = n + 1 BY <1>1, <1>3
  <2> QED BY <2>1, <2>2
<1> HIDE DEF r
<1>9. \A i \in 1..(n + 1): r[i] = IF i < at THEN s[i] ELSE IF i = at THEN x ELSE s[i - 1]
  <2> SUFFICES ASSUME NEW i \in 1..(n + 1)
               PROVE  r[i] = IF i < at THEN s[i] ELSE IF i = at THEN x ELSE s[i - 1]
    OBVIOUS
  <2>1. CASE i < at BY <1>1, <1>3, <1>7, <1>8, <2>1
  <2>2. CASE i = at BY <1>1, <1>3, <1>7, <1>8, <2>2
  <2>3. CASE i > at
    <3>1. i - at \in 1..(n - at + 1) /\ at + (i - at) - 1 = i - 1 BY <1>1, <1>3, <2>3
    <3>2. b[i - at] = s[i - 1] BY <1>5, <3>1
    <3> QED BY <1>1, <1>3, <1>8, <2>3, <3>2
  <2> QED BY <1>1, <1>3, <2>1, <2>2, <2>3
<1>10. Sorted(r)
  <2>1. DOMAIN r = 1..(n + 1) BY <1>8, LenProperties
  <2> SUFFICES ASSUME NEW i \in 1..(n + 1), NEW j \in 1..(n + 1), i < j PROVE r[i] <= r[j]
    <3>1. \A i \in 1..(n + 1): r[i] \in Nat BY <1>8, MetricsAssumption, ElementOfSeq
    <3> QED BY <1>1, <2>1, <3>1 DEF Sorted
  <2>2. \A k, l \in 1..n: k <= l => s[k] <= s[l] BY <1>1 DEF Sorted
  <2>3. CASE j < at BY <1>1, <1>3, <1>9, <2>2, <2>3
  <2>4. CASE j = at BY <1>1, <1>3, <1>9, <2>4
  <2>5. CASE at < j
    <3>1. r[j] = s[j - 1] /\ j - 1 \in at..n /\ j - 1 \in 1..n BY <1>1, <1>3, <1>9, <2>5
    <3>2. CASE i < at BY <1>1, <1>3, <1>9, <2>2, <3>1, <3>2
    <3>3. CASE i = at BY <1>1, <1>3, <1>9, <3>1, <3>3
    <3>4. CASE i > at
      <4>1. r[i] = s[i - 1] /\ i - 1 \in 1..n /\ i - 1 <= j - 1 BY <1>1, <1>3, <1>9, <3>4
      <4> QED BY <2>2, <3>1, <4>1
    <3> QED BY <1>1, <1>3, <3>2, <3>3, <3>4
  <2> QED BY <1>1, <1>3, <2>3, <2>4, <2>5
<1>11. ASSUME NEW S PROVE Count(r, S) = Count(s, S) + One(x, S)
  <2>1. Count(r, S) = Count(c, S) + Count(b, S) BY <1>5, <1>7, CountConcat DEF r
  <2>2. Count(c, S) = Count(a, S) + Count(<<x>>, S) BY <1>5, <1>6, CountConcat DEF c
  <2>3. Count(s, S) = Count(a, S) + Count(b, S) BY <1>5, CountConcat
  <2>4. Count(<<x>>, S) = One(x, S) /\ One(x, S) \in Nat BY CountOne DEF One
  <2>5. Count(a, S) \in Nat /\ Count(b, S) \in Nat BY <1>5, CountType
  <2> QED BY <2>1, <2>2, <2>3, <2>4, <2>5
<1> QED BY <1>4, <1>8, <1>10, <1>11 DEF r, c

\* erase of what find returned keeps the order and takes one copy.
LEMMA EvictedFacts ==
    ASSUME NEW s \in Seq(Values), Sorted(s), NEW y \in Values, Count(s, {y}) # 0
    PROVE  /\ Evicted(s, y) \in Seq(Values) /\ Sorted(Evicted(s, y))
           /\ \A S: Count(Evicted(s, y), S) = Count(s, S) - One(y, S)
<1> DEFINE n == Len(s)
           at == CHOOSE i \in DOMAIN s: s[i] = y
           k == at - 1
           a == SubSeq(s, 1, k)
           c == SubSeq(s, 1, at)
           b == SubSeq(s, at + 1, n)
           r == a \o b
<1>1. n \in Nat /\ DOMAIN s = 1..n /\ \A i \in 1..n: s[i] \in Nat
  BY LenProperties, ElementOfSeq, MetricsAssumption
<1>2. \E i \in DOMAIN s: s[i] = y BY CountPresent
<1>3. at \in 1..n /\ s[at] = y BY <1>1, <1>2
<1>4. Evicted(s, y) = r
  <2>1. y \in ToSet(s) BY <1>2 DEF ToSet
  <2>2. Evicted(s, y) = SubSeq(s, 1, at - 1) \o SubSeq(s, at + 1, Len(s))
    BY <2>1 DEF Evicted, RemoveAt
  <2> QED BY <2>2
<1> HIDE DEF at
<1>5. k \in 0..n /\ at \in 0..n BY <1>1, <1>3
<1>6. a \in Seq(Values) /\ Len(a) = k /\ \A i \in 1..k: a[i] = s[i]
  <2> HIDE DEF k
  <2> QED BY <1>5, CutAt
<1>7. /\ b \in Seq(Values) /\ Len(b) = n - at /\ \A i \in 1..(n - at): b[i] = s[at + i]
      /\ s = c \o b /\ c \in Seq(Values)
  BY <1>5, CutAt
<1>8. c = a \o <<y>>
  <2>1. 1 \in 1..n /\ at \in 1..n BY <1>1, <1>3
  <2> QED BY <1>3, <2>1, SubSeqRecursiveSecond
<1> HIDE DEF a, b, c, n
<1>9. /\ r \in Seq(Values) /\ Len(r) = n - 1
      /\ \A i \in 1..(n - 1): r[i] = IF i < at THEN s[i] ELSE s[i + 1]
  <2>1. /\ r \in Seq(Values) /\ Len(r) = k + (n - at)
        /\ \A i \in 1..(k + (n - at)): r[i] = IF i <= k THEN a[i] ELSE b[i - k]
    <3>1. /\ r \in Seq(Values) /\ Len(r) = Len(a) + Len(b)
          /\ \A i \in 1..(Len(a) + Len(b)): r[i] = IF i <= Len(a) THEN a[i] ELSE b[i - Len(a)]
      BY <1>6, <1>7, ConcatProperties
    <3> HIDE DEF r, k
    <3> QED BY <1>6, <1>7, <3>1
  <2> HIDE DEF r
  <2>2. k + (n - at) = n - 1 BY <1>1, <1>3
  <2>3. ASSUME NEW i \in 1..(n - 1) PROVE r[i] = IF i < at THEN s[i] ELSE s[i + 1]
    <3>1. CASE i < at
      <4>1. i \in 1..k BY <1>3, <3>1
      <4> QED BY <1>6, <2>1, <2>2, <3>1, <4>1
    <3>2. CASE i >= at
      <4>1. i - k \in 1..(n - at) /\ at + (i - k) = i + 1 /\ ~ (i <= k) BY <1>1, <1>3, <3>2
      <4>2. b[i - k] = s[i + 1] BY <1>7, <4>1
      <4> HIDE DEF k
      <4> QED BY <1>3, <2>1, <2>2, <3>2, <4>1, <4>2
    <3> QED BY <1>3, <3>1, <3>2
  <2> QED BY <2>1, <2>2, <2>3
<1> HIDE DEF r, k
<1>10. Sorted(r)
  <2>1. DOMAIN r = 1..(n - 1) BY <1>9, LenProperties
  <2> SUFFICES ASSUME NEW i \in 1..(n - 1), NEW j \in 1..(n - 1), i <= j PROVE r[i] <= r[j]
    BY <2>1 DEF Sorted
  <2> DEFINE From(l) == IF l < at THEN l ELSE l + 1
  <2>2. From(i) \in 1..n /\ From(j) \in 1..n /\ From(i) <= From(j) BY <1>1, <1>3
  <2>3. r[i] = s[From(i)] /\ r[j] = s[From(j)] BY <1>9
  <2> HIDE DEF From
  <2> QED BY <1>1, <2>2, <2>3 DEF Sorted
<1>11. ASSUME NEW S PROVE Count(r, S) = Count(s, S) - One(y, S)
  <2>1. Count(r, S) = Count(a, S) + Count(b, S) BY <1>6, <1>7, CountConcat DEF r
  <2>2. Count(s, S) = Count(c, S) + Count(b, S) BY <1>7, CountConcat
  <2>3. <<y>> \in Seq(Values) OBVIOUS
  <2>4. Count(c, S) = Count(a, S) + Count(<<y>>, S) BY <1>6, <1>8, <2>3, CountConcat
  <2>5. Count(<<y>>, S) = One(y, S) /\ One(y, S) \in Nat BY CountOne DEF One
  <2>6. Count(a, S) \in Nat /\ Count(b, S) \in Nat BY <1>6, <1>7, CountType
  <2> QED BY <2>1, <2>2, <2>4, <2>5, <2>6
<1> QED BY <1>4, <1>9, <1>10, <1>11

LEMMA SameCardinality == ASSUME NEW S PROVE Promise!Cardinality(S) = Cardinality(S)
BY DEF Promise!Cardinality, Cardinality

\* What is at a place of the mirror is the order statistic of the window.
LEMMA OrderStatisticIs ==
    ASSUME NEW w \in Seq(Values), NEW m \in Seq(Values), Sorted(m),
           \A S \in SUBSET Values: Count(m, S) = Count(w, S),
           NEW k \in Nat, k < Len(m)
    PROVE  Promise!OrderStatistic(w, k) = m[k + 1]
<1> DEFINE v == m[k + 1]
           Below(s, u) == {i \in DOMAIN s: s[i] < u}
           UpTo(s, u) == {i \in DOMAIN s: s[i] <= u}
           Is(u) == Cardinality(Below(w, u)) <= k /\ Cardinality(UpTo(w, u)) > k
<1>1. /\ DOMAIN m = 1..Len(m) /\ Len(m) \in Nat /\ \A i \in 1..Len(m): m[i] \in Values
      /\ \A i \in DOMAIN w: w[i] \in Values
      /\ Values \subseteq Nat
  BY LenProperties, ElementOfSeq, MetricsAssumption
<1>2. ASSUME NEW u \in Values
      PROVE  /\ Cardinality(Below(w, u)) = Cardinality(Below(m, u))
             /\ Cardinality(UpTo(w, u)) = Cardinality(UpTo(m, u))
             /\ IsFiniteSet(Below(w, u)) /\ IsFiniteSet(Below(m, u)) /\ IsFiniteSet(UpTo(m, u))
  <2> DEFINE L == {z \in Values: z < u}
             H == {z \in Values: z <= u}
  <2>1. /\ Below(w, u) = {i \in DOMAIN w: w[i] \in L} /\ UpTo(w, u) = {i \in DOMAIN w: w[i] \in H}
        /\ Below(m, u) = {i \in DOMAIN m: m[i] \in L} /\ UpTo(m, u) = {i \in DOMAIN m: m[i] \in H}
    BY <1>1
  <2>2. L \in SUBSET Values /\ H \in SUBSET Values OBVIOUS
  <2> HIDE DEF L, H, Below, UpTo
  <2>3. Count(m, L) = Count(w, L) /\ Count(m, H) = Count(w, H) BY <2>2
  <2>4. /\ IsFiniteSet(Below(w, u)) /\ Cardinality(Below(w, u)) = Count(w, L)
        /\ IsFiniteSet(Below(m, u)) /\ Cardinality(Below(m, u)) = Count(m, L)
    <3>1. /\ IsFiniteSet({i \in DOMAIN w: w[i] \in L})
          /\ Cardinality({i \in DOMAIN w: w[i] \in L}) = Count(w, L)
      BY CountIsCardinality
    <3>2. /\ IsFiniteSet({i \in DOMAIN m: m[i] \in L})
          /\ Cardinality({i \in DOMAIN m: m[i] \in L}) = Count(m, L)
      BY CountIsCardinality
    <3> QED BY <2>1, <3>1, <3>2
  <2>5. /\ Cardinality(UpTo(w, u)) = Count(w, H)
        /\ IsFiniteSet(UpTo(m, u)) /\ Cardinality(UpTo(m, u)) = Count(m, H)
    <3>1. Cardinality({i \in DOMAIN w: w[i] \in H}) = Count(w, H) BY CountIsCardinality
    <3>2. /\ IsFiniteSet({i \in DOMAIN m: m[i] \in H})
          /\ Cardinality({i \in DOMAIN m: m[i] \in H}) = Count(m, H)
      BY CountIsCardinality
    <3> QED BY <2>1, <3>1, <3>2
  <2> QED BY <2>3, <2>4, <2>5
<1>3. v \in Values /\ k + 1 \in DOMAIN m BY <1>1
<1>4. Is(v)
  <2>1. Below(m, v) \subseteq 1..k
    <3> SUFFICES ASSUME NEW i \in DOMAIN m, m[i] < v, ~ (i <= k) PROVE FALSE BY <1>1
    <3>0. i \in Nat /\ k + 1 <= i /\ m[i] \in Nat /\ v \in Nat
      <4>1. i \in 1..Len(m) BY <1>1
      <4>2. i \in Nat /\ k + 1 <= i BY <1>1, <4>1
      <4>3. m[i] \in Nat BY <1>1, <4>1
      <4> HIDE DEF v
      <4>4. v \in Nat BY <1>1, <1>3
      <4> QED BY <4>2, <4>3, <4>4
    <3>1. v <= m[i] BY <1>1, <1>3, <3>0 DEF Sorted
    <3> HIDE DEF v
    <3> QED BY <3>0, <3>1
  <2>2. 1..(k + 1) \subseteq UpTo(m, v)
    <3> SUFFICES ASSUME NEW i \in 1..(k + 1) PROVE i \in DOMAIN m /\ m[i] <= v OBVIOUS
    <3> QED BY <1>1, <1>3 DEF Sorted
  <2>3. /\ IsFiniteSet(1..k) /\ Cardinality(1..k) = k
        /\ IsFiniteSet(1..(k + 1)) /\ Cardinality(1..(k + 1)) = k + 1
    <3>1. \A l \in Nat: IsFiniteSet(1..l) /\ Cardinality(1..l) = l
      <4> SUFFICES ASSUME NEW l \in Nat PROVE IsFiniteSet(1..l) /\ Cardinality(1..l) = l OBVIOUS
      <4>1. IsFiniteSet(1..l) BY FS_Interval
      <4>2. Cardinality(1..l) = IF 1 > l THEN 0 ELSE l - 1 + 1 BY FS_Interval
      <4> QED BY <4>1, <4>2
    <3>2. k + 1 \in Nat OBVIOUS
    <3> QED BY <3>1, <3>2
  <2>4. /\ Cardinality(Below(w, v)) = Cardinality(Below(m, v))
        /\ Cardinality(UpTo(w, v)) = Cardinality(UpTo(m, v))
        /\ IsFiniteSet(Below(m, v)) /\ IsFiniteSet(UpTo(m, v))
    BY <1>2, <1>3
  <2> HIDE DEF Below, UpTo, v
  <2>5. Cardinality(Below(m, v)) <= k BY <2>1, <2>3, FS_Subset
  <2>6. k + 1 <= Cardinality(UpTo(m, v)) BY <2>2, <2>3, <2>4, FS_Subset
  <2>7. Cardinality(UpTo(m, v)) \in Nat BY <2>4, FS_CardinalityType
  <2> QED BY <2>4, <2>5, <2>6, <2>7
<1>5. ASSUME NEW u \in Values, NEW z \in Values, u < z, Is(u), Is(z) PROVE FALSE
  <2>1. UpTo(w, u) \subseteq Below(w, z)
    <3>1. \A i \in DOMAIN w: w[i] \in Nat /\ u \in Nat /\ z \in Nat BY <1>1
    <3> QED BY <1>5, <3>1
  <2>2. IsFiniteSet(Below(w, z)) BY <1>2
  <2> HIDE DEF Below, UpTo
  <2>3. Cardinality(UpTo(w, u)) <= Cardinality(Below(w, z)) /\ IsFiniteSet(UpTo(w, u))
    BY <2>1, <2>2, FS_Subset
  <2>4. Cardinality(UpTo(w, u)) \in Nat /\ Cardinality(Below(w, z)) \in Nat
    BY <2>2, <2>3, FS_CardinalityType
  <2> QED BY <1>5, <2>3, <2>4
<1>6. v \in ToSet(w) /\ ToSet(w) \subseteq Values
  <2>1. Count(m, {v}) # 0 BY <1>3, CountPresent
  <2>2. {v} \in SUBSET Values BY <1>3
  <2>3. Count(w, {v}) # 0 BY <2>1, <2>2
  <2> HIDE DEF v
  <2>4. \E i \in DOMAIN w: w[i] = v BY <2>3, CountPresent
  <2> QED BY <1>1, <2>4 DEF ToSet
<1>7. Promise!OrderStatistic(w, k) = CHOOSE u \in ToSet(w): Is(u) 
  <2>1. ToSet(w) = Promise!ToSet(w) BY DEF ToSet, Promise!ToSet
  <2>2. \A S: Promise!Cardinality(S) = Cardinality(S) BY SameCardinality
  <2> QED BY <2>1, <2>2 DEF Promise!OrderStatistic
<1> HIDE DEF Is, v
<1>8. \A u \in ToSet(w): Is(u) => u = v
  <2> SUFFICES ASSUME NEW u \in ToSet(w), Is(u), u # v PROVE FALSE OBVIOUS
  <2>1. u \in Values /\ u \in Nat /\ v \in Nat BY <1>1, <1>3, <1>6
  <2>2. u < v \/ v < u BY <2>1
  <2> QED BY <1>3, <1>4, <1>5, <2>1, <2>2
<1> QED BY <1>4, <1>6, <1>7, <1>8 DEF v

\* The mirror is in order and holds every value as often as the window does.
MirrorInv ==
    /\ mirror \in Seq(Values) /\ Sorted(mirror)
    /\ \A S \in SUBSET Values: Count(mirror, S) = Count(frametimes, S)

LEMMA PushMirrors ==
    ASSUME WindowInv, MirrorInv, NEW x \in Values, PushSample(x)
    PROVE  MirrorInv'
<1> DEFINE w == frametimes
           full == Len(w) >= limit
           h == Head(w)
           kept == IF full THEN Evicted(mirror, h) ELSE mirror
           left == IF full THEN Tail(w) ELSE w
<1>1. frametimes' = Append(left, x) /\ mirror' = Inserted(kept, x) BY DEF PushSample, IsFull
<1>2. w \in Seq(Values) /\ mirror \in Seq(Values) /\ Sorted(mirror)
  BY DEF WindowInv, MirrorInv
<1>3. /\ left \in Seq(Values) /\ kept \in Seq(Values) /\ Sorted(kept)
      /\ \A S \in SUBSET Values: Count(kept, S) = Count(left, S)
  <2>1. CASE full
    <3>1. w # <<>> BY <2>1, EmptySeq DEF WindowInv
    <3>2. /\ h \in Values /\ Tail(w) \in Seq(Values) /\ w = <<h>> \o Tail(w)
          /\ <<h>> \in Seq(Values)
      BY <1>2, <3>1, HeadAndTail
    <3>3. ASSUME NEW S PROVE Count(w, S) = One(h, S) + Count(Tail(w), S)
      <4> HIDE DEF h, w
      <4>1. Count(<<h>> \o Tail(w), S) = Count(<<h>>, S) + Count(Tail(w), S)
        BY <3>2, CountConcat
      <4>2. Count(<<h>>, S) = One(h, S) BY <3>2, CountOne
      <4> QED BY <3>2, <4>1, <4>2
    <3>4. \A S: Count(Tail(w), S) \in Nat BY <3>2, CountType
    <3>5. Count(mirror, {h}) # 0
      <4>1. Count(mirror, {h}) = Count(w, {h}) BY <3>2 DEF MirrorInv
      <4>2. One(h, {h}) = 1 BY DEF One
      <4> QED BY <3>3, <3>4, <4>1, <4>2
    <3> HIDE DEF h, w
    <3>6. /\ Evicted(mirror, h) \in Seq(Values) /\ Sorted(Evicted(mirror, h))
          /\ \A S: Count(Evicted(mirror, h), S) = Count(mirror, S) - One(h, S)
      BY <1>2, <3>2, <3>5, EvictedFacts
    <3>7. ASSUME NEW S \in SUBSET Values
          PROVE  Count(Evicted(mirror, h), S) = Count(Tail(w), S)
      <4>1. Count(mirror, S) = Count(w, S) BY DEF MirrorInv, w
      <4>2. One(h, S) \in Nat BY DEF One
      <4> QED BY <3>3, <3>4, <3>6, <4>1, <4>2
    <3> QED BY <2>1, <3>2, <3>6, <3>7
  <2>2. CASE ~full BY <1>2, <2>2 DEF MirrorInv
  <2> QED BY <2>1, <2>2
<1> HIDE DEF kept, left
<1>4. /\ Inserted(kept, x) \in Seq(Values) /\ Sorted(Inserted(kept, x))
      /\ \A S: Count(Inserted(kept, x), S) = Count(kept, S) + One(x, S)
  BY <1>3, InsertedFacts
<1>5. \A S: Count(Append(left, x), S) = Count(left, S) + One(x, S) BY <1>3, CountAppend
<1> QED BY <1>1, <1>3, <1>4, <1>5 DEF MirrorInv, Sorted

\* So reading the mirror at a place gives the order statistic of the window.
LEMMA GetAtIs ==
    ASSUME WindowInv, MirrorInv, NEW k \in Nat, k < Len(frametimes)
    PROVE  /\ Len(mirror) = Len(frametimes)
           /\ GetAt(mirror, k) = Promise!OrderStatistic(frametimes, k)
           /\ GetAt(mirror, k) = mirror[k + 1] /\ GetAt(mirror, k) \in Int
<1> DEFINE n == Len(mirror)
           w == frametimes
<1>1. /\ w \in Seq(Values) /\ mirror \in Seq(Values) /\ Sorted(mirror)
      /\ \A S \in SUBSET Values: Count(mirror, S) = Count(w, S)
  BY DEF WindowInv, MirrorInv
<1>2. n = Len(w)
  <2>1. Count(mirror, Values) = Count(w, Values) BY <1>1
  <2>2. Count(mirror, Values) = Len(mirror) /\ Count(w, Values) = Len(w) BY <1>1, CountAll
  <2> QED BY <2>1, <2>2
<1>3. n \in Nat /\ \A i \in 1..n: mirror[i] \in Values BY <1>1, LenProperties, ElementOfSeq
<1>4. Promise!OrderStatistic(w, k) = mirror[k + 1] BY <1>1, <1>2, OrderStatisticIs
<1>5. mirror[k + 1] \in Int
  <2>1. k + 1 \in 1..n BY <1>2, <1>3
  <2>2. mirror[k + 1] \in Values BY <1>3, <2>1
  <2>3. Values \subseteq Int BY MetricsAssumption
  <2> QED BY <2>2, <2>3
<1>6. GetAt(mirror, k) = mirror[k + 1]
  <2>1. n + 1 - ((n - 1 - k) + 1) = k + 1 BY <1>3
  <2> HIDE DEF n
  <2>2. GetAt(mirror, k) = IF n - 1 - k < k THEN mirror[n + 1 - ((n - 1 - k) + 1)]
                           ELSE mirror[k + 1]
    BY DEF GetAt, n
  <2> QED BY <2>1, <2>2
<1> QED BY <1>2, <1>4, <1>5, <1>6

-----------------------------------------------------------------------------
(* Percentiles *)

\* The promise's arithmetic is the engine's.
LEMMA SameGcd == Promise!Gcd = Gcd
BY DEF Promise!Gcd, Gcd

LEMMA SameArithmetic ==
    /\ \A n, d: Promise!Frac(n, d) = Frac(n, d)
    /\ \A i: Promise!Whole(i) = Whole(i)
    /\ Promise!Zero = Zero
    /\ \A a, b: /\ Promise!Plus(a, b) = Plus(a, b) /\ Promise!Minus(a, b) = Minus(a, b)
                /\ Promise!Times(a, b) = Times(a, b) /\ Promise!Over(a, b) = Over(a, b)
    /\ \A a: Promise!FloorOf(a) = FloorOf(a) /\ Promise!CeilOf(a) = CeilOf(a)
<1>1. \A i: Promise!AbsInt(i) = AbsInt(i) BY DEF Promise!AbsInt, AbsInt
<1>2. \A n, d: Promise!Frac(n, d) = Frac(n, d) BY <1>1, SameGcd DEF Promise!Frac, Frac
<1>3. \A i: Promise!Whole(i) = Whole(i) BY DEF Promise!Whole, Whole
<1>4. Promise!Zero = Zero BY <1>3 DEF Promise!Zero, Zero
<1>5. \A a, b: /\ Promise!Plus(a, b) = Plus(a, b) /\ Promise!Minus(a, b) = Minus(a, b)
               /\ Promise!Times(a, b) = Times(a, b) /\ Promise!Over(a, b) = Over(a, b)
  BY <1>2 DEF Promise!Plus, Promise!Minus, Promise!Times, Promise!Over, Plus, Minus, Times, Over
<1>6. \A a: Promise!FloorOf(a) = FloorOf(a) /\ Promise!CeilOf(a) = CeilOf(a)
  BY DEF Promise!FloorOf, Promise!CeilOf, FloorOf, CeilOf
<1> QED BY <1>2, <1>3, <1>4, <1>5, <1>6

\* The two places around a fraction of the way to the last place are places.
LEMMA FloorAndCeil ==
    ASSUME NEW n \in Nat, NEW m \in Nat, n <= 1000 * m
    PROVE  LET at == Frac(n, 1000) IN
           FloorOf(at) \in 0..m /\ CeilOf(at) \in 0..m
<1> DEFINE f == Frac(n, 1000)
           a == f[1]
           b == f[2]
<1>1. n \in Int /\ 0 <= n /\ n <= 1000 * m /\ (m = 0 => n = 0) OBVIOUS
<1>2. a \in Int /\ b \in Nat /\ b # 0 /\ a * 1000 = n * b
  <2> DEFINE d == 1000
  <2>1. d \in Nat /\ d # 0 OBVIOUS
  <2> HIDE DEF d
  <2> QED BY <1>1, <2>1, FracTerms DEF d
<1> HIDE DEF a, b
<1>3. 0 <= a /\ a <= m * b /\ (m = 0 => a = 0)
  <2>1. 0 <= n * b BY <1>1, <1>2
  <2>2. n * b <= (1000 * m) * b
    <3>1. 0 <= (1000 * m - n) * b BY <1>1, <1>2
    <3>2. (1000 * m - n) * b = (1000 * m) * b - n * b BY <1>1, <1>2
    <3> QED BY <1>1, <1>2, <3>1, <3>2
  <2>3. (1000 * m) * b = 1000 * (m * b) /\ m * b \in Int BY <1>2
  <2>4. m = 0 => n * b = 0 BY <1>1, <1>2
  <2> QED BY <1>1, <1>2, <2>1, <2>2, <2>3, <2>4
<1> DEFINE q == a \div b
           r == a % b
           u == (-a) \div b
           v == (-a) % b
<1>4. q \in Int /\ r \in 0..(b - 1) /\ a = b * q + r BY <1>2
<1>5. u \in Int /\ v \in 0..(b - 1) /\ -a = b * u + v BY <1>2
<1> HIDE DEF q, r, u, v
<1>6. 0 <= q /\ q <= m
  <2>1. ASSUME q <= -1 PROVE FALSE
    <3>1. b * q <= b * (-1) BY <1>2, <1>4, <2>1
    <3> QED BY <1>2, <1>3, <1>4, <3>1
  <2>2. ASSUME q >= m + 1 PROVE FALSE
    <3>1. b * q >= b * (m + 1) /\ b * (m + 1) = m * b + b BY <1>2, <1>4, <2>2
    <3>2. m * b \in Int BY <1>2
    <3> QED BY <1>2, <1>3, <1>4, <3>1, <3>2
  <2> QED BY <1>4, <2>1, <2>2
<1>7. u <= 0 /\ -m <= u
  <2>1. ASSUME u >= 1 PROVE FALSE
    <3>1. b * u >= b * 1 BY <1>2, <1>5, <2>1
    <3> QED BY <1>2, <1>3, <1>5, <3>1
  <2>2. ASSUME u <= -m - 1 PROVE FALSE
    <3>1. b * u <= b * (-m - 1) /\ b * (-m - 1) = - (m * b) - b BY <1>2, <1>5, <2>2
    <3>2. m * b \in Int BY <1>2
    <3> QED BY <1>2, <1>3, <1>5, <3>1, <3>2
  <2> QED BY <1>5, <2>1, <2>2
<1>8. FloorOf(f) = q /\ CeilOf(f) = -u BY DEF FloorOf, CeilOf, q, u, a, b
<1> HIDE DEF f
<1>9. FloorOf(f) \in 0..m /\ CeilOf(f) \in 0..m
  BY <1>4, <1>5, <1>6, <1>7, <1>8
<1> QED BY <1>9 DEF f

\* Interpolating between a value and itself gives it back.
LEMMA Interpolated ==
    ASSUME NEW v \in Int, NEW i \in Int, NEW n \in Int, NEW d \in Nat, d # 0
    PROVE  Plus(Whole(v), Times(Minus(Whole(v), Whole(v)), Minus(Frac(n, d), Whole(i)))) = Whole(v)
<1>1. Whole(v) = Frac(v, 1) /\ Whole(i) = Frac(i, 1) BY WholeIsFrac
<1> DEFINE one == 1
           none == 0
<1>2. one \in Nat /\ one # 0 /\ none \in Int OBVIOUS
<1>3. Minus(Frac(v, one), Frac(v, one)) = Frac(none, one)
  <2>1. v * one - v * one = none /\ one * one = one OBVIOUS
  <2> HIDE DEF one, none
  <2> QED BY <1>2, <2>1, MinusFrac
<1>4. Minus(Frac(n, d), Frac(i, one)) = Frac(n * one - i * d, d * one)
  <2> HIDE DEF one
  <2> QED BY <1>2, MinusFrac
<1> DEFINE k == n * one - i * d
<1>5. k \in Int /\ d * one = d BY <1>2
<1> HIDE DEF k
<1>6. Times(Frac(none, one), Frac(k, d)) = Frac(none, d)
  <2>1. none * k = none /\ one * d = d BY <1>5
  <2> HIDE DEF one, none
  <2>2. Times(Frac(none, one), Frac(k, d)) = Frac(none * k, one * d)
    BY <1>2, <1>5, TimesFrac
  <2> QED BY <2>1, <2>2
<1>7. Plus(Frac(v, one), Frac(none, d)) = Frac(v * d, d)
  <2>1. v * d + none * one = v * d /\ one * d = d BY <1>5
  <2> HIDE DEF one, none
  <2> QED BY <1>2, <1>5, <2>1, PlusFrac
<1>8. Frac(v * d, d) = Frac(v, one)
  <2>1. v * d \in Int /\ (v * d) * one = v * d BY <1>5
  <2> HIDE DEF one
  <2> QED BY <1>2, <2>1, FracEqual
<1> QED BY <1>1, <1>3, <1>4, <1>5, <1>6, <1>7, <1>8 DEF one, k

LEMMA PercentileIs ==
    ASSUME WindowInv, MirrorInv, frametimes # <<>>, NEW p \in Int
    PROVE  PercentileFromSorted(mirror, p) = Promise!Percentile(frametimes, Clamped(p))
<1> DEFINE n == Len(frametimes)
           c == Clamped(p)
           m == n - 1
           s == c * m
           at == Frac(s, 1000)
           i == FloorOf(at)
           j == CeilOf(at)
           low == Whole(GetAt(mirror, i))
           high == Whole(GetAt(mirror, j))
           mid == Plus(low, Times(Minus(high, low), Minus(at, Whole(i))))
<1>1. n \in Nat /\ n # 0 /\ m \in Nat /\ c \in 0..1000
  BY EmptySeq, LenProperties DEF WindowInv, Clamped
<1>2. i \in 0..m /\ j \in 0..m
  <2> HIDE DEF c, m
  <2>1. 0 <= c * m BY <1>1
  <2>2. (1000 - c) * m >= 0 BY <1>1
  <2>3. (1000 - c) * m = 1000 * m - c * m /\ c * m \in Int BY <1>1
  <2>4. s \in Nat /\ s <= 1000 * m BY <1>1, <2>1, <2>2, <2>3
  <2> HIDE DEF s
  <2> QED BY <1>1, <2>4, FloorAndCeil
<1>3. s \in Int
  <2> HIDE DEF c, m
  <2> QED BY <1>1
<1> HIDE DEF i, j
<1>4. i < n /\ j < n BY <1>1, <1>2
<1>5. /\ Len(mirror) = n
      /\ GetAt(mirror, i) = Promise!OrderStatistic(frametimes, i)
      /\ GetAt(mirror, j) = Promise!OrderStatistic(frametimes, j)
      /\ GetAt(mirror, i) \in Int /\ GetAt(mirror, i) = mirror[i + 1]
  BY <1>2, <1>4, GetAtIs
<1>6. Promise!Percentile(frametimes, c) = mid
  <2> HIDE DEF c
  <2> QED BY <1>5, SameArithmetic DEF Promise!Percentile, i, j
<1>7. PercentileFromSorted(mirror, p) = IF n = 1 THEN Whole(mirror[1]) ELSE IF i = j THEN low ELSE mid
  <2>1. PercentileFromSorted(mirror, p) = IF Len(mirror) = 1 THEN Whole(mirror[1]) ELSE IF i = j THEN low ELSE mid
    BY <1>5 DEF PercentileFromSorted, i, j
  <2> QED BY <1>5, <2>1
<1>8. i = j => mid = low
  <2> DEFINE d == 1000
  <2>1. d \in Nat /\ d # 0 OBVIOUS
  <2> HIDE DEF d, s
  <2>2. Plus(low, Times(Minus(low, low), Minus(Frac(s, d), Whole(i)))) = low
    BY <1>2, <1>3, <1>5, <2>1, Interpolated
  <2> QED BY <2>2 DEF d
<1> HIDE DEF low, high, mid
<1>9. n = 1 => i = j /\ low = Whole(mirror[1])
  <2> SUFFICES ASSUME n = 1 PROVE i = j /\ low = Whole(mirror[1]) OBVIOUS
  <2>1. i = 0 /\ j = 0 BY <1>1, <1>2
  <2> QED BY <1>5, <2>1 DEF low
<1> QED BY <1>6, <1>7, <1>8, <1>9

-----------------------------------------------------------------------------
(* Sums over the window *)

Plain == [x \in Values |-> x]

Square == [x \in Values |-> x * x]

Deviation(n, s) == [x \in Values |-> (n * x - s) * (n * x - s)]

Sum(w) == SumOf(w, Plain)

Squares(w) == SumOf(w, Square)

LEMMA WholeValues == Values \subseteq Int /\ Plain \in [Values -> Int] /\ Square \in [Values -> Int]
<1>1. Values \subseteq Int BY MetricsAssumption
<1>2. \A x \in Values: x \in Int /\ x * x \in Int BY <1>1
<1> QED BY <1>1, <1>2 DEF Plain, Square

LEMMA MomentsEmpty == Sum(<<>>) = 0 /\ Squares(<<>>) = 0
BY SumEmpty DEF Sum, Squares

LEMMA MomentsAppend ==
    ASSUME NEW w \in Seq(Values), NEW x \in Values
    PROVE  /\ x \in Int /\ Sum(w) \in Int /\ Squares(w) \in Int
           /\ Sum(Append(w, x)) = Sum(w) + x /\ Squares(Append(w, x)) = Squares(w) + x * x
<1>1. Plain \in [Values -> Int] /\ Square \in [Values -> Int] /\ x \in Int BY WholeValues
<1>2. SumOf(w, Plain) \in Int /\ SumOf(Append(w, x), Plain) = SumOf(w, Plain) + Plain[x]
  BY <1>1, SumAppend
<1>3. SumOf(w, Square) \in Int /\ SumOf(Append(w, x), Square) = SumOf(w, Square) + Square[x]
  BY <1>1, SumAppend
<1> QED BY <1>1, <1>2, <1>3 DEF Sum, Squares, Plain, Square

LEMMA MomentsType == ASSUME NEW w \in Seq(Values) PROVE Sum(w) \in Int /\ Squares(w) \in Int
BY WholeValues, SumType DEF Sum, Squares

LEMMA MomentsTail ==
    ASSUME NEW w \in Seq(Values), w # <<>>
    PROVE  /\ Head(w) \in Values /\ Tail(w) \in Seq(Values)
           /\ Sum(Tail(w)) = Sum(w) - Head(w)
           /\ Squares(Tail(w)) = Squares(w) - Head(w) * Head(w)
<1>1. Plain \in [Values -> Int] /\ Square \in [Values -> Int] BY WholeValues
<1>2. Head(w) \in Values /\ Tail(w) \in Seq(Values) BY HeadTailProperties
<1>3. SumOf(Tail(w), Plain) = SumOf(w, Plain) - Plain[Head(w)] BY <1>1, SumTail
<1>4. SumOf(Tail(w), Square) = SumOf(w, Square) - Square[Head(w)] BY <1>1, SumTail
<1> QED BY <1>2, <1>3, <1>4 DEF Sum, Squares, Plain, Square

LEMMA TotalIsSum == ASSUME NEW w \in Seq(Values) PROVE Promise!Total(w) = Sum(w)
<1>1. Promise!Total(w) = Total(w) BY DEF Promise!Total, Total
<1>2. Mapped(w, Plain) = w
  <2> DEFINE Z == Values
  <2>1. Plain \in [Values -> Z] /\ \A x \in Values: Plain[x] = x BY DEF Plain
  <2> HIDE DEF Z
  <2>2. /\ Mapped(w, Plain) \in Seq(Z) /\ Len(Mapped(w, Plain)) = Len(w)
        /\ \A i \in 1..Len(w): Mapped(w, Plain)[i] = Plain[w[i]] /\ w[i] \in Values
    BY <2>1, MappedType
  <2>3. w \in Seq(Z) BY DEF Z
  <2>4. \A i \in 1..Len(w): Mapped(w, Plain)[i] = w[i] BY <2>1, <2>2
  <2> QED BY <2>2, <2>3, <2>4, SeqEqual
<1> QED BY <1>1, <1>2 DEF Sum, SumOf

LEMMA DeviationType ==
    ASSUME NEW n \in Int, NEW s \in Int
    PROVE  /\ Deviation(n, s) \in [Values -> Int]
           /\ \A x \in Values: /\ x \in Int
                               /\ Deviation(n, s)[x] = (n * x - s) * (n * x - s)
                               /\ Deviation(n, s)[x] >= 0
<1>1. \A x \in Values: x \in Int BY WholeValues
<1>2. \A x \in Int: (n * x - s) * (n * x - s) \in Int /\ (n * x - s) * (n * x - s) >= 0
  <2>1. \A z \in Int: z * z >= 0 OBVIOUS
  <2>2. \A x \in Int: n * x - s \in Int OBVIOUS
  <2> QED BY <2>1, <2>2
<1> QED BY <1>1, <1>2 DEF Deviation

LEMMA SumOfDeviations ==
    ASSUME NEW n \in Int, NEW s \in Int, NEW w \in Seq(Values)
    PROVE  /\ SumOf(w, Deviation(n, s)) >= 0
           /\ SumOf(w, Deviation(n, s)) =
                  (n * n) * Squares(w) - (2 * (n * s)) * Sum(w) + Len(w) * (s * s)
<1> DEFINE D == Deviation(n, s)
           a == n * n
           b == 2 * (n * s)
           c == s * s
           G == {u \in Seq(Values): /\ SumOf(u, D) >= 0
                                    /\ SumOf(u, D) = a * Squares(u) - b * Sum(u) + Len(u) * c}
<1>0. a \in Int /\ b \in Int /\ c \in Int OBVIOUS
<1>1. <<>> \in G
  <2>1. <<>> \in Seq(Values) /\ Len(<<>>) = 0 BY EmptySeq
  <2>2. SumOf(<<>>, D) = 0 /\ Squares(<<>>) = 0 /\ Sum(<<>>) = 0 BY SumEmpty, MomentsEmpty
  <2> HIDE DEF D, a, b, c
  <2> QED BY <1>0, <2>1, <2>2
<1>2. ASSUME NEW u \in Seq(Values), NEW x \in Values, u \in G PROVE Append(u, x) \in G
  <2>1. D \in [Values -> Int] /\ D[x] = (n * x - s) * (n * x - s) /\ D[x] >= 0 /\ x \in Int
    BY DeviationType
  <2>2. D[x] = a * (x * x) - b * x + c /\ D[x] \in Int BY <2>1
  <2> HIDE DEF D, a, b, c
  <2>3. SumOf(u, D) \in Int /\ SumOf(Append(u, x), D) = SumOf(u, D) + D[x] BY <2>1, SumAppend
  <2>4. /\ Sum(u) \in Int /\ Squares(u) \in Int
        /\ Sum(Append(u, x)) = Sum(u) + x /\ Squares(Append(u, x)) = Squares(u) + x * x
    BY MomentsAppend
  <2>5. Append(u, x) \in Seq(Values) /\ Len(Append(u, x)) = Len(u) + 1 /\ Len(u) \in Nat
    BY AppendProperties, LenProperties
  <2>6. SumOf(u, D) >= 0 /\ SumOf(u, D) = a * Squares(u) - b * Sum(u) + Len(u) * c BY <1>2
  <2> DEFINE q == Squares(u)
             t == Sum(u)
             k == Len(u)
  <2>7. /\ a * (q + x * x) = a * q + a * (x * x)
        /\ b * (t + x) = b * t + b * x
        /\ (k + 1) * c = k * c + c
    BY <1>0, <2>1, <2>4, <2>5
  <2>8. /\ a * q \in Int /\ a * (x * x) \in Int /\ b * t \in Int /\ b * x \in Int /\ k * c \in Int
    BY <1>0, <2>1, <2>4, <2>5
  <2> HIDE DEF q, t, k
  <2>9. SumOf(u, D) + D[x] = a * (q + x * x) - b * (t + x) + (k + 1) * c
    <3> DEFINE aq == a * q
               ax == a * (x * x)
               bt == b * t
               bx == b * x
               kc == k * c
    <3>1. /\ aq \in Int /\ ax \in Int /\ bt \in Int /\ bx \in Int /\ kc \in Int
          /\ SumOf(u, D) = aq - bt + kc /\ D[x] = ax - bx + c
      BY <2>2, <2>6, <2>8 DEF q, t, k
    <3>2. /\ a * (q + x * x) = aq + ax /\ b * (t + x) = bt + bx /\ (k + 1) * c = kc + c
      BY <2>7
    <3> HIDE DEF aq, ax, bt, bx, kc
    <3>3. (aq - bt + kc) + (ax - bx + c) = (aq + ax) - (bt + bx) + (kc + c) BY <1>0, <3>1
    <3> QED BY <3>1, <3>2, <3>3
  <2>10. SumOf(u, D) + D[x] >= 0 BY <2>1, <2>2, <2>3, <2>6
  <2> QED BY <2>3, <2>4, <2>5, <2>9, <2>10 DEF q, t, k
<1>3. Seq(Values) \subseteq G
  <2> HIDE DEF G
  <2>1. G \in SUBSET Seq(Values) BY DEF G
  <2> QED BY <1>1, <1>2, <2>1, SnocInduction
<1> QED BY <1>3

\* The variance is not negative: the clamps of the code change nothing.
LEMMA SpreadNatural ==
    ASSUME NEW w \in Seq(Values)
    PROVE  Len(w) * Squares(w) - Sum(w) * Sum(w) >= 0
<1> DEFINE n == Len(w)
           q == Squares(w)
           t == Sum(w)
<1>1. n \in Nat /\ q \in Int /\ t \in Int BY LenProperties, MomentsType
<1>2. (n * n) * q - (2 * (n * t)) * t + n * (t * t) >= 0
  <2>1. n \in Int BY <1>1
  <2> HIDE DEF n, q, t
  <2>2. /\ SumOf(w, Deviation(n, t)) >= 0
        /\ SumOf(w, Deviation(n, t)) = (n * n) * Squares(w) - (2 * (n * t)) * Sum(w) + Len(w) * (t * t)
    BY <1>1, <2>1, SumOfDeviations
  <2> QED BY <2>2 DEF n, q, t
<1> HIDE DEF n, q, t
<1>3. (n * n) * q - (2 * (n * t)) * t + n * (t * t) = n * (n * q - t * t) BY <1>1
<1>4. CASE n # 0
  <2> DEFINE z == n * q - t * t
  <2>1. z \in Int /\ n * z >= 0 BY <1>1, <1>2, <1>3
  <2> HIDE DEF z
  <2>2. z >= 0 BY <1>1, <1>4, <2>1
  <2> QED BY <2>2 DEF z, n, q, t
<1>5. CASE n = 0
  <2>1. w = <<>> BY <1>5, EmptySeq DEF n
  <2>2. t = 0 /\ q = 0 BY <2>1, MomentsEmpty DEF q, t
  <2>3. n * q - t * t >= 0 BY <1>1, <1>5, <2>2
  <2> QED BY <2>3 DEF n, q, t
<1> QED BY <1>4, <1>5

\* The promised sum of squared distances, over one denominator.
LEMMA DeviationsAre ==
    ASSUME NEW w \in Seq(Values), NEW n \in Nat, n # 0, NEW s \in Int
    PROVE  Promise!SquaredDeviations(w, Frac(s, n)) = Frac(SumOf(w, Deviation(n, s)), n * n)
<1> DEFINE D == Deviation(n, s)
           m == Frac(s, n)
           k == Len(w)
           Term(x) == Times(Minus(Whole(x), m), Minus(Whole(x), m))
           Steps(h) == h = [i \in 0..k |-> IF i = 0 THEN Zero ELSE Plus(h[i - 1], Term(w[i]))]
           h0 == CHOOSE h: Steps(h)
<1>1. D \in [Values -> Int] BY DeviationType
<1>2. k \in Nat /\ \A i \in 1..k: w[i] \in Values /\ w[i] \in Int
  BY LenProperties, ElementOfSeq, WholeValues
<1>3. Promise!SquaredDeviations(w, m) = h0[k] BY SameArithmetic DEF Promise!SquaredDeviations
<1> HIDE DEF h0
<1>4. \A i \in 1..k: Term(w[i]) = Frac(D[w[i]], n * n)
  <2> SUFFICES ASSUME NEW x \in Values, x \in Int PROVE Term(x) = Frac(D[x], n * n) BY <1>2
  <2>1. D[x] = (n * x - s) * (n * x - s) BY DeviationType
  <2>2. Minus(Whole(x), m) = Frac(n * x - s, n)
    <3> DEFINE one == 1
    <3>1. one \in Nat /\ one # 0 /\ x * n - s * one = n * x - s /\ one * n = n OBVIOUS
    <3> HIDE DEF one
    <3>2. Minus(Frac(x, one), Frac(s, n)) = Frac(x * n - s * one, one * n) BY <3>1, MinusFrac
    <3> QED BY <3>1, <3>2, WholeIsFrac DEF one
  <2>3. n * x - s \in Int OBVIOUS
  <2> HIDE DEF D
  <2>4. Times(Frac(n * x - s, n), Frac(n * x - s, n)) = Frac((n * x - s) * (n * x - s), n * n)
    <3> DEFINE z == n * x - s
    <3>1. z \in Int BY <2>3
    <3> HIDE DEF z
    <3>2. Times(Frac(z, n), Frac(z, n)) = Frac(z * z, n * n) BY <3>1, TimesFrac
    <3> QED BY <3>2 DEF z
  <2> QED BY <2>1, <2>2, <2>4
<1>5. PICK g: IsFold(g, Int, Int, 0, Sums, Mapped(w, D)) /\ Total(Mapped(w, D)) = g[Len(Mapped(w, D))]
  <2> DEFINE Z == Int
  <2>1. D \in [Values -> Z] BY <1>1
  <2> HIDE DEF Z
  <2>2. /\ Mapped(w, D) \in Seq(Z) /\ Len(Mapped(w, D)) = Len(w)
        /\ \A i \in 1..Len(w): Mapped(w, D)[i] = D[w[i]] /\ w[i] \in Values
    BY <2>1, MappedType
  <2>3. Mapped(w, D) \in Seq(Int) BY <2>2 DEF Z
  <2> QED BY <2>3, TotalIsFold
<1>6. Len(Mapped(w, D)) = k /\ \A i \in 1..k: Mapped(w, D)[i] = D[w[i]]
  <2>1. /\ Mapped(w, D) \in Seq(Int) /\ Len(Mapped(w, D)) = Len(w)
        /\ \A i \in 1..Len(w): Mapped(w, D)[i] = D[w[i]] /\ w[i] \in Values
    BY <1>1, MappedType
  <2> QED BY <2>1
<1> HIDE DEF D, Term
<1>7. /\ g \in [0..k -> Int] /\ g[0] = 0
      /\ \A i \in 1..k: D[w[i]] \in Int /\ g[i - 1] \in Int /\ g[i] = g[i - 1] + D[w[i]]
  <2>1. /\ g \in [0..k -> Int] /\ g[0] = 0
        /\ \A i \in 1..k: g[i] = Sums[<<g[i - 1], Mapped(w, D)[i]>>]
    BY <1>5, <1>6 DEF IsFold
  <2>2. \A i \in 1..k: D[w[i]] \in Int /\ g[i - 1] \in Int
    <3> HIDE DEF k
    <3>1. \A i \in 1..k: i - 1 \in 0..k BY <1>2
    <3> QED BY <1>1, <1>2, <2>1, <3>1
  <2> HIDE DEF k
  <2>3. \A i \in 1..k: g[i] = Sums[<<g[i - 1], D[w[i]]>>] BY <1>6, <2>1
  <2>4. \A y, z \in Int: Sums[<<y, z>>] = y + z BY DEF Sums
  <2>5. \A i \in 1..k: g[i] = g[i - 1] + D[w[i]] BY <2>2, <2>3, <2>4
  <2> QED BY <2>1, <2>2, <2>5
<1> DEFINE h1 == [i \in 0..k |-> Frac(g[i], n * n)]
<1>8. Steps(h1)
  <2>1. n * n \in Nat /\ n * n # 0 OBVIOUS
  <2>2. h1[0] = Zero
    <3> DEFINE d == n * n
               none == 0
    <3>1. Frac(none, d) = Frac(none, 1)
      <4>1. none \in Int /\ 1 \in Nat /\ 1 # 0 /\ none * 1 = none * d BY <2>1
      <4> HIDE DEF d, none
      <4> QED BY <2>1, <4>1, FracEqual DEF d
    <3>2. Zero = Frac(none, 1) BY WholeIsFrac DEF Zero
    <3> QED BY <1>2, <1>7, <3>1, <3>2
  <2>3. ASSUME NEW i \in 1..k PROVE h1[i] = Plus(h1[i - 1], Term(w[i]))
    <3> DEFINE d == n * n
               u == g[i - 1]
               v == D[w[i]]
    <3>1. d \in Nat /\ d # 0 /\ u \in Int /\ v \in Int BY <1>7, <2>1
    <3>2. h1[i - 1] = Frac(u, d) /\ h1[i] = Frac(u + v, d) /\ Term(w[i]) = Frac(v, d)
      BY <1>2, <1>4, <1>7
    <3> HIDE DEF d, u, v, h1
    <3>3. Plus(Frac(u, d), Frac(v, d)) = Frac(u * d + v * d, d * d) BY <3>1, PlusFrac
    <3>4. Frac(u * d + v * d, d * d) = Frac(d * (u + v), d * d)
      <4>1. u * d + v * d = d * (u + v) BY <3>1
      <4> QED BY <4>1
    <3>5. u + v \in Int BY <3>1
    <3>6. Frac(d * (u + v), d * d) = Frac(u + v, d)
      <4> DEFINE z == u + v
      <4>1. z \in Int BY <3>5
      <4> HIDE DEF z
      <4>2. Frac(d * z, d * d) = Frac(z, d) BY <3>1, <4>1, FracCancels
      <4> QED BY <4>2 DEF z
    <3> QED BY <3>2, <3>3, <3>4, <3>6
  <2>4. \A i \in 0..k: h1[i] = IF i = 0 THEN Zero ELSE Plus(h1[i - 1], Term(w[i]))
    <3> HIDE DEF h1
    <3>1. \A i \in 0..k: i = 0 \/ i \in 1..k BY <1>2
    <3> QED BY <2>2, <2>3, <3>1
  <2>5. h1 = [i \in 0..k |-> h1[i]] OBVIOUS
  <2> HIDE DEF h1
  <2> QED BY <2>4, <2>5
<1>9. Steps(h0) BY <1>8 DEF h0
<1> HIDE DEF h1
<1>10. h0[k] = h1[k]
  <2>1. ASSUME NEW h, Steps(h)
        PROVE  h[0] = Zero /\ \A i \in 1..k: h[i] = Plus(h[i - 1], Term(w[i]))
    <3>1. \A i \in 0..k: h[i] = IF i = 0 THEN Zero ELSE Plus(h[i - 1], Term(w[i])) BY <2>1
    <3>2. 0 \in 0..k /\ \A i \in 1..k: i \in 0..k /\ i # 0 BY <1>2
    <3> HIDE DEF Steps
    <3> QED BY <3>1, <3>2
  <2> HIDE DEF Steps
  <2>2. Follows(h0, h1, k) BY <1>8, <1>9, <2>1 DEF Follows
  <2> QED BY <1>2, <2>2, FoldUnique
<1>11. h1[k] = Frac(SumOf(w, D), n * n) BY <1>2, <1>5, <1>6 DEF h1, SumOf
<1> QED BY <1>3, <1>10, <1>11 DEF D

-----------------------------------------------------------------------------
(* Welford's recurrences *)

\* The mean and the M2 of n values with sum s and squares q.
MeanOf(n, s) == Frac(s, n)

SpreadOf(n, s, q) == Frac(n * q - s * s, n)

LEMMA ClampedAtZero ==
    ASSUME NEW n \in Int, n >= 0, NEW d \in Nat, d # 0
    PROVE  Larger(Zero, Frac(n, d)) = Frac(n, d)
<1> DEFINE f == Frac(n, d)
           a == f[1]
           b == f[2]
<1>1. a \in Int /\ b \in Nat /\ b # 0 /\ a * d = n * b BY FracTerms
<1>2. Larger(Zero, f) = IF 0 * b <= a * 1 THEN f ELSE Zero
  BY DEF Larger, AtMost, Zero, Whole
<1> HIDE DEF f, a, b
<1>3. a >= 0
  <2>1. n * b >= 0 BY <1>1
  <2> QED BY <1>1, <2>1
<1>4. 0 * b <= a * 1 BY <1>1, <1>3
<1> QED BY <1>2, <1>4 DEF f

LEMMA UpdatedFirst ==
    ASSUME NEW x \in Int
    PROVE  Updated(Zero, Zero, x, 1) = [mean |-> MeanOf(1, x), M2 |-> SpreadOf(1, x, x * x)]
<1> DEFINE one == 1
           none == 0
           v == Frac(x, one)
           z == Frac(none, one)
<1>1. one \in Nat /\ one # 0 /\ none \in Int OBVIOUS
<1>2. Zero = z /\ Whole(x) = v BY WholeIsFrac DEF Zero
<1>3. Minus(v, z) = v /\ Minus(v, v) = z /\ Plus(z, v) = v
  <2>1. /\ x * one - none * one = x /\ x * one - x * one = none /\ none * one + x * one = x
        /\ one * one = one
    OBVIOUS
  <2> HIDE DEF one, none
  <2>2. Minus(Frac(x, one), Frac(none, one)) = Frac(x * one - none * one, one * one)
    BY <1>1, MinusFrac
  <2>3. Minus(Frac(x, one), Frac(x, one)) = Frac(x * one - x * one, one * one)
    BY <1>1, MinusFrac
  <2>4. Plus(Frac(none, one), Frac(x, one)) = Frac(none * one + x * one, one * one)
    BY <1>1, PlusFrac
  <2> QED BY <2>1, <2>2, <2>3, <2>4
<1>4. Over(v, Whole(1)) = v
  <2>1. one * one = one OBVIOUS
  <2> HIDE DEF one
  <2>2. Over(Frac(x, one), Whole(one)) = Frac(x, one * one) BY <1>1, OverWhole
  <2> QED BY <2>1, <2>2 DEF one
<1>5. Times(v, z) = z /\ Plus(z, z) = z
  <2>1. x * none = none /\ none * one + none * one = none /\ one * one = one OBVIOUS
  <2> HIDE DEF one, none
  <2>2. Times(Frac(x, one), Frac(none, one)) = Frac(x * none, one * one) BY <1>1, TimesFrac
  <2>3. Plus(Frac(none, one), Frac(none, one)) = Frac(none * one + none * one, one * one)
    BY <1>1, PlusFrac
  <2> QED BY <2>1, <2>2, <2>3
<1>6. MeanOf(1, x) = v /\ SpreadOf(1, x, x * x) = z
  <2>1. 1 * (x * x) - x * x = none OBVIOUS
  <2> QED BY <2>1 DEF MeanOf, SpreadOf
<1> HIDE DEF v, z
<1> QED BY <1>2, <1>3, <1>4, <1>5, <1>6 DEF Updated

\* One more value.
LEMMA UpdatedIs ==
    ASSUME NEW n \in Nat, n # 0, NEW s \in Int, NEW q \in Int, NEW x \in Int
    PROVE  Updated(MeanOf(n, s), SpreadOf(n, s, q), x, n + 1) =
               [mean |-> MeanOf(n + 1, s + x), M2 |-> SpreadOf(n + 1, s + x, q + x * x)]
<1> DEFINE m == Frac(s, n)
           e == n + 1
           d == x * n - s
           a == n * q - s * s
           t == s + x
           c == e * (q + x * x) - t * t
           delta == Minus(Whole(x), m)
           m2 == Plus(m, Over(delta, Whole(e)))
           one == 1
<1>1. /\ e \in Nat /\ e # 0 /\ d \in Int /\ a \in Int /\ t \in Int /\ c \in Int
      /\ one \in Nat /\ one # 0
  OBVIOUS
<1>2. delta = Frac(d, n)
  <2>1. x * n - s * one = d /\ one * n = n OBVIOUS
  <2>2. Whole(x) = Frac(x, one) BY WholeIsFrac
  <2> HIDE DEF one, d
  <2>3. Minus(Frac(x, one), Frac(s, n)) = Frac(x * n - s * one, one * n) BY <1>1, MinusFrac
  <2> QED BY <2>1, <2>2, <2>3
<1>3. m2 = Frac(t, e)
  <2>1. Over(Frac(d, n), Whole(e)) = Frac(d, n * e)
    <3> HIDE DEF d, e
    <3> QED BY <1>1, OverWhole
  <2>2. Plus(Frac(s, n), Frac(d, n * e)) = Frac(s * (n * e) + d * n, n * (n * e))
    <3> DEFINE f == n * e
    <3>1. f \in Nat /\ f # 0 BY <1>1
    <3> HIDE DEF f, d
    <3>2. Plus(Frac(s, n), Frac(d, f)) = Frac(s * f + d * n, n * f) BY <1>1, <3>1, PlusFrac
    <3> QED BY <3>2 DEF f
  <2>3. Frac(s * (n * e) + d * n, n * (n * e)) = Frac(t, e)
    <3> DEFINE f == n * (n * e)
               u == s * (n * e) + d * n
    <3>1. f \in Nat /\ f # 0 /\ u \in Int BY <1>1
    <3>2. u = (n * n) * t OBVIOUS
    <3>3. f = (n * n) * e OBVIOUS
    <3> DEFINE g == n * n
    <3>4. g \in Nat /\ g # 0 OBVIOUS
    <3> HIDE DEF f, u, g, t, e
    <3>5. Frac(g * t, g * e) = Frac(t, e) BY <1>1, <3>4, FracCancels
    <3>6. Frac(u, f) = Frac(t, e) BY <3>2, <3>3, <3>5 DEF g
    <3> QED BY <3>6 DEF u, f
  <2> HIDE DEF d, e, t, delta
  <2> QED BY <1>2, <2>1, <2>2, <2>3
<1>4. Minus(Whole(x), Frac(t, e)) = Frac(d, e)
  <2>1. x * e - t * one = d /\ one * e = e OBVIOUS
  <2>2. Whole(x) = Frac(x, one) BY WholeIsFrac
  <2> HIDE DEF one, d, e, t
  <2>3. Minus(Frac(x, one), Frac(t, e)) = Frac(x * e - t * one, one * e) BY <1>1, MinusFrac
  <2> QED BY <2>1, <2>2, <2>3
<1>5. Times(Frac(d, n), Frac(d, e)) = Frac(d * d, n * e)
  <2> HIDE DEF d, e
  <2> QED BY <1>1, TimesFrac
<1>6. Plus(Frac(a, n), Frac(d * d, n * e)) = Frac(c, e)
  <2>1. Plus(Frac(a, n), Frac(d * d, n * e)) = Frac(a * (n * e) + (d * d) * n, n * (n * e))
    <3> DEFINE f == n * e
               v == d * d
    <3>1. f \in Nat /\ f # 0 /\ v \in Int BY <1>1
    <3> HIDE DEF f, v, a
    <3>2. Plus(Frac(a, n), Frac(v, f)) = Frac(a * f + v * n, n * f) BY <1>1, <3>1, PlusFrac
    <3> QED BY <3>2 DEF f, v
  <2>2. a * e + d * d = n * c OBVIOUS
  <2>3. a * (n * e) + (d * d) * n = (n * n) * c
    <3> DEFINE v == d * d
    <3>1. v \in Int BY <1>1
    <3> HIDE DEF v, a, c, e
    <3>2. a * (n * e) + v * n = n * (a * e + v) BY <1>1, <3>1
    <3>3. n * (n * c) = (n * n) * c BY <1>1
    <3> QED BY <2>2, <3>2, <3>3 DEF v
  <2>4. n * (n * e) = (n * n) * e OBVIOUS
  <2>5. Frac((n * n) * c, (n * n) * e) = Frac(c, e)
    <3> DEFINE g == n * n
    <3>1. g \in Nat /\ g # 0 OBVIOUS
    <3> HIDE DEF g, c, e
    <3>2. Frac(g * c, g * e) = Frac(c, e) BY <1>1, <3>1, FracCancels
    <3> QED BY <3>2 DEF g
  <2> HIDE DEF a, d, c, e
  <2> QED BY <2>1, <2>3, <2>4, <2>5
<1>7. Updated(m, Frac(a, n), x, e) = [mean |-> Frac(t, e), M2 |-> Frac(c, e)]
  <2> HIDE DEF m, a, e, t, c, d
  <2>1. Updated(m, Frac(a, n), x, e) =
            [mean |-> m2, M2 |-> Plus(Frac(a, n), Times(delta, Minus(Whole(x), m2)))]
    BY DEF Updated
  <2> HIDE DEF m2, delta
  <2> QED BY <1>2, <1>3, <1>4, <1>5, <1>6, <2>1
<1> QED BY <1>7 DEF MeanOf, SpreadOf

\* One value less, of two or more.
LEMMA DowndatedIs ==
    ASSUME NEW n \in Nat, NEW s \in Int, NEW q \in Int, NEW y \in Int, n > 1,
           (n - 1) * (q - y * y) - (s - y) * (s - y) >= 0
    PROVE  Downdated(MeanOf(n, s), SpreadOf(n, s, q), y, n) =
               [mean |-> MeanOf(n - 1, s - y), M2 |-> SpreadOf(n - 1, s - y, q - y * y)]
<1> DEFINE m == Frac(s, n)
           e == n - 1
           d == y * n - s
           a == n * q - s * s
           t == s - y
           c == e * (q - y * y) - t * t
           one == 1
           m2 == Over(Minus(Times(Whole(n), m), Whole(y)), Whole(e))
<1>1. /\ e \in Nat /\ e # 0 /\ n # 0 /\ d \in Int /\ a \in Int /\ t \in Int /\ c \in Int
      /\ one \in Nat /\ one # 0
  OBVIOUS
<1>2. Whole(y) = Frac(y, one) /\ Whole(n) = Frac(n, one) BY WholeIsFrac
<1>3. m2 = Frac(t, e)
  <2>1. Times(Frac(n, one), Frac(s, n)) = Frac(s, one)
    <3>1. one * n = n /\ (n * s) * one = s * n /\ n * s \in Int OBVIOUS
    <3> HIDE DEF one
    <3>2. Times(Frac(n, one), Frac(s, n)) = Frac(n * s, one * n) BY <1>1, TimesFrac
    <3>3. Frac(n * s, n) = Frac(s, one)
      <4> DEFINE u == n * s
      <4>1. u \in Int /\ u * one = s * n BY <3>1
      <4> HIDE DEF u
      <4>2. Frac(u, n) = Frac(s, one) BY <1>1, <4>1, FracEqual
      <4> QED BY <4>2 DEF u
    <3> QED BY <3>1, <3>2, <3>3
  <2>2. Minus(Frac(s, one), Frac(y, one)) = Frac(t, one)
    <3>1. s * one - y * one = t /\ one * one = one OBVIOUS
    <3> HIDE DEF one, t
    <3>2. Minus(Frac(s, one), Frac(y, one)) = Frac(s * one - y * one, one * one)
      BY <1>1, MinusFrac
    <3> QED BY <3>1, <3>2
  <2>3. Over(Frac(t, one), Whole(e)) = Frac(t, e)
    <3>1. one * e = e OBVIOUS
    <3> HIDE DEF one, t, e
    <3>2. Over(Frac(t, one), Whole(e)) = Frac(t, one * e) BY <1>1, OverWhole
    <3> QED BY <3>1, <3>2
  <2> HIDE DEF one, t, e
  <2> QED BY <1>2, <2>1, <2>2, <2>3
<1>4. Minus(Whole(y), m) = Frac(d, n)
  <2>1. y * n - s * one = d /\ one * n = n OBVIOUS
  <2> HIDE DEF one, d
  <2>2. Minus(Frac(y, one), Frac(s, n)) = Frac(y * n - s * one, one * n) BY <1>1, MinusFrac
  <2> QED BY <1>2, <2>1, <2>2
<1>5. Minus(Whole(y), Frac(t, e)) = Frac(d, e)
  <2>1. y * e - t * one = d /\ one * e = e OBVIOUS
  <2> HIDE DEF one, d, e, t
  <2>2. Minus(Frac(y, one), Frac(t, e)) = Frac(y * e - t * one, one * e) BY <1>1, MinusFrac
  <2> QED BY <1>2, <2>1, <2>2
<1>6. Times(Frac(d, n), Frac(d, e)) = Frac(d * d, n * e)
  <2> HIDE DEF d, e
  <2> QED BY <1>1, TimesFrac
<1>7. Minus(Frac(a, n), Frac(d * d, n * e)) = Frac(c, e)
  <2>1. Minus(Frac(a, n), Frac(d * d, n * e)) = Frac(a * (n * e) - (d * d) * n, n * (n * e))
    <3> DEFINE f == n * e
               v == d * d
    <3>1. f \in Nat /\ f # 0 /\ v \in Int BY <1>1
    <3> HIDE DEF f, v, a
    <3>2. Minus(Frac(a, n), Frac(v, f)) = Frac(a * f - v * n, n * f) BY <1>1, <3>1, MinusFrac
    <3> QED BY <3>2 DEF f, v
  <2>2. a * e - d * d = n * c OBVIOUS
  <2>3. a * (n * e) - (d * d) * n = (n * n) * c
    <3> DEFINE v == d * d
    <3>1. v \in Int BY <1>1
    <3> HIDE DEF v, a, c, e
    <3>2. a * (n * e) - v * n = n * (a * e - v) BY <1>1, <3>1
    <3>3. n * (n * c) = (n * n) * c BY <1>1
    <3> QED BY <2>2, <3>2, <3>3 DEF v
  <2>4. n * (n * e) = (n * n) * e OBVIOUS
  <2>5. Frac((n * n) * c, (n * n) * e) = Frac(c, e)
    <3> DEFINE g == n * n
    <3>1. g \in Nat /\ g # 0 OBVIOUS
    <3> HIDE DEF g, c, e
    <3>2. Frac(g * c, g * e) = Frac(c, e) BY <1>1, <3>1, FracCancels
    <3> QED BY <3>2 DEF g
  <2> HIDE DEF a, d, c, e
  <2> QED BY <2>1, <2>3, <2>4, <2>5
<1>8. Larger(Zero, Frac(c, e)) = Frac(c, e)
  <2>1. c >= 0 OBVIOUS
  <2> HIDE DEF c, e
  <2> QED BY <1>1, <2>1, ClampedAtZero
<1>9. Downdated(m, Frac(a, n), y, n) = [mean |-> Frac(t, e), M2 |-> Frac(c, e)]
  <2> HIDE DEF m, a, t, c, d
  <2>1. Downdated(m, Frac(a, n), y, n) =
            [mean |-> m2,
             M2 |-> Larger(Zero, Minus(Frac(a, n), Times(Minus(Whole(y), m), Minus(Whole(y), m2))))]
    BY DEF Downdated
  <2> HIDE DEF m2, e
  <2> QED BY <1>3, <1>4, <1>5, <1>6, <1>7, <1>8, <2>1
<1> QED BY <1>9 DEF MeanOf, SpreadOf

\* mean and M2 are those of the window, and latest its last frametime.
MomentInv ==
    /\ frametimes = <<>> => mean = Zero /\ M2 = Zero
    /\ frametimes # <<>> =>
           /\ mean = MeanOf(Len(frametimes), Sum(frametimes))
           /\ M2 = SpreadOf(Len(frametimes), Sum(frametimes), Squares(frametimes))
           /\ latest = Last(frametimes)

\* One more value pushed on a window whose moments are known.
LEMMA UpdatedWindow ==
    ASSUME NEW w \in Seq(Values), NEW x \in Values, NEW m, NEW s,
           w = <<>> => m = Zero /\ s = Zero,
           w # <<>> => m = MeanOf(Len(w), Sum(w)) /\ s = SpreadOf(Len(w), Sum(w), Squares(w))
    PROVE  LET v == Append(w, x) IN
           Updated(m, s, x, Len(w) + 1) = [mean |-> MeanOf(Len(v), Sum(v)),
                                           M2 |-> SpreadOf(Len(v), Sum(v), Squares(v))]
<1> DEFINE n == Len(w)
           v == Append(w, x)
<1>1. n \in Nat /\ Len(v) = n + 1 BY AppendProperties, LenProperties
<1>2. /\ x \in Int /\ Sum(w) \in Int /\ Squares(w) \in Int
      /\ Sum(v) = Sum(w) + x /\ Squares(v) = Squares(w) + x * x
  BY MomentsAppend
<1> HIDE DEF v
<1>3. CASE w = <<>>
  <2>1. n = 0 /\ Sum(w) = 0 /\ Squares(w) = 0 BY <1>3, MomentsEmpty, EmptySeq
  <2>2. Len(v) = 1 /\ Sum(v) = x /\ Squares(v) = x * x BY <1>1, <1>2, <2>1
  <2> HIDE DEF n
  <2>3. Updated(m, s, x, n + 1) = Updated(Zero, Zero, x, 1) BY <1>3, <2>1
  <2> QED BY <1>2, <2>2, <2>3, UpdatedFirst DEF n, v
<1>4. CASE w # <<>>
  <2>1. n # 0 BY <1>4, EmptySeq
  <2> DEFINE t == Sum(w)
             q == Squares(w)
  <2> HIDE DEF n, t, q
  <2>2. m = MeanOf(n, t) /\ s = SpreadOf(n, t, q) BY <1>4 DEF n, t, q
  <2>3. n \in Nat /\ t \in Int /\ q \in Int /\ x \in Int BY <1>1, <1>2 DEF t, q
  <2>4. Updated(MeanOf(n, t), SpreadOf(n, t, q), x, n + 1) =
            [mean |-> MeanOf(n + 1, t + x), M2 |-> SpreadOf(n + 1, t + x, q + x * x)]
    BY <2>1, <2>3, UpdatedIs
  <2> QED BY <1>1, <1>2, <2>2, <2>4 DEF n, t, q, v
<1> QED BY <1>3, <1>4

\* Downdating the oldest frametime leaves the moments of the others.
LEMMA DowndatedWindow ==
    ASSUME NEW w \in Seq(Values), Len(w) > 1
    PROVE  /\ Downdated(MeanOf(Len(w), Sum(w)), SpreadOf(Len(w), Sum(w), Squares(w)), Head(w), Len(w)) =
                  [mean |-> MeanOf(Len(Tail(w)), Sum(Tail(w))),
                   M2 |-> SpreadOf(Len(Tail(w)), Sum(Tail(w)), Squares(Tail(w)))]
           /\ Tail(w) \in Seq(Values) /\ Tail(w) # <<>> /\ Len(Tail(w)) = Len(w) - 1
<1> DEFINE n == Len(w)
           y == Head(w)
           v == Tail(w)
           t == Sum(w)
           q == Squares(w)
<1>1. n \in Nat /\ w # <<>> BY LenProperties, EmptySeq
<1>2. /\ y \in Values /\ v \in Seq(Values) /\ Len(v) = n - 1
      /\ Sum(v) = t - y /\ Squares(v) = q - y * y
  BY <1>1, HeadTailProperties, MomentsTail
<1>3. v # <<>>
  <2>0. n > 1 OBVIOUS
  <2>1. n - 1 # 0
    <3> HIDE DEF n
    <3> QED BY <1>1, <2>0
  <2> QED BY <1>2, <2>1, EmptySeq
<1>4. t \in Int /\ q \in Int /\ y \in Int BY <1>2, MomentsType, WholeValues
<1> HIDE DEF n, y, v, t, q
<1>5. (n - 1) * (q - y * y) - (t - y) * (t - y) >= 0
  <2>1. Len(v) * Squares(v) - Sum(v) * Sum(v) >= 0 BY <1>2, SpreadNatural
  <2> QED BY <1>2, <2>1
<1>6. n > 1 BY DEF n
<1>7. Downdated(MeanOf(n, t), SpreadOf(n, t, q), y, n) =
          [mean |-> MeanOf(n - 1, t - y), M2 |-> SpreadOf(n - 1, t - y, q - y * y)]
  BY <1>1, <1>4, <1>5, <1>6, DowndatedIs
<1> QED BY <1>2, <1>3, <1>7 DEF n, y, v, t, q

LEMMA PushMoments ==
    ASSUME WindowInv, MomentInv, NEW x \in Values, PushSample(x)
    PROVE  MomentInv'
<1> DEFINE w == frametimes
           n == Len(w)
           left == IF n >= limit THEN Tail(w) ELSE w
           v == Append(left, x)
           new == Welford(w, mean, M2, x)
<1>1. frametimes' = v /\ mean' = new.mean /\ M2' = new.M2 /\ latest' = x
  BY DEF PushSample, IsFull
<1>2. w \in Seq(Values) /\ n \in Nat /\ n <= limit /\ limit \in Nat /\ limit # 0
  BY LenProperties DEF WindowInv
<1>3. left \in Seq(Values)
  <2>1. CASE n >= limit
    <3>1. w # <<>> BY <1>2, <2>1, EmptySeq
    <3> QED BY <1>2, <2>1, <3>1, HeadTailProperties
  <2>2. CASE ~ (n >= limit) BY <1>2, <2>2
  <2> QED BY <2>1, <2>2
<1>4. new = [mean |-> MeanOf(Len(v), Sum(v)), M2 |-> SpreadOf(Len(v), Sum(v), Squares(v))]
  <2>1. CASE n < limit
    <3>1. left = w BY <1>2, <2>1
    <3>2. new = Updated(mean, M2, x, n + 1) BY <2>1 DEF Welford
    <3>3. /\ w = <<>> => mean = Zero /\ M2 = Zero
          /\ w # <<>> => mean = MeanOf(Len(w), Sum(w)) /\ M2 = SpreadOf(Len(w), Sum(w), Squares(w))
      BY DEF MomentInv
    <3> HIDE DEF w, left, new
    <3>4. Updated(mean, M2, x, Len(w) + 1) =
              [mean |-> MeanOf(Len(Append(w, x)), Sum(Append(w, x))),
               M2 |-> SpreadOf(Len(Append(w, x)), Sum(Append(w, x)), Squares(Append(w, x)))]
      BY <1>2, <3>3, UpdatedWindow
    <3> QED BY <3>1, <3>2, <3>4
  <2>2. CASE n >= limit /\ n = 1
    <3>0. ~ (n < limit) BY <1>2, <2>2
    <3>1. new = [mean |-> Whole(x), M2 |-> Zero] BY <2>2, <3>0 DEF Welford
    <3>2. w # <<>> /\ Len(Tail(w)) = 0 /\ Tail(w) \in Seq(Values)
      BY <1>2, <2>2, EmptySeq, HeadTailProperties
    <3>3. left = <<>> BY <2>2, <3>2, EmptySeq
    <3>4. <<>> \in Seq(Values) /\ Len(<<>>) = 0 BY EmptySeq
    <3>5. Len(v) = 1 /\ v = Append(<<>>, x)
      <4>1. v = Append(<<>>, x) BY <3>3
      <4> HIDE DEF v
      <4>2. Len(Append(<<>>, x)) = 0 + 1 BY <3>4, AppendProperties
      <4> QED BY <4>1, <4>2
    <3>6. /\ x \in Int /\ Sum(Append(<<>>, x)) = Sum(<<>>) + x
          /\ Squares(Append(<<>>, x)) = Squares(<<>>) + x * x
      BY <3>4, MomentsAppend
    <3>7. Sum(v) = x /\ Squares(v) = x * x
      <4> HIDE DEF v
      <4>1. x * x \in Int BY <3>6
      <4> QED BY <3>5, <3>6, <4>1, MomentsEmpty
    <3>8. MeanOf(1, x) = Whole(x) BY <3>6, WholeIsFrac DEF MeanOf
    <3>9. SpreadOf(1, x, x * x) = Zero
      <4>1. 1 * (x * x) - x * x = 0 BY <3>6
      <4>2. Zero = Frac(0, 1) BY WholeIsFrac DEF Zero
      <4> QED BY <4>1, <4>2 DEF SpreadOf
    <3> HIDE DEF v, new
    <3> QED BY <3>1, <3>5, <3>7, <3>8, <3>9
  <2>3. CASE n >= limit /\ n # 1
    <3>0. n \in Nat /\ limit \in Nat /\ limit # 0 /\ n >= limit /\ n # 1 BY <1>2, <2>3
    <3>1. n > 1 /\ left = Tail(w)
      <4>1. left = Tail(w) BY <3>0
      <4> HIDE DEF n
      <4>2. n > 1 BY <3>0
      <4> QED BY <4>1, <4>2
    <3> DEFINE less == Downdated(mean, M2, Head(w), n)
    <3>2. new = Updated(less.mean, less.M2, x, n) BY <1>2, <2>3, <3>1 DEF Welford
    <3>3. w # <<>> BY <3>1, EmptySeq
    <3>4. mean = MeanOf(n, Sum(w)) /\ M2 = SpreadOf(n, Sum(w), Squares(w)) BY <3>3 DEF MomentInv
    <3>5. /\ Downdated(MeanOf(Len(w), Sum(w)), SpreadOf(Len(w), Sum(w), Squares(w)), Head(w), Len(w)) =
                 [mean |-> MeanOf(Len(Tail(w)), Sum(Tail(w))),
                  M2 |-> SpreadOf(Len(Tail(w)), Sum(Tail(w)), Squares(Tail(w)))]
          /\ Tail(w) \in Seq(Values) /\ Tail(w) # <<>> /\ Len(Tail(w)) = Len(w) - 1
      BY <1>2, <3>1, DowndatedWindow
    <3> DEFINE u == Tail(w)
               m == MeanOf(Len(u), Sum(u))
               s == SpreadOf(Len(u), Sum(u), Squares(u))
    <3>6. less.mean = m /\ less.M2 = s BY <3>4, <3>5
    <3>7. u \in Seq(Values) /\ u # <<>> /\ Len(u) + 1 = n BY <1>2, <3>5
    <3> HIDE DEF u, less, new, left
    <3>8. Updated(m, s, x, Len(u) + 1) =
              [mean |-> MeanOf(Len(Append(u, x)), Sum(Append(u, x))),
               M2 |-> SpreadOf(Len(Append(u, x)), Sum(Append(u, x)), Squares(Append(u, x)))]
      BY <3>7, UpdatedWindow
    <3>9. left = u BY <3>1 DEF u
    <3> HIDE DEF m, s
    <3> QED BY <3>2, <3>6, <3>7, <3>8, <3>9
  <2> QED BY <1>2, <2>1, <2>2, <2>3
<1>5. v # <<>> /\ Last(v) = x
  <2>1. Len(v) = Len(left) + 1 /\ Len(left) \in Nat /\ v[Len(left) + 1] = x
    BY <1>3, AppendProperties, LenProperties
  <2> HIDE DEF left, v
  <2> QED BY <2>1, EmptySeq DEF Last
<1> HIDE DEF v, new
<1> QED BY <1>1, <1>4, <1>5 DEF MomentInv

MetricsInv == WindowInv /\ MirrorInv /\ MomentInv

LEMMA SnapshotIs == MetricsInv => SnapshotMatchesReport
<1> SUFFICES ASSUME WindowInv, MirrorInv, MomentInv PROVE Snapshot = Promise!Report(frametimes)
  BY DEF MetricsInv, SnapshotMatchesReport
<1>1. CASE frametimes = <<>> BY <1>1 DEF Snapshot, Promise!Report
<1>2. CASE frametimes # <<>>
  <2> DEFINE w == frametimes
             n == Len(w)
             t == Sum(w)
             q == Squares(w)
             a == n * q - t * t
  <2>1. w \in Seq(Values) /\ n \in Nat /\ n # 0 BY <1>2, LenProperties, EmptySeq DEF WindowInv
  <2>2. t \in Int /\ q \in Int /\ a >= 0 BY <2>1, MomentsType, SpreadNatural
  <2>3. mean = Frac(t, n) /\ M2 = Frac(a, n) /\ latest = Last(w)
    BY <1>2 DEF MomentInv, MeanOf, SpreadOf
  <2>4. Promise!Mean(w) = mean
    BY <1>2, <2>1, <2>3, TotalIsSum, SameArithmetic DEF Promise!Mean
  <2>5. Promise!Last(w) = latest BY <2>3 DEF Promise!Last, Last
  <2>6. a \in Int BY <2>1, <2>2
  <2> HIDE DEF w, n, t, q, a
  <2>7. Promise!Over(Promise!SquaredDeviations(w, Promise!Mean(w)), Promise!Whole(n)) = Frac(a, n * n)
    <3>1. Promise!SquaredDeviations(w, Frac(t, n)) = Frac(SumOf(w, Deviation(n, t)), n * n)
      BY <2>1, <2>2, DeviationsAre
    <3>2. SumOf(w, Deviation(n, t)) = (n * n) * q - (2 * (n * t)) * t + n * (t * t)
      <4>1. n \in Int /\ t \in Int BY <2>1, <2>2
      <4>2. SumOf(w, Deviation(n, t)) =
                (n * n) * Squares(w) - (2 * (n * t)) * Sum(w) + Len(w) * (t * t)
        BY <2>1, <4>1, SumOfDeviations
      <4> QED BY <4>2 DEF q, t, n
    <3>3. SumOf(w, Deviation(n, t)) = n * a
      <4>1. (n * n) * q - (2 * (n * t)) * t + n * (t * t) = n * (n * q - t * t) BY <2>1, <2>2
      <4> QED BY <3>2, <4>1 DEF a
    <3>4. Frac(n * a, n * n) = Frac(a, n) BY <2>1, <2>6, FracCancels
    <3>5. Over(Frac(a, n), Whole(n)) = Frac(a, n * n) BY <2>1, <2>6, OverWhole
    <3> QED BY <2>3, <2>4, <3>1, <3>3, <3>4, <3>5, SameArithmetic
  <2>8. (IF n > 1 THEN Larger(Zero, Over(M2, Whole(n))) ELSE Zero) = Frac(a, n * n)
    <3>1. Over(M2, Whole(n)) = Frac(a, n * n) BY <2>1, <2>3, <2>6, OverWhole
    <3>2. Larger(Zero, Frac(a, n * n)) = Frac(a, n * n)
      <4> DEFINE f == n * n
      <4>1. f \in Nat /\ f # 0 BY <2>1
      <4> HIDE DEF f
      <4>2. Larger(Zero, Frac(a, f)) = Frac(a, f) BY <2>2, <2>6, <4>1, ClampedAtZero
      <4> QED BY <4>2 DEF f
    <3>3. CASE n = 1
      <4>1. PICK x \in Values: w = Append(<<>>, x)
        <5>1. w # <<>> BY <1>2 DEF w
        <5>2. PICK u \in Seq(Values), x \in Values: w = Append(u, x)
          BY <2>1, <5>1, SequenceEmptyOrAppend
        <5>3. Len(w) = Len(u) + 1 /\ Len(u) \in Nat BY <5>2, AppendProperties, LenProperties
        <5>4. u = <<>> BY <3>3, <5>2, <5>3, EmptySeq DEF n
        <5> QED BY <5>2, <5>4
      <4>2. <<>> \in Seq(Values) BY EmptySeq
      <4>3. /\ x \in Int /\ Sum(Append(<<>>, x)) = Sum(<<>>) + x
            /\ Squares(Append(<<>>, x)) = Squares(<<>>) + x * x
        BY <4>2, MomentsAppend
      <4>4. t = x /\ q = x * x BY <4>1, <4>3, MomentsEmpty DEF t, q
      <4>5. a = 0 /\ n * n = 1 BY <3>3, <4>3, <4>4 DEF a
      <4>6. Zero = Frac(0, 1) BY WholeIsFrac DEF Zero
      <4> QED BY <3>3, <4>5, <4>6
    <3> QED BY <2>1, <3>1, <3>2, <3>3
  <2>9. /\ mirror[1] = Promise!OrderStatistic(w, 0)
        /\ mirror[Len(mirror)] = Promise!OrderStatistic(w, n - 1)
    <3>1. 0 \in Nat /\ 0 < n /\ n - 1 \in Nat /\ n - 1 < n BY <2>1
    <3>2. /\ Len(mirror) = n
          /\ GetAt(mirror, n - 1) = Promise!OrderStatistic(w, n - 1)
          /\ GetAt(mirror, n - 1) = mirror[(n - 1) + 1]
      BY <3>1, GetAtIs DEF n, w
    <3>3. /\ GetAt(mirror, 0) = Promise!OrderStatistic(w, 0)
          /\ GetAt(mirror, 0) = mirror[0 + 1]
      BY <3>1, GetAtIs DEF n, w
    <3>4. (n - 1) + 1 = n BY <2>1
    <3> QED BY <3>2, <3>3, <3>4
  <2>10. /\ PercentileFromSorted(mirror, 990) = Promise!Percentile(w, 990)
         /\ PercentileFromSorted(mirror, 999) = Promise!Percentile(w, 999)
    <3>1. Clamped(990) = 990 /\ Clamped(999) = 999 BY DEF Clamped
    <3>2. \A p \in Int: PercentileFromSorted(mirror, p) = Promise!Percentile(w, Clamped(p))
      BY <1>2, PercentileIs DEF w
    <3>3. 990 \in Int /\ 999 \in Int OBVIOUS
    <3>4. PercentileFromSorted(mirror, 990) = Promise!Percentile(w, Clamped(990)) BY <3>2, <3>3
    <3>5. PercentileFromSorted(mirror, 999) = Promise!Percentile(w, Clamped(999)) BY <3>2, <3>3
    <3> QED BY <3>1, <3>4, <3>5
  <2>11. Snapshot =
             [sample_count |-> n, latest |-> latest, average |-> mean,
              variance |-> IF n > 1 THEN Larger(Zero, Over(M2, Whole(n))) ELSE Zero,
              min |-> mirror[1], max |-> mirror[Len(mirror)],
              p99 |-> PercentileFromSorted(mirror, 990),
              p999 |-> PercentileFromSorted(mirror, 999)]
    BY <1>2 DEF Snapshot, n, w
  <2>12. Promise!Report(w) =
             [sample_count |-> n, latest |-> Promise!Last(w), average |-> Promise!Mean(w),
              variance |-> Promise!Over(Promise!SquaredDeviations(w, Promise!Mean(w)), Promise!Whole(n)),
              min |-> Promise!OrderStatistic(w, 0), max |-> Promise!OrderStatistic(w, n - 1),
              p99 |-> Promise!Percentile(w, 990), p999 |-> Promise!Percentile(w, 999)]
    BY <1>2 DEF Promise!Report, n, w
  <2>13. Snapshot = Promise!Report(w)
    BY <2>4, <2>5, <2>7, <2>8, <2>9, <2>10, <2>11, <2>12
  <2> QED BY <2>13 DEF w
<1> QED BY <1>1, <1>2

LEMMA InitMetrics == Init => MetricsInv
<1>1. <<>> \in Seq(Values) /\ DOMAIN <<>> = {} BY EmptySeq
<1>2. ASSUME Init PROVE MirrorInv /\ MomentInv
  BY <1>1, <1>2 DEF Init, MirrorInv, MomentInv, Sorted
<1> QED BY <1>2, InitWindow DEF MetricsInv

LEMMA StepMetrics == MetricsInv /\ [Next]_vars => MetricsInv'
<1> SUFFICES ASSUME WindowInv, MirrorInv, MomentInv, [Next]_vars
             PROVE  MirrorInv' /\ MomentInv'
  BY StepRolls DEF MetricsInv
<1>1. CASE UNCHANGED vars BY <1>1 DEF vars, MirrorInv, MomentInv
<1>2. CASE Reset
  <2>1. <<>> \in Seq(Values) /\ DOMAIN <<>> = {} BY EmptySeq
  <2> QED BY <1>2, <2>1 DEF Reset, MirrorInv, MomentInv, Sorted
<1>3. ASSUME NEW x \in Values, PushSample(x) PROVE MirrorInv' /\ MomentInv'
  BY <1>3, PushMirrors, PushMoments
<1> QED BY <1>1, <1>2, <1>3 DEF Next

\* Every figure of a snapshot is the one recomputed from the last limit
\* frametimes: however often mean and M2 were updated and downdated they are
\* the mean and the squared deviations of the window, and the clamps to 0.0
\* never change a figure.
THEOREM SnapshotsMatchReports == Spec => []SnapshotMatchesReport
BY InitMetrics, StepMetrics, SnapshotIs, PTL DEF Spec

\* Any percentile, clamped or not, is the interpolated order statistic of the
\* window, from whichever end of the mirror get_at walks.
THEOREM PercentilesMatchWindows == Spec => []PercentilesMatchWindow
<1>1. MetricsInv => PercentilesMatchWindow
  <2>1. \A p \in Permilles: p \in Int BY MetricsAssumption
  <2> QED BY <2>1, PercentileIs DEF MetricsInv, PercentilesMatchWindow
<1> QED BY InitMetrics, StepMetrics, <1>1, PTL DEF Spec
=============================================================================
