---------------------------- MODULE SequenceFacts ----------------------------
(***************************************************************************)
(* Facts about sums, filters and counts of sequences, for sequences of any *)
(* length, and the induction they rest on.                                 *)
(***************************************************************************)
EXTENDS SequenceFolds, SequenceTheorems, FiniteSetTheorems, WellFoundedInduction, TLAPS

LEMMA NatSetInduction ==
    ASSUME NEW S, 0 \in S, \A n \in Nat: n \in S => n + 1 \in S
    PROVE  Nat \subseteq S
<1> DEFINE T == Nat \ S
           R == OpToRel(<, Nat)
<1>1. SUFFICES ASSUME T # {} PROVE FALSE OBVIOUS
<1>2. IsWellFoundedOn(R, Nat) BY NatLessThanWellFounded
<1>3. T \subseteq Nat OBVIOUS
<1>4. PICK x \in T: \A y \in T: ~ (<<y, x>> \in R)
  <2> HIDE DEF T, R
  <2> QED BY <1>1, <1>2, <1>3, WFMin
<1>5. x # 0 /\ x - 1 \in Nat OBVIOUS
<1>6. x - 1 \in T BY <1>5
<1>7. <<x - 1, x>> \in R BY <1>5 DEF OpToRel
<1> QED BY <1>4, <1>6, <1>7

\* g[n] is what became of base after the first n members of s were folded into it.
IsFold(g, V, X, base, F, s) ==
    /\ s \in Seq(X) /\ base \in V /\ F \in [V \X X -> V]
    /\ g \in [0..Len(s) -> V]
    /\ g[0] = base
    /\ \A n \in 1..Len(s): g[n] = F[<<g[n - 1], s[n]>>]

LEMMA FoldExists ==
    ASSUME NEW V, NEW X, NEW base \in V, NEW F \in [V \X X -> V], NEW s \in Seq(X)
    PROVE  \E g: IsFold(g, V, X, base, F, s)
<1> DEFINE Steps(g, m) == g[0] = base /\ \A n \in 1..m: g[n] = F[<<g[n - 1], s[n]>>]
           S == {m \in Nat: m <= Len(s) => \E g \in [0..m -> V]: Steps(g, m)}
<1>1. Len(s) \in Nat /\ \A n \in 1..Len(s): s[n] \in X BY LenProperties, ElementOfSeq
<1>2. 0 \in S
  <2>1. [n \in 0..0 |-> base] \in [0..0 -> V] /\ Steps([n \in 0..0 |-> base], 0) OBVIOUS
  <2> QED BY <2>1
<1>3. ASSUME NEW m \in Nat, m \in S PROVE m + 1 \in S
  <2> SUFFICES ASSUME m + 1 <= Len(s) PROVE \E g \in [0..(m + 1) -> V]: Steps(g, m + 1)
    OBVIOUS
  <2>1. PICK g0 \in [0..m -> V]: Steps(g0, m) BY <1>1, <1>3
  <2> DEFINE last == F[<<g0[m], s[m + 1]>>]
             g == [n \in 0..(m + 1) |-> IF n = m + 1 THEN last ELSE g0[n]]
  <2>2. last \in V BY <1>1
  <2>3. g \in [0..(m + 1) -> V] BY <2>2
  <2>4. g[0] = base /\ g[m + 1] = last /\ \A n \in 0..m: g[n] = g0[n]
    BY <2>1
  <2>5. ASSUME NEW n \in 1..(m + 1) PROVE g[n] = F[<<g[n - 1], s[n]>>]
    <3>1. CASE n = m + 1
      <4>1. n - 1 = m /\ m \in 0..m BY <3>1
      <4> HIDE DEF g
      <4> QED BY <2>4, <3>1, <4>1
    <3>2. CASE n \in 1..m
      <4>1. n - 1 \in 0..m /\ n \in 0..m BY <3>2
      <4> HIDE DEF g
      <4> QED BY <2>1, <2>4, <3>2, <4>1
    <3> QED BY <3>1, <3>2
  <2> HIDE DEF g
  <2> QED BY <2>3, <2>4, <2>5
<1>4. Len(s) \in S
  <2> HIDE DEF S
  <2> QED BY <1>1, <1>2, <1>3, NatSetInduction
<1>5. PICK g \in [0..Len(s) -> V]: Steps(g, Len(s)) BY <1>1, <1>4
<1> QED BY <1>5 DEF IsFold

\* h takes the first k steps that g takes.
Follows(h, g, k) ==
    /\ h[0] = g[0]
    /\ \A n \in 1..k: h[n - 1] = g[n - 1] => h[n] = g[n]

\* A function that takes a fold's steps is the fold.
LEMMA FoldUnique ==
    ASSUME NEW k \in Nat, NEW g, NEW h, Follows(h, g, k)
    PROVE  h[k] = g[k]
<1> DEFINE S == {n \in Nat: n <= k => h[n] = g[n]}
<1>1. 0 \in S BY DEF Follows
<1>2. ASSUME NEW n \in Nat, n \in S PROVE n + 1 \in S BY <1>2 DEF Follows
<1>3. k \in S
  <2> HIDE DEF S
  <2> QED BY <1>1, <1>2, NatSetInduction
<1> QED BY <1>3

\* One more member is one more step.
LEMMA FoldOfAppend ==
    ASSUME NEW V, NEW X, NEW base, NEW F, NEW s, NEW x \in X, NEW g, NEW h,
           IsFold(g, V, X, base, F, s), IsFold(h, V, X, base, F, Append(s, x))
    PROVE  h[Len(Append(s, x))] = F[<<g[Len(s)], x>>]
<1> DEFINE k == Len(s)
           r == Append(s, x)
<1>1. /\ k \in Nat /\ Len(r) = k + 1
      /\ r[k + 1] = x /\ \A i \in 1..k: r[i] = s[i]
  BY AppendProperties, LenProperties DEF IsFold
<1>2. /\ h[0] = base /\ \A n \in 1..(k + 1): h[n] = F[<<h[n - 1], r[n]>>]
      /\ g[0] = base /\ \A n \in 1..k: g[n] = F[<<g[n - 1], s[n]>>]
  BY <1>1 DEF IsFold
<1> HIDE DEF k, r
<1>3. Follows(h, g, k)
  <2>1. h[0] = g[0] BY <1>1, <1>2
  <2>2. ASSUME NEW n \in 1..k, h[n - 1] = g[n - 1] PROVE h[n] = g[n]
    <3>1. n \in 1..(k + 1) /\ r[n] = s[n] BY <1>1
    <3> QED BY <1>2, <2>2, <3>1
  <2> QED BY <2>1, <2>2 DEF Follows
<1>4. h[k] = g[k] BY <1>1, <1>3, FoldUnique
<1>5. h[k + 1] = F[<<h[k], x>>] BY <1>1, <1>2
<1> QED BY <1>1, <1>4, <1>5 DEF k, r

-----------------------------------------------------------------------------
(* Sums *)

\* AppendProperties and LenProperties for sequences of numbers.
LEMMA AppendNumber ==
    ASSUME NEW s \in Seq(Int), NEW x \in Int
    PROVE  /\ Append(s, x) \in Seq(Int) /\ Len(s) \in Nat /\ Len(Append(s, x)) = Len(s) + 1
           /\ Append(s, x)[Len(s) + 1] = x
           /\ \A i \in 1..Len(s): Append(s, x)[i] = s[i]
<1> DEFINE Z == Int
<1>1. s \in Seq(Z) /\ x \in Z OBVIOUS
<1> HIDE DEF Z
<1>2. /\ Append(s, x) \in Seq(Z) /\ Len(s) \in Nat /\ Len(Append(s, x)) = Len(s) + 1
      /\ Append(s, x)[Len(s) + 1] = x
      /\ \A i \in 1..Len(s): Append(s, x)[i] = s[i]
  BY <1>1, AppendProperties, LenProperties
<1> QED BY <1>2 DEF Z

Sums == [p \in Int \X Int |-> p[1] + p[2]]

LEMMA TotalIsFold ==
    ASSUME NEW s \in Seq(Int)
    PROVE  \E g: IsFold(g, Int, Int, 0, Sums, s) /\ Total(s) = g[Len(s)]
<1> DEFINE k == Len(s)
           Steps(h) == h = [n \in 0..k |-> IF n = 0 THEN 0 ELSE h[n - 1] + s[n]]
           h0 == CHOOSE h: Steps(h)
<1>1. PICK g: IsFold(g, Int, Int, 0, Sums, s)
  <2>1. Sums \in [Int \X Int -> Int] /\ 0 \in Int BY DEF Sums
  <2> HIDE DEF h0
  <2> QED BY <2>1, FoldExists
<1>2. k \in Nat /\ \A n \in 1..k: s[n] \in Int BY LenProperties, ElementOfSeq
<1>3. /\ g \in [0..k -> Int] /\ g[0] = 0
      /\ \A n \in 1..k: g[n] = Sums[<<g[n - 1], s[n]>>]
  BY <1>1 DEF IsFold
<1>4. Total(s) = h0[k] BY DEF Total
<1> HIDE DEF k
<1>5. \A n \in 1..k: g[n] = g[n - 1] + s[n]
  <2>1. \A n \in 1..k: g[n - 1] \in Int BY <1>2, <1>3
  <2> QED BY <1>2, <1>3, <2>1 DEF Sums
<1>6. Steps(g) BY <1>2, <1>3, <1>5
<1>7. Steps(h0) BY <1>6
<1>8. h0[k] = g[k]
  <2> HIDE DEF h0
  <2>1. h0[0] = 0 /\ \A n \in 1..k: h0[n] = h0[n - 1] + s[n]
    <3>1. \A n \in 0..k: h0[n] = IF n = 0 THEN 0 ELSE h0[n - 1] + s[n] BY <1>7
    <3>2. 0 \in 0..k /\ \A n \in 1..k: n \in 0..k /\ n # 0 BY <1>2
    <3> HIDE DEF Steps
    <3> QED BY <3>1, <3>2
  <2>2. Follows(h0, g, k) BY <1>2, <1>3, <1>5, <2>1 DEF Follows
  <2> QED BY <1>2, <2>2, FoldUnique
<1> QED BY <1>1, <1>4, <1>8 DEF k

LEMMA TotalEmpty == Total(<<>>) = 0
<1>1. <<>> \in Seq(Int) /\ DOMAIN <<>> = {} BY EmptySeq
<1>2. PICK g: IsFold(g, Int, Int, 0, Sums, <<>>) /\ Total(<<>>) = g[Len(<<>>)]
  BY <1>1, TotalIsFold
<1> QED BY <1>1, <1>2 DEF IsFold

LEMMA TotalAppend ==
    ASSUME NEW s \in Seq(Int), NEW x \in Int
    PROVE  Total(s) \in Int /\ Total(Append(s, x)) = Total(s) + x
<1>1. Append(s, x) \in Seq(Int) BY AppendNumber
<1>2. PICK g: IsFold(g, Int, Int, 0, Sums, s) /\ Total(s) = g[Len(s)]
  BY TotalIsFold
<1>3. PICK h: IsFold(h, Int, Int, 0, Sums, Append(s, x))
              /\ Total(Append(s, x)) = h[Len(Append(s, x))]
  BY <1>1, TotalIsFold
<1>4. Total(Append(s, x)) = Sums[<<Total(s), x>>]
  <2> DEFINE Z == Int
  <2>1. x \in Z /\ IsFold(g, Z, Z, 0, Sums, s) /\ IsFold(h, Z, Z, 0, Sums, Append(s, x))
    BY <1>2, <1>3
  <2> HIDE DEF Z
  <2>2. h[Len(Append(s, x))] = Sums[<<g[Len(s)], x>>] BY <2>1, FoldOfAppend
  <2> QED BY <1>2, <1>3, <2>2
<1>5. Total(s) \in Int
  <2>1. Len(s) \in 0..Len(s) BY LenProperties
  <2> QED BY <1>2, <2>1 DEF IsFold
<1> QED BY <1>4, <1>5 DEF Sums

-----------------------------------------------------------------------------
(* Filters *)

Keeps(T, S) ==
    [p \in Seq(T) \X T |-> IF p[2] \in S THEN Append(p[1], p[2]) ELSE p[1]]

LEMMA KeptIsFold ==
    ASSUME NEW T, NEW S, NEW s \in Seq(T)
    PROVE  \E g: IsFold(g, Seq(T), T, <<>>, Keeps(T, S), s) /\ Kept(s, S) = g[Len(s)]
<1> DEFINE k == Len(s)
           Steps(h) == h = [n \in 0..k |-> IF n = 0 THEN <<>>
                                           ELSE IF s[n] \in S THEN Append(h[n - 1], s[n])
                                           ELSE h[n - 1]]
           h0 == CHOOSE h: Steps(h)
<1>1. PICK g: IsFold(g, Seq(T), T, <<>>, Keeps(T, S), s)
  <2>1. <<>> \in Seq(T) BY EmptySeq
  <2>2. Keeps(T, S) \in [Seq(T) \X T -> Seq(T)] BY AppendProperties DEF Keeps
  <2> HIDE DEF h0
  <2> QED BY <2>1, <2>2, FoldExists
<1>2. k \in Nat /\ \A n \in 1..k: s[n] \in T BY LenProperties, ElementOfSeq
<1>3. /\ g \in [0..k -> Seq(T)] /\ g[0] = <<>>
      /\ \A n \in 1..k: g[n] = Keeps(T, S)[<<g[n - 1], s[n]>>]
  BY <1>1 DEF IsFold
<1>4. Kept(s, S) = h0[k] BY DEF Kept
<1> HIDE DEF k
<1>5. \A n \in 1..k: g[n] = IF s[n] \in S THEN Append(g[n - 1], s[n]) ELSE g[n - 1]
  <2>1. \A n \in 1..k: g[n - 1] \in Seq(T) BY <1>2, <1>3
  <2> QED BY <1>2, <1>3, <2>1 DEF Keeps
<1>6. Steps(g)
  <2>1. \A n \in 0..k: g[n] = IF n = 0 THEN <<>>
                              ELSE IF s[n] \in S THEN Append(g[n - 1], s[n])
                              ELSE g[n - 1]
    <3> SUFFICES ASSUME NEW n \in 0..k
                 PROVE  g[n] = IF n = 0 THEN <<>>
                               ELSE IF s[n] \in S THEN Append(g[n - 1], s[n])
                               ELSE g[n - 1]
      OBVIOUS
    <3>1. CASE n = 0 BY <1>3, <3>1
    <3>2. CASE n \in 1..k BY <1>5, <3>2
    <3> QED BY <1>2, <3>1, <3>2
  <2> QED BY <1>3, <2>1
<1>7. Steps(h0) BY <1>6
<1>8. h0[k] = g[k]
  <2> HIDE DEF h0
  <2>1. /\ h0[0] = <<>>
        /\ \A n \in 1..k: h0[n] = IF s[n] \in S THEN Append(h0[n - 1], s[n]) ELSE h0[n - 1]
    <3>1. \A n \in 0..k: h0[n] = IF n = 0 THEN <<>>
                                 ELSE IF s[n] \in S THEN Append(h0[n - 1], s[n])
                                 ELSE h0[n - 1]
      BY <1>7
    <3>2. 0 \in 0..k /\ \A n \in 1..k: n \in 0..k /\ n # 0 BY <1>2
    <3> HIDE DEF Steps
    <3> QED BY <3>1, <3>2
  <2>2. Follows(h0, g, k) BY <1>2, <1>3, <1>5, <2>1 DEF Follows
  <2> QED BY <1>2, <2>2, FoldUnique
<1> QED BY <1>1, <1>4, <1>8 DEF k

LEMMA KeptEmpty == ASSUME NEW S PROVE Kept(<<>>, S) = <<>>
<1>1. <<>> \in Seq({}) /\ DOMAIN <<>> = {} BY EmptySeq
<1>2. PICK g: IsFold(g, Seq({}), {}, <<>>, Keeps({}, S), <<>>) /\ Kept(<<>>, S) = g[Len(<<>>)]
  BY <1>1, KeptIsFold
<1> QED BY <1>1, <1>2 DEF IsFold

LEMMA KeptType ==
    ASSUME NEW T, NEW S, NEW s \in Seq(T)
    PROVE  Kept(s, S) \in Seq(T)
<1>1. PICK g: IsFold(g, Seq(T), T, <<>>, Keeps(T, S), s) /\ Kept(s, S) = g[Len(s)]
  BY KeptIsFold
<1> QED BY <1>1 DEF IsFold

LEMMA KeptAppend ==
    ASSUME NEW T, NEW S, NEW s \in Seq(T), NEW x \in T
    PROVE  Kept(Append(s, x), S) = IF x \in S THEN Append(Kept(s, S), x) ELSE Kept(s, S)
<1>1. Append(s, x) \in Seq(T) BY AppendProperties
<1>2. PICK g: IsFold(g, Seq(T), T, <<>>, Keeps(T, S), s) /\ Kept(s, S) = g[Len(s)]
  BY KeptIsFold
<1>3. PICK h: IsFold(h, Seq(T), T, <<>>, Keeps(T, S), Append(s, x))
              /\ Kept(Append(s, x), S) = h[Len(Append(s, x))]
  BY <1>1, KeptIsFold
<1>4. Kept(Append(s, x), S) = Keeps(T, S)[<<Kept(s, S), x>>] BY <1>2, <1>3, FoldOfAppend
<1>5. Kept(s, S) \in Seq(T) BY KeptType
<1> QED BY <1>4, <1>5 DEF Keeps

LEMMA SnocInduction ==
    ASSUME NEW T, NEW G \in SUBSET Seq(T), <<>> \in G,
           \A s \in Seq(T), x \in T: s \in G => Append(s, x) \in G
    PROVE  Seq(T) \subseteq G
<1> DEFINE S == {n \in Nat: \A t \in Seq(T): Len(t) = n => t \in G}
<1>1. 0 \in S
  <2>1. \A t \in Seq(T): Len(t) = 0 => t = <<>> BY EmptySeq
  <2> QED BY <2>1
<1>2. ASSUME NEW n \in Nat, n \in S PROVE n + 1 \in S
  <2>0. n + 1 \in Nat OBVIOUS
  <2> SUFFICES ASSUME NEW t \in Seq(T), Len(t) = n + 1 PROVE t \in G BY <2>0
  <2>1. t # <<>> BY EmptySeq
  <2>2. PICK u \in Seq(T): \E x \in T: t = Append(u, x) BY <2>1, SequenceEmptyOrAppend
  <2>3. PICK x \in T: t = Append(u, x) BY <2>2
  <2>4. Len(u) = n BY <2>3, AppendProperties, LenProperties
  <2>5. u \in G BY <1>2, <2>4
  <2> QED BY <2>3, <2>5
<1>3. Nat \subseteq S
  <2> HIDE DEF S
  <2> QED BY <1>1, <1>2, NatSetInduction
<1> QED BY <1>3, LenProperties

\* Filtering a concatenation filters its parts.
LEMMA KeptConcat ==
    ASSUME NEW T, NEW S, NEW s \in Seq(T), NEW t \in Seq(T)
    PROVE  Kept(s \o t, S) = Kept(s, S) \o Kept(t, S)
<1> DEFINE G == {u \in Seq(T): Kept(s \o u, S) = Kept(s, S) \o Kept(u, S)}
<1>1. <<>> \in G
  <2>1. <<>> \in Seq(T) /\ s \o <<>> = s BY EmptySeq, ConcatEmptySeq
  <2>2. Kept(s, S) \in Seq(T) BY KeptType
  <2>3. Kept(s, S) \o <<>> = Kept(s, S) BY <2>2, ConcatEmptySeq
  <2> QED BY <2>1, <2>3, KeptEmpty
<1>2. ASSUME NEW u \in Seq(T), NEW x \in T, u \in G PROVE Append(u, x) \in G
  <2>1. /\ s \o Append(u, x) = Append(s \o u, x)
        /\ s \o u \in Seq(T) /\ Append(u, x) \in Seq(T)
    <3>1. s \o u \in Seq(T) BY ConcatProperties
    <3>2. Append(u, x) \in Seq(T) BY AppendProperties
    <3>3. s \o Append(u, x) = Append(s \o u, x) OBVIOUS
    <3> QED BY <3>1, <3>2, <3>3
  <2>2. /\ Kept(s, S) \in Seq(T) /\ Kept(u, S) \in Seq(T) BY KeptType
  <2>3. Kept(s, S) \o Append(Kept(u, S), x) = Append(Kept(s, S) \o Kept(u, S), x)
    BY <2>2
  <2>4. Kept(Append(s \o u, x), S) =
            IF x \in S THEN Append(Kept(s \o u, S), x) ELSE Kept(s \o u, S)
    <3> DEFINE w == s \o u
    <3>1. w \in Seq(T) BY <2>1
    <3> HIDE DEF w
    <3>2. Kept(Append(w, x), S) = IF x \in S THEN Append(Kept(w, S), x) ELSE Kept(w, S)
      BY <3>1, KeptAppend
    <3> QED BY <3>2 DEF w
  <2>5. Kept(Append(u, x), S) = IF x \in S THEN Append(Kept(u, S), x) ELSE Kept(u, S)
    BY KeptAppend
  <2> QED BY <1>2, <2>1, <2>3, <2>4, <2>5
<1>3. Seq(T) \subseteq G
  <2> HIDE DEF G
  <2>1. G \in SUBSET Seq(T) BY DEF G
  <2> QED BY <1>1, <1>2, <2>1, SnocInduction
<1> QED BY <1>3

\* A filter returns members of the sequence that are in the set.
LEMMA KeptMembers ==
    ASSUME NEW T, NEW S, NEW s \in Seq(T)
    PROVE  /\ Kept(s, S) \in Seq(T)
           /\ \A i \in DOMAIN Kept(s, S): /\ Kept(s, S)[i] \in S
                                          /\ \E j \in DOMAIN s: s[j] = Kept(s, S)[i]
<1> DEFINE G == {u \in Seq(T): \A i \in DOMAIN Kept(u, S): /\ Kept(u, S)[i] \in S
                                          /\ \E j \in DOMAIN u: u[j] = Kept(u, S)[i]}
<1>1. <<>> \in G BY EmptySeq, KeptEmpty
<1>2. ASSUME NEW u \in Seq(T), NEW x \in T, u \in G PROVE Append(u, x) \in G
  <2>1. /\ Append(u, x) \in Seq(T)
        /\ DOMAIN Append(u, x) = 1..(Len(u) + 1) /\ DOMAIN u = 1..Len(u) /\ Len(u) \in Nat
        /\ Append(u, x)[Len(u) + 1] = x
        /\ \A j \in DOMAIN u: Append(u, x)[j] = u[j]
    BY AppendProperties, LenProperties
  <2>2. Kept(u, S) \in Seq(T) BY KeptType
  <2>3. SUFFICES ASSUME NEW i \in DOMAIN Kept(Append(u, x), S)
                 PROVE  /\ Kept(Append(u, x), S)[i] \in S
                        /\ \E j \in DOMAIN Append(u, x): Append(u, x)[j] = Kept(Append(u, x), S)[i]
    BY <2>1
  <2>4. Kept(Append(u, x), S) = IF x \in S THEN Append(Kept(u, S), x) ELSE Kept(u, S)
    BY KeptAppend
  <2>5. ASSUME i \in DOMAIN Kept(u, S), Kept(Append(u, x), S)[i] = Kept(u, S)[i]
        PROVE  /\ Kept(Append(u, x), S)[i] \in S
               /\ \E j \in DOMAIN Append(u, x): Append(u, x)[j] = Kept(Append(u, x), S)[i]
    <3>1. PICK j \in DOMAIN u: u[j] = Kept(u, S)[i] BY <1>2, <2>5
    <3>2. j \in DOMAIN Append(u, x) /\ Append(u, x)[j] = Kept(Append(u, x), S)[i] BY <2>1, <2>5, <3>1
    <3> QED BY <1>2, <2>5, <3>2
  <2>6. CASE x \in S
    <3>1. /\ Kept(Append(u, x), S) = Append(Kept(u, S), x)
          /\ DOMAIN Kept(u, S) = 1..Len(Kept(u, S)) /\ Len(Kept(u, S)) \in Nat
      BY <2>2, <2>4, <2>6, LenProperties
    <3>2. CASE i \in DOMAIN Kept(u, S) BY <2>2, <2>5, <3>1, <3>2, AppendProperties
    <3>3. CASE i \notin DOMAIN Kept(u, S)
      <4>1. i = Len(Kept(u, S)) + 1 BY <2>2, <3>1, <3>3, AppendProperties, LenProperties
      <4>2. Kept(Append(u, x), S)[i] = x BY <2>2, <3>1, <4>1, AppendProperties
      <4>3. Len(u) + 1 \in DOMAIN Append(u, x) BY <2>1
      <4> QED BY <2>1, <2>6, <4>2, <4>3
    <3> QED BY <3>2, <3>3
  <2>7. CASE x \notin S BY <2>4, <2>5, <2>7
  <2> QED BY <2>6, <2>7
<1>3. Seq(T) \subseteq G
  <2> HIDE DEF G
  <2>1. G \in SUBSET Seq(T) BY DEF G
  <2> QED BY <1>1, <1>2, <2>1, SnocInduction
<1>4. s \in G BY <1>3
<1> QED BY <1>4, KeptType

\* A filter loses no member that is in the set.
LEMMA KeptComplete ==
    ASSUME NEW T, NEW S, NEW s \in Seq(T), NEW j \in DOMAIN s, s[j] \in S
    PROVE  \E i \in DOMAIN Kept(s, S): Kept(s, S)[i] = s[j]
<1> DEFINE Has(r, v) == \E i \in DOMAIN r: r[i] = v
           G == {u \in Seq(T): \A k \in DOMAIN u: u[k] \in S => Has(Kept(u, S), u[k])}
<1>1. <<>> \in G BY EmptySeq
<1>2. ASSUME NEW u \in Seq(T), NEW x \in T, u \in G PROVE Append(u, x) \in G
  <2>1. /\ Append(u, x) \in Seq(T)
        /\ DOMAIN Append(u, x) = 1..(Len(u) + 1) /\ DOMAIN u = 1..Len(u) /\ Len(u) \in Nat
        /\ Append(u, x)[Len(u) + 1] = x
        /\ \A k \in DOMAIN u: Append(u, x)[k] = u[k]
    BY AppendProperties, LenProperties
  <2>2. Kept(u, S) \in Seq(T) BY KeptType
  <2>3. SUFFICES ASSUME NEW k \in DOMAIN Append(u, x), Append(u, x)[k] \in S
                 PROVE  Has(Kept(Append(u, x), S), Append(u, x)[k])
    BY <2>1
  <2>4. Kept(Append(u, x), S) = IF x \in S THEN Append(Kept(u, S), x) ELSE Kept(u, S)
    BY KeptAppend
  <2>5. /\ DOMAIN Append(Kept(u, S), x) = 1..(Len(Kept(u, S)) + 1)
        /\ DOMAIN Kept(u, S) = 1..Len(Kept(u, S)) /\ Len(Kept(u, S)) \in Nat
        /\ Append(Kept(u, S), x)[Len(Kept(u, S)) + 1] = x
        /\ \A i \in DOMAIN Kept(u, S): Append(Kept(u, S), x)[i] = Kept(u, S)[i]
    BY <2>2, AppendProperties, LenProperties
  <2>6. CASE k \in DOMAIN u
    <3>1. PICK i \in DOMAIN Kept(u, S): Kept(u, S)[i] = u[k] BY <1>2, <2>1, <2>3, <2>6
    <3> QED BY <2>1, <2>4, <2>5, <2>6, <3>1
  <2>7. CASE k \notin DOMAIN u
    <3>1. Append(u, x)[k] = x BY <2>1, <2>7
    <3>2. Len(Kept(u, S)) + 1 \in DOMAIN Append(Kept(u, S), x) BY <2>5
    <3> QED BY <2>3, <2>4, <2>5, <3>1, <3>2
  <2> QED BY <2>6, <2>7
<1>3. Seq(T) \subseteq G
  <2> HIDE DEF G
  <2>1. G \in SUBSET Seq(T) BY DEF G
  <2> QED BY <1>1, <1>2, <2>1, SnocInduction
<1> QED BY <1>3

-----------------------------------------------------------------------------
(* Concatenations *)

\* A sequence cut in two behind its k-th member.
LEMMA CutAt ==
    ASSUME NEW T, NEW s \in Seq(T), NEW k \in 0..Len(s)
    PROVE  LET a == SubSeq(s, 1, k)
               b == SubSeq(s, k + 1, Len(s))
           IN  /\ a \in Seq(T) /\ Len(a) = k /\ \A i \in 1..k: a[i] = s[i]
               /\ b \in Seq(T) /\ Len(b) = Len(s) - k /\ \A i \in 1..(Len(s) - k): b[i] = s[k + i]
               /\ s = a \o b
<1> DEFINE n == Len(s)
           a == SubSeq(s, 1, k)
           b == SubSeq(s, k + 1, n)
<1>1. n \in Nat /\ k \in Nat /\ k <= n /\ \A i \in 1..n: s[i] \in T BY LenProperties, ElementOfSeq
<1>2. s = a \o b
  <2>1. 1 \in 1..(n + 1) /\ k \in (1 - 1)..n /\ n \in k..n BY <1>1
  <2>2. SubSeq(s, 1, k) \o SubSeq(s, k + 1, n) = SubSeq(s, 1, n) BY <2>1, ConcatAdjacentSubSeq
  <2> QED BY <2>2, SubSeqFull
<1> HIDE DEF n
<1>3. a \in Seq(T) /\ Len(a) = k /\ \A i \in 1..k: a[i] = s[i]
  <2>1. 1 \in Int /\ k \in Int /\ \A i \in 1..k: s[i] \in T BY <1>1
  <2>2. /\ a \in Seq(T) /\ Len(a) = IF 1 <= k THEN k - 1 + 1 ELSE 0
        /\ \A i \in 1..(k - 1 + 1): a[i] = s[1 + i - 1]
    BY <2>1, SubSeqProperties
  <2>3. \A i \in 1..k: i \in 1..(k - 1 + 1) /\ 1 + i - 1 = i BY <1>1
  <2> HIDE DEF a
  <2> QED BY <1>1, <2>2, <2>3
<1>4. b \in Seq(T) /\ Len(b) = n - k /\ \A i \in 1..(n - k): b[i] = s[k + i]
  <2>1. k + 1 \in Int /\ n \in Int /\ \A i \in (k + 1)..n: s[i] \in T BY <1>1
  <2>2. /\ b \in Seq(T) /\ Len(b) = IF k + 1 <= n THEN n - (k + 1) + 1 ELSE 0
        /\ \A i \in 1..(n - (k + 1) + 1): b[i] = s[(k + 1) + i - 1]
    BY <2>1, SubSeqProperties
  <2>3. \A i \in 1..(n - k): i \in 1..(n - (k + 1) + 1) /\ (k + 1) + i - 1 = k + i BY <1>1
  <2> HIDE DEF b
  <2> QED BY <1>1, <2>2, <2>3
<1> QED BY <1>2, <1>3, <1>4 DEF n

LEMMA HeadAndTail ==
    ASSUME NEW T, NEW w \in Seq(T), w # <<>>
    PROVE  /\ Head(w) \in T /\ Tail(w) \in Seq(T) /\ w = <<Head(w)>> \o Tail(w)
           /\ <<Head(w)>> \in Seq(T) /\ Len(Tail(w)) = Len(w) - 1
<1> DEFINE h == <<Head(w)>>
           t == Tail(w)
           r == h \o t
           n == Len(w)
<1>1. /\ Head(w) \in T /\ Head(w) = w[1] /\ t \in Seq(T) /\ Len(t) = n - 1
      /\ \A i \in 1..Len(t): t[i] = w[i + 1]
  BY HeadTailProperties
<1>2. n \in Nat /\ n # 0 BY LenProperties, EmptySeq
<1>3. h \in Seq(T) /\ Len(h) = 1 /\ h[1] = w[1] BY <1>1
<1> HIDE DEF h, t
<1>4. /\ r \in Seq(T) /\ Len(r) = Len(h) + Len(t)
      /\ \A i \in 1..(Len(h) + Len(t)): r[i] = IF i <= Len(h) THEN h[i] ELSE t[i - Len(h)]
  <2>1. h \in Seq(T) /\ t \in Seq(T) BY <1>1, <1>3
  <2> QED BY <2>1, ConcatProperties
<1> HIDE DEF r, n
<1>5. Len(r) = n BY <1>1, <1>2, <1>3, <1>4
<1>6. \A i \in 1..n: r[i] = w[i]
  <2> SUFFICES ASSUME NEW i \in 1..n PROVE r[i] = w[i] OBVIOUS
  <2>1. CASE i = 1 BY <1>1, <1>2, <1>3, <1>4, <2>1
  <2>2. CASE i > 1
    <3>1. i - 1 \in 1..(n - 1) /\ (i - 1) + 1 = i BY <1>2, <2>2
    <3>2. t[i - 1] = w[i] BY <1>1, <3>1
    <3>3. i \in 1..(1 + (n - 1)) /\ ~ (i <= 1) BY <1>2, <2>2
    <3> QED BY <1>1, <1>3, <1>4, <3>2, <3>3
  <2> QED BY <1>2, <2>1, <2>2
<1>7. r = w BY <1>4, <1>5, <1>6, SeqEqual DEF n
<1> QED BY <1>1, <1>3, <1>7 DEF r, h, t, n

-----------------------------------------------------------------------------
(* Members that are in a set, counted *)

Count(s, S) == Len(Kept(s, S))

One(x, S) == IF x \in S THEN 1 ELSE 0

LEMMA CountType == ASSUME NEW T, NEW S, NEW s \in Seq(T) PROVE Count(s, S) \in Nat
BY KeptType, LenProperties DEF Count

LEMMA CountConcat ==
    ASSUME NEW T, NEW S, NEW s \in Seq(T), NEW t \in Seq(T)
    PROVE  Count(s \o t, S) = Count(s, S) + Count(t, S)
BY KeptConcat, KeptType, ConcatProperties DEF Count

LEMMA CountAppend ==
    ASSUME NEW T, NEW S, NEW s \in Seq(T), NEW x \in T
    PROVE  Count(Append(s, x), S) = Count(s, S) + One(x, S)
<1>1. Kept(Append(s, x), S) = IF x \in S THEN Append(Kept(s, S), x) ELSE Kept(s, S) BY KeptAppend
<1>2. Kept(s, S) \in Seq(T) /\ Len(Kept(s, S)) \in Nat BY KeptType, LenProperties
<1>3. Len(Append(Kept(s, S), x)) = Len(Kept(s, S)) + 1 BY <1>2, AppendProperties
<1> QED BY <1>1, <1>2, <1>3 DEF Count, One

LEMMA CountOne == ASSUME NEW T, NEW S, NEW x \in T PROVE Count(<<x>>, S) = One(x, S)
<1>1. <<>> \in Seq(T) /\ Append(<<>>, x) = <<x>> BY EmptySeq
<1>2. Count(<<>>, S) = 0 BY <1>1, KeptEmpty, EmptySeq DEF Count
<1>3. Count(Append(<<>>, x), S) = 0 + One(x, S) BY <1>1, <1>2, CountAppend
<1> QED BY <1>1, <1>3 DEF One

\* Counting members of the sequence is counting places.
LEMMA CountIsCardinality ==
    ASSUME NEW T, NEW S, NEW s \in Seq(T)
    PROVE  /\ IsFiniteSet({i \in DOMAIN s: s[i] \in S})
           /\ Cardinality({i \in DOMAIN s: s[i] \in S}) = Count(s, S)
<1> DEFINE At(u) == {i \in DOMAIN u: u[i] \in S}
           G == {u \in Seq(T): IsFiniteSet(At(u)) /\ Cardinality(At(u)) = Count(u, S)}
<1>1. <<>> \in G
  <2>1. <<>> \in Seq(T) /\ At(<<>>) = {} BY EmptySeq
  <2>2. Count(<<>>, S) = 0 BY KeptEmpty, EmptySeq DEF Count
  <2> QED BY <2>1, <2>2, FS_EmptySet
<1>2. ASSUME NEW u \in Seq(T), NEW x \in T, u \in G PROVE Append(u, x) \in G
  <2>1. /\ Append(u, x) \in Seq(T)
        /\ DOMAIN Append(u, x) = 1..(Len(u) + 1) /\ DOMAIN u = 1..Len(u) /\ Len(u) \in Nat
        /\ Append(u, x)[Len(u) + 1] = x
        /\ \A j \in DOMAIN u: Append(u, x)[j] = u[j]
    BY AppendProperties, LenProperties
  <2>2. At(Append(u, x)) = IF x \in S THEN At(u) \union {Len(u) + 1} ELSE At(u) BY <2>1
  <2>3. Len(u) + 1 \notin At(u) BY <2>1
  <2>4. IsFiniteSet(At(u)) /\ Cardinality(At(u)) = Count(u, S) BY <1>2
  <2>5. Count(Append(u, x), S) = Count(u, S) + One(x, S) BY CountAppend
  <2>6. Count(u, S) \in Nat BY CountType
  <2> HIDE DEF At
  <2>7. IsFiniteSet(At(Append(u, x))) /\ Cardinality(At(Append(u, x))) = Count(Append(u, x), S)
    <3>1. CASE x \in S BY <2>2, <2>3, <2>4, <2>5, <3>1, FS_AddElement DEF One
    <3>2. CASE x \notin S BY <2>2, <2>4, <2>5, <2>6, <3>2 DEF One
    <3> QED BY <3>1, <3>2
  <2> QED BY <2>1, <2>7
<1>3. Seq(T) \subseteq G
  <2> HIDE DEF G
  <2>1. G \in SUBSET Seq(T) BY DEF G
  <2> QED BY <1>1, <1>2, <2>1, SnocInduction
<1> QED BY <1>3

LEMMA CountPresent ==
    ASSUME NEW T, NEW s \in Seq(T), NEW x
    PROVE  Count(s, {x}) # 0 <=> \E i \in DOMAIN s: s[i] = x
<1> DEFINE at == {i \in DOMAIN s: s[i] \in {x}}
<1>1. IsFiniteSet(at) /\ Cardinality(at) = Count(s, {x}) BY CountIsCardinality
<1>2. Cardinality(at) = 0 <=> at = {} BY <1>1, FS_EmptySet
<1> QED BY <1>1, <1>2

LEMMA CountAll ==
    ASSUME NEW T, NEW s \in Seq(T)
    PROVE  Count(s, T) = Len(s)
<1>1. {i \in DOMAIN s: s[i] \in T} = 1..Len(s) /\ Len(s) \in Nat BY LenProperties, ElementOfSeq
<1> DEFINE n == Len(s)
<1>2. Cardinality(1..n) = n
  <2> HIDE DEF n
  <2>1. n \in Nat BY <1>1 DEF n
  <2>2. Cardinality(1..n) = IF 1 > n THEN 0 ELSE n - 1 + 1 BY <2>1, FS_Interval
  <2> QED BY <2>1, <2>2
<1> QED BY <1>1, <1>2, CountIsCardinality

-----------------------------------------------------------------------------
(* A function of the members, and its sum *)

Mapped(s, f) == [i \in DOMAIN s |-> f[s[i]]]

SumOf(s, f) == Total(Mapped(s, f))

LEMMA MappedType ==
    ASSUME NEW T, NEW U, NEW f \in [T -> U], NEW s \in Seq(T)
    PROVE  /\ Mapped(s, f) \in Seq(U) /\ Len(Mapped(s, f)) = Len(s)
           /\ \A i \in 1..Len(s): Mapped(s, f)[i] = f[s[i]] /\ s[i] \in T
<1> DEFINE n == Len(s)
           m == Mapped(s, f)
<1>1. n \in Nat /\ DOMAIN s = 1..n /\ \A i \in 1..n: s[i] \in T BY LenProperties, ElementOfSeq
<1>2. m = [i \in 1..n |-> f[s[i]]] BY <1>1 DEF Mapped
<1> HIDE DEF n
<1>3. m \in [1..n -> U] BY <1>1, <1>2
<1> HIDE DEF m
<1>4. m \in Seq(U) BY <1>1, <1>3
<1>5. Len(m) = n BY <1>1, <1>3
<1>6. \A i \in 1..n: m[i] = f[s[i]] BY <1>2
<1> QED BY <1>1, <1>4, <1>5, <1>6 DEF m, n

LEMMA MappedAppend ==
    ASSUME NEW T, NEW U, NEW f \in [T -> U], NEW s \in Seq(T), NEW x \in T
    PROVE  Mapped(Append(s, x), f) = Append(Mapped(s, f), f[x])
<1> DEFINE n == Len(s)
           r == Append(s, x)
           m == Mapped(s, f)
           a == Mapped(r, f)
           b == Append(m, f[x])
<1>1. /\ r \in Seq(T) /\ Len(r) = n + 1 /\ n \in Nat
      /\ \A i \in 1..n: r[i] = s[i]
      /\ r[n + 1] = x
  BY AppendProperties, LenProperties
<1>2. m \in Seq(U) /\ Len(m) = n /\ \A i \in 1..n: m[i] = f[s[i]]
  <2>1. /\ Mapped(s, f) \in Seq(U) /\ Len(Mapped(s, f)) = Len(s)
        /\ \A i \in 1..Len(s): Mapped(s, f)[i] = f[s[i]] /\ s[i] \in T
    BY MappedType
  <2> QED BY <2>1
<1>3. a \in Seq(U) /\ Len(a) = n + 1 /\ \A i \in 1..(n + 1): a[i] = f[r[i]]
  <2> HIDE DEF r
  <2>1. /\ Mapped(r, f) \in Seq(U) /\ Len(Mapped(r, f)) = Len(r)
        /\ \A i \in 1..Len(r): Mapped(r, f)[i] = f[r[i]] /\ r[i] \in T
    BY <1>1, MappedType
  <2> QED BY <1>1, <2>1
<1> HIDE DEF r, m, a, n
<1>4. /\ b \in Seq(U) /\ Len(b) = n + 1 /\ b[n + 1] = f[x] /\ \A i \in 1..n: b[i] = f[s[i]]
  <2>1. f[x] \in U OBVIOUS
  <2>2. /\ b \in Seq(U) /\ Len(b) = Len(m) + 1 /\ b[Len(m) + 1] = f[x]
        /\ \A i \in 1..Len(m): b[i] = m[i]
    BY <1>2, <2>1, AppendProperties
  <2> HIDE DEF b
  <2> QED BY <1>2, <2>2
<1> HIDE DEF b
<1>5. \A i \in 1..(n + 1): a[i] = b[i]
  <2> SUFFICES ASSUME NEW i \in 1..(n + 1) PROVE a[i] = b[i] OBVIOUS
  <2>1. CASE i = n + 1 BY <1>1, <1>3, <1>4, <2>1
  <2>2. CASE i \in 1..n BY <1>1, <1>3, <1>4, <2>2
  <2> QED BY <1>1, <2>1, <2>2
<1>6. a = b BY <1>3, <1>4, <1>5, SeqEqual
<1> QED BY <1>6 DEF a, b, r, m

LEMMA SumEmpty == ASSUME NEW f PROVE SumOf(<<>>, f) = 0
<1>1. Mapped(<<>>, f) = <<>>
  <2>1. DOMAIN <<>> = {} BY EmptySeq
  <2>2. Mapped(<<>>, f) = [i \in {} |-> f[<<>>[i]]] BY <2>1 DEF Mapped
  <2> QED BY <2>2
<1> QED BY <1>1, TotalEmpty DEF SumOf

LEMMA SumAppend ==
    ASSUME NEW T, NEW f \in [T -> Int], NEW s \in Seq(T), NEW x \in T
    PROVE  SumOf(s, f) \in Int /\ SumOf(Append(s, x), f) = SumOf(s, f) + f[x]
<1> DEFINE Z == Int
<1>1. f \in [T -> Z] OBVIOUS
<1> HIDE DEF Z
<1>2. Mapped(s, f) \in Seq(Z) /\ Mapped(Append(s, x), f) = Append(Mapped(s, f), f[x]) /\ f[x] \in Z
  <2>1. /\ Mapped(s, f) \in Seq(Z) /\ Len(Mapped(s, f)) = Len(s)
        /\ \A i \in 1..Len(s): Mapped(s, f)[i] = f[s[i]] /\ s[i] \in T
    BY <1>1, MappedType
  <2>2. Mapped(Append(s, x), f) = Append(Mapped(s, f), f[x]) BY <1>1, MappedAppend, ZenonT(40)
  <2>3. f[x] \in Z BY <1>1
  <2> QED BY <2>1, <2>2, <2>3
<1>3. Mapped(s, f) \in Seq(Int) /\ f[x] \in Int BY <1>2 DEF Z
<1>4. Total(Mapped(s, f)) \in Int /\ Total(Append(Mapped(s, f), f[x])) = Total(Mapped(s, f)) + f[x]
  BY <1>3, TotalAppend
<1> QED BY <1>2, <1>4 DEF SumOf

LEMMA SumType ==
    ASSUME NEW T, NEW f \in [T -> Int], NEW s \in Seq(T)
    PROVE  SumOf(s, f) \in Int
<1>1. CASE s = <<>> BY <1>1, SumEmpty
<1>2. CASE s # <<>>
  <2>1. Head(s) \in T BY <1>2, HeadTailProperties
  <2> QED BY <2>1, SumAppend
<1> QED BY <1>1, <1>2

LEMMA SumConcat ==
    ASSUME NEW T, NEW f \in [T -> Int], NEW s \in Seq(T), NEW t \in Seq(T)
    PROVE  SumOf(s \o t, f) = SumOf(s, f) + SumOf(t, f)
<1> DEFINE G == {u \in Seq(T): SumOf(s \o u, f) = SumOf(s, f) + SumOf(u, f)}
<1>0. SumOf(s, f) \in Int BY SumType
<1>1. <<>> \in G
  <2>1. <<>> \in Seq(T) /\ s \o <<>> = s BY EmptySeq, ConcatEmptySeq
  <2> QED BY <1>0, <2>1, SumEmpty
<1>2. ASSUME NEW u \in Seq(T), NEW x \in T, u \in G PROVE Append(u, x) \in G
  <2>1. /\ s \o Append(u, x) = Append(s \o u, x)
        /\ s \o u \in Seq(T) /\ Append(u, x) \in Seq(T)
    <3>1. s \o u \in Seq(T) BY ConcatProperties
    <3>2. Append(u, x) \in Seq(T) BY AppendProperties
    <3>3. s \o Append(u, x) = Append(s \o u, x) OBVIOUS
    <3> QED BY <3>1, <3>2, <3>3
  <2>2. SumOf(u, f) \in Int /\ SumOf(Append(u, x), f) = SumOf(u, f) + f[x] BY SumAppend
  <2>3. SumOf(Append(s \o u, x), f) = SumOf(s \o u, f) + f[x]
    <3> DEFINE w == s \o u
    <3>1. w \in Seq(T) BY <2>1
    <3> HIDE DEF w
    <3>2. SumOf(Append(w, x), f) = SumOf(w, f) + f[x] BY <3>1, SumAppend
    <3> QED BY <3>2 DEF w
  <2>4. f[x] \in Int OBVIOUS
  <2>5. SumOf(s \o u, f) = SumOf(s, f) + SumOf(u, f) BY <1>2
  <2>6. SumOf(s \o Append(u, x), f) = SumOf(s, f) + SumOf(Append(u, x), f)
    BY <1>0, <2>1, <2>2, <2>3, <2>4, <2>5
  <2> QED BY <2>1, <2>6
<1>3. Seq(T) \subseteq G
  <2> HIDE DEF G
  <2>1. G \in SUBSET Seq(T) BY DEF G
  <2> QED BY <1>1, <1>2, <2>1, SnocInduction
<1> QED BY <1>3

LEMMA SumTail ==
    ASSUME NEW T, NEW f \in [T -> Int], NEW s \in Seq(T), s # <<>>
    PROVE  SumOf(Tail(s), f) = SumOf(s, f) - f[Head(s)]
<1> DEFINE h == Head(s)
           t == Tail(s)
<1>1. h \in T /\ t \in Seq(T) /\ s = <<h>> \o t /\ <<h>> \in Seq(T) BY HeadAndTail
<1> HIDE DEF h, t
<1>2. SumOf(<<h>> \o t, f) = SumOf(<<h>>, f) + SumOf(t, f) BY <1>1, SumConcat
<1>3. <<>> \in Seq(T) /\ Append(<<>>, h) = <<h>> BY <1>1, EmptySeq
<1>4. SumOf(Append(<<>>, h), f) = SumOf(<<>>, f) + f[h] BY <1>1, <1>3, SumAppend
<1>5. SumOf(<<>>, f) = 0 /\ SumOf(t, f) \in Int /\ f[h] \in Int BY <1>1, SumEmpty, SumType
<1>6. SumOf(s, f) = f[h] + SumOf(t, f) BY <1>1, <1>2, <1>3, <1>4, <1>5
<1>7. SumOf(t, f) = SumOf(s, f) - f[h] BY <1>5, <1>6
<1> QED BY <1>7 DEF h, t
=============================================================================
