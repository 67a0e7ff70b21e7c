--------------------------- MODULE MetricsEngine ---------------------------
(***************************************************************************)
(* MetricsEngine: a rolling window of frametimes with a Welford mean and   *)
(* M2 that are updated and downdated instead of recomputed, and a sorted   *)
(* mirror of the window for min, max and percentiles.  Doubles are exact   *)
(* rationals, so the clamps to 0.0 are kept although exact arithmetic      *)
(* never needs them.                                                       *)
(***************************************************************************)
EXTENDS Rational, Sequences, SequencesExt

CONSTANTS
    HistoryLimits, \* the history_limit arguments engines are made with
    Values,        \* frametimes that are pushed
    Permilles,     \* percentiles asked of the mirror besides 990 and 999
    MaxPushes      \* bound: pushes between two resets

ASSUME MetricsAssumption ==
    HistoryLimits \subseteq Nat /\ Values \subseteq Nat \ {0}
    /\ Permilles \subseteq Int /\ MaxPushes \in Nat

VARIABLES
    limit,       \* history_limit_
    frametimes,  \* frametimes_ms_
    mirror,      \* sorted_frametimes_ms_, a multiset: a sequence in ascending order
    mean, M2,    \* welford_mean_, welford_M2_
    latest,      \* latest_frametime_ms_
    totals       \* total_sample_count_ and total_time_ms_

vars == <<limit, frametimes, mirror, mean, M2, latest, totals>>

\* The constructor raises a limit of 0 to 1.
Constructed(historyLimit) == IF historyLimit = 0 THEN 1 ELSE historyLimit

Init ==
    /\ limit \in {Constructed(h) : h \in HistoryLimits}
    /\ frametimes = <<>> /\ mirror = <<>>
    /\ mean = Zero /\ M2 = Zero
    /\ latest = 0 /\ totals = [count |-> 0, time |-> 0]

-----------------------------------------------------------------------------
(* Welford's recurrences                                                   *)

\* One more value x, making n.
Updated(m, s, x, n) ==
    LET delta == Minus(Whole(x), m)
        m2    == Plus(m, Over(delta, Whole(n)))
    IN  [mean |-> m2, M2 |-> Plus(s, Times(delta, Minus(Whole(x), m2)))]

\* One value y less, of n.  Fault: both factors use the new mean.
DowndatedWithNewMean(m, s, y, n) ==
    LET m2 == Over(Minus(Times(Whole(n), m), Whole(y)), Whole(n - 1))
    IN  [mean |-> m2,
         M2 |-> Larger(Zero, Minus(s, Times(Minus(Whole(y), m2), Minus(Whole(y), m2))))]
Downdated(m, s, y, n) ==
    LET m2 == Over(Minus(Times(Whole(n), m), Whole(y)), Whole(n - 1))
    IN  [mean |-> m2,
         M2 |-> Larger(Zero, Minus(s, Times(Minus(Whole(y), m), Minus(Whole(y), m2))))]

\* The mean and M2 after x is pushed on the window w; a window of one is
\* replaced, since a downdate to no values would divide by zero.
Welford(w, m, s, x) ==
    LET n == Len(w) IN
    IF n < limit THEN Updated(m, s, x, n + 1)
    ELSE IF n = 1 THEN [mean |-> Whole(x), M2 |-> Zero]
    ELSE LET less == Downdated(m, s, Head(w), n) IN Updated(less.mean, less.M2, x, n)

-----------------------------------------------------------------------------
(* Actions                                                                 *)

\* insert puts a value behind those that are not larger.
Inserted(sorted, x) ==
    InsertAt(sorted, Min({i \in DOMAIN sorted: sorted[i] > x} \union {Len(sorted) + 1}), x)

\* find and erase: one copy of the evicted value goes, if there is one.
Evicted(sorted, y) ==
    IF y \in ToSet(sorted)
    THEN RemoveAt(sorted, CHOOSE i \in DOMAIN sorted: sorted[i] = y)
    ELSE sorted

\* Fault: the window is allowed to grow one over its limit.
IsFullLate(w) == Len(w) > limit
IsFull(w) == Len(w) >= limit

PushSample(x) ==
    /\ totals.count < MaxPushes
    /\ LET welford == Welford(frametimes, mean, M2, x)
           full    == IsFull(frametimes)
       IN  /\ mean' = welford.mean /\ M2' = welford.M2
           /\ mirror' = Inserted(IF full THEN Evicted(mirror, Head(frametimes)) ELSE mirror, x)
           /\ frametimes' = Append(IF full THEN Tail(frametimes) ELSE frametimes, x)
    /\ latest' = x /\ UNCHANGED limit
    /\ totals' = [count |-> totals.count + 1, time |-> totals.time + x]

Reset ==
    /\ frametimes' = <<>> /\ mirror' = <<>>
    /\ mean' = Zero /\ M2' = Zero
    /\ latest' = 0 /\ totals' = [count |-> 0, time |-> 0]
    /\ UNCHANGED limit

Next == Reset \/ \E x \in Values : PushSample(x)

Spec == Init /\ [][Next]_vars

-----------------------------------------------------------------------------
(* Snapshot                                                                *)

\* PercentileFromSorted's get_at: walk from the nearer end.
\* Fault: std::prev is not told that end() is one past the last value.
GetAtPastEnd(sorted, idx) ==
    LET n == Len(sorted)
        fromEnd == n - 1 - idx
    IN  IF fromEnd < idx THEN sorted[n - fromEnd - 1] ELSE sorted[idx + 1]
GetAt(sorted, idx) ==
    LET n == Len(sorted)
        fromEnd == n - 1 - idx
    IN  IF fromEnd < idx THEN sorted[n + 1 - (fromEnd + 1)] ELSE sorted[idx + 1]

Clamped(permille) == IF permille < 0 THEN 0 ELSE IF permille > 1000 THEN 1000 ELSE permille

PercentileFromSorted(sorted, permille) ==
    LET n      == Len(sorted)
        scaled == Frac(Clamped(permille) * (n - 1), 1000)
        low    == Whole(GetAt(sorted, FloorOf(scaled)))
        high   == Whole(GetAt(sorted, CeilOf(scaled)))
    IN  IF n = 1 THEN Whole(sorted[1])
        ELSE IF FloorOf(scaled) = CeilOf(scaled) THEN low
        ELSE Plus(low, Times(Minus(high, low), Minus(scaled, Whole(FloorOf(scaled)))))

Snapshot ==
    LET n == Len(frametimes)
    IN  IF frametimes = <<>> THEN [sample_count |-> 0]
        ELSE [sample_count |-> n,
              latest   |-> latest,
              average  |-> mean,
              variance |-> IF n > 1 THEN Larger(Zero, Over(M2, Whole(n))) ELSE Zero,
              min      |-> mirror[1],
              max      |-> mirror[Len(mirror)],
              p99      |-> PercentileFromSorted(mirror, 990),
              p999     |-> PercentileFromSorted(mirror, 999)]

-----------------------------------------------------------------------------
(* Properties                                                              *)

\* What the engine promises its callers.
Promise == INSTANCE RollingWindow WITH window <- frametimes

\* The engine keeps the last Limit frametimes, in order, and nothing else.
KeepsRollingWindow == Promise!Spec

\* Every figure of a snapshot, the percentiles read from either end of the
\* mirror included, is the one recomputed from the window: no figure remembers
\* an evicted sample or one from before a reset.
SnapshotMatchesReport == Snapshot = Promise!Report(frametimes)

\* Reading a percentile by the shorter walk from either end of the mirror gives
\* the interpolated order statistics of the window, whatever the percentile.
PercentilesMatchWindow ==
    frametimes # <<>> =>
        \A p \in Permilles :
            PercentileFromSorted(mirror, p) = Promise!Percentile(frametimes, Clamped(p))
=============================================================================
