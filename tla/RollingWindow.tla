--------------------------- MODULE RollingWindow ---------------------------
(***************************************************************************)
(* What a metrics engine promises: its report is computed from the last    *)
(* limit frametimes pushed since the last reset, and from nothing else.    *)
(***************************************************************************)
EXTENDS Rational, SequenceFolds, SequencesExt, FiniteSets

CONSTANT Values   \* frametimes

VARIABLES
    limit,    \* fixed when the engine is made, never 0
    window

Init == limit \in Nat \ {0} /\ window = <<>>

Push(x) ==
    /\ window' = Append(IF Len(window) = limit THEN Tail(window) ELSE window, x)
    /\ UNCHANGED limit
Clear == window' = <<>> /\ UNCHANGED limit

Next == Clear \/ \E x \in Values : Push(x)

Spec == Init /\ [][Next]_<<limit, window>>

-----------------------------------------------------------------------------
(* Batch definitions of the reported figures                               *)

Mean(w) == IF w = <<>> THEN Zero ELSE Frac(Total(w), Len(w))

\* The sum of the squared distances of w's members from m.
SquaredDeviations(w, m) ==
    LET sum[n \in 0..Len(w)] ==
            IF n = 0 THEN Zero
            ELSE Plus(sum[n - 1], Times(Minus(Whole(w[n]), m), Minus(Whole(w[n]), m)))
    IN  sum[Len(w)]

\* The value with at most idx others before it in ascending order, idx counted from 0.
OrderStatistic(w, idx) ==
    CHOOSE v \in ToSet(w) :
        /\ Cardinality({i \in DOMAIN w : w[i] < v}) <= idx
        /\ Cardinality({i \in DOMAIN w : w[i] <= v}) > idx

\* Linear interpolation between the two order statistics around permille/1000 * (n - 1).
Percentile(w, permille) ==
    LET at   == Frac(permille * (Len(w) - 1), 1000)
        low  == Whole(OrderStatistic(w, FloorOf(at)))
        high == Whole(OrderStatistic(w, CeilOf(at)))
    IN  Plus(low, Times(Minus(high, low), Minus(at, Whole(FloorOf(at)))))

\* All frametime figures of a snapshot; the fps figures are 1000 over these.
Report(w) ==
    IF w = <<>> THEN [sample_count |-> 0]
    ELSE [sample_count |-> Len(w),
          latest   |-> Last(w),
          average  |-> Mean(w),
          variance |-> Over(SquaredDeviations(w, Mean(w)), Whole(Len(w))),
          min      |-> OrderStatistic(w, 0),
          max      |-> OrderStatistic(w, Len(w) - 1),
          p99      |-> Percentile(w, 990),
          p999     |-> Percentile(w, 999)]
=============================================================================
