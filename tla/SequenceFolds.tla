---------------------------- MODULE SequenceFolds ----------------------------
(***************************************************************************)
(* Two loops over a sequence that the models need: a sum, and a filter.    *)
(* A filter takes the set of what it keeps, not a test, so that facts      *)
(* about it can be stated once (SequenceFacts).                            *)
(***************************************************************************)
EXTENDS Integers, Sequences

\* The sum of a sequence of numbers: sum[n] is that of the first n.
Total(s) ==
    LET sum[n \in 0..Len(s)] == IF n = 0 THEN 0 ELSE sum[n - 1] + s[n]
    IN  sum[Len(s)]

\* What is left of s when only members of S are kept, in order.
Kept(s, S) ==
    LET left[n \in 0..Len(s)] ==
            IF n = 0 THEN <<>>
            ELSE IF s[n] \in S THEN Append(left[n - 1], s[n])
            ELSE left[n - 1]
    IN  left[Len(s)]
=============================================================================
