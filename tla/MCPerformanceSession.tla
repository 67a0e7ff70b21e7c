----------------------- MODULE MCPerformanceSession ------------------------
EXTENDS PerformanceSession

\* Rejected (0.4 us rounds to 0, -1 us), shortest accepted (0.5 us) and longer.
MCFrameTimes == {-10, 4, 5, 16}
MCSeeds == {1, 2}
=============================================================================
