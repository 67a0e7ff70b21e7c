-------------------------- MODULE MCMetricsEngine --------------------------
EXTENDS MetricsEngine

\* 0 is raised to 1; a window of one; windows that fill and roll.
MCHistoryLimits == {0, 3, 5}
\* Both clamps, both ends, an integral index (0 and 500 of odd windows) and
\* the interpolated ones.
MCPermilles == {-100, 0, 250, 500, 1000, 1100}
=============================================================================
