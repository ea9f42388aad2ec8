---------------------------- MODULE MCStatsGraph ----------------------------
\* StatsGraph as the sink statistics use it, with a window of a few points.
EXTENDS StatsGraph

GivenNames == <<"Interface 1">>
Lowest == -2
=============================================================================
