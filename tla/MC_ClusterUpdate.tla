--------------------------- MODULE MC_ClusterUpdate ---------------------------
EXTENDS ClusterUpdate

\* Two updates, each spawning one notifier (so MaxRuns never holds a
\* return back); two alerts into a bucket of two, so one drain may return
\* both (the sender goroutines of one notifier run side by side).
MCMaxRefreshes == 2
MCMaxRuns == 2
MCMaxAlerts == 2
MCCapacity == 2

=============================================================================
