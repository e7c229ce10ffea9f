--------------------------- MODULE MCUsageMetering ---------------------------
\* UsageMetering for TLC: calls and refreshes are interchangeable.
EXTENDS UsageMetering, TLC

Interchangeable == Permutations(Calls) \cup Permutations(Refreshes)
=============================================================================
