------------------------- MODULE MCOrchestrationRun -------------------------
\* OrchestrationRun for TLC: the backfills are interchangeable.
EXTENDS OrchestrationRun, TLC

Interchangeable == Permutations(Backfills)
=============================================================================
