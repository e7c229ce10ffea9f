------------------------ MODULE MCOrchestrationQueue ------------------------
\* OrchestrationQueue for TLC: the requests and the jobs are interchangeable.
EXTENDS OrchestrationQueue, TLC

Interchangeable == Permutations(Requests) \cup Permutations(Jobs)
=============================================================================
