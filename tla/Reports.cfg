\* Three runs, one job that may be retried, a window of one day.
SPECIFICATION Spec
CONSTANTS
    Templates = {1}
    Policies <- MCPolicies
    Kinds <- MCKinds
    Scenarios <- MCScenarios
    Subjects = {s1}
    Jobs = {j1}
    NoJob = NoJob
    Everyone = Everyone
    TopLimit = 1
    Days = 1
    TicksPerDay = 2
    MaxTime = 4
    MaxRuns = 3
    MaxBlocks = 1
CHECK_DEADLOCK FALSE
INVARIANTS
    TypeOK
    CheckpointsCountOnce
    TotalsAgree
