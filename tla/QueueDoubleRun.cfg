\* Cancel and retry while the first task waits for a thread.
SPECIFICATION Spec
CONSTANTS
    Requests = {r1, r2, r3}
    Jobs = {j1}
    MaxAttempts = 3
    Steps = 0
    MaxCrashes = 0
    NoRun = NoRun
SYMMETRY Interchangeable
INVARIANTS
    OneExecutionPerJob
