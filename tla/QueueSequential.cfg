\* No request between another's read and write of the job: four calls, one crash.
SPECIFICATION SequentialSpec
CONSTANTS
    Requests = {r1, r2, r3, r4}
    Jobs = {j1}
    MaxAttempts = 2
    Steps = 1
    MaxCrashes = 1
    NoRun = NoRun
SYMMETRY Interchangeable
INVARIANTS
    SucceededRunIsWhole
PROPERTIES
    KeepsLifecycle
