\* Handlers and tasks of one job, every interleaving, one crash.
SPECIFICATION Spec
CONSTANTS
    Requests = {r1, r2, r3}
    Jobs = {j1}
    MaxAttempts = 2
    Steps = 1
    MaxCrashes = 1
    NoRun = NoRun
SYMMETRY Interchangeable
INVARIANTS
    TypeOK
    QueuedJobHasTask
    RunningJobHasWorker
    LinkedRunEnded
    EventsAreCheckpointed
PROPERTIES
    LinkIsKept
