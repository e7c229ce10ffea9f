\* Every interleaving of three calls when the process lives.
SPECIFICATION HistorySpec
CONSTANTS
    Requests = {r1, r2, r3}
    Jobs = {j1}
    MaxAttempts = 2
    Steps = 0
    MaxCrashes = 0
    NoRun = NoRun
INVARIANTS
    OverrunsAreOvertaken
PROPERTIES
    EndingsStand
    EveryJobSettles
