\* A refresh between a call's log and its recording.
SPECIFICATION Spec
CONSTANTS
    Calls = {c1}
    Refreshes = {b1}
    Limit = 2
    MaxCrashes = 0
SYMMETRY Interchangeable
INVARIANTS
    NoDoubleCounting
