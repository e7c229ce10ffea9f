\* One record and its event, written before revision 19.
SPECIFICATION Spec
CONSTANTS
    Records = {r1}
    MaxCrashes = 0
    Window = 1
    MaxRequests = 1
    Second = 1
    MaxTime = 1
INVARIANTS
    LedgerStaysValid
