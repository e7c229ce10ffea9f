\* Calls and refreshes of one subject, every interleaving, one failure.
SPECIFICATION Spec
CONSTANTS
    Calls = {c1, c2, c3}
    Refreshes = {b1, b2}
    Limit = 1
    MaxCrashes = 1
SYMMETRY Interchangeable
INVARIANTS
    TypeOK
    BilledTwiceAtMost
    QuotaIsExact
    RacesOverrunAlone
    RacesLoseTheirOwn
PROPERTIES
    RefreshRepairs
