\* Starts from every database, two crashes; a limiter of two requests in two
\* seconds of two ticks.
SPECIFICATION Spec
CONSTANTS
    Records = {r1}
    MaxCrashes = 2
    Window = 2
    MaxRequests = 2
    Second = 2
    MaxTime = 7
CHECK_DEADLOCK FALSE
INVARIANTS
    TypeOK
    ServesAllTables
    RevisionIsHonest
    RefusedTwiceAtMost
PROPERTIES
    StartsEventually
