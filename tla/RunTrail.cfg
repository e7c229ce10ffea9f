\* One run, two overlapping backfills, failures anywhere.
SPECIFICATION Spec
CONSTANTS
    Runs = {r1}
    Steps = 2
    Backfills = {b1, b2}
    MaxCrashes = 1
    NoEvent = NoEvent
SYMMETRY Interchangeable
INVARIANTS
    TypeOK
    EvidenceIsBacked
    SuccessIsWhole
    AtMostOneEventIsOwed
    BackfillCovers
