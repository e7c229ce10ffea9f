\* Two evaluation runs over up to two cases, or all three, a crash, feedback.
SPECIFICATION Spec
CONSTANTS
    c1 = c1
    c2 = c2
    c3 = c3
    r1 = r1
    r2 = r2
    Runs = {r1, r2}
    Ids = {c1, c2, c3}
    Asks <- MCAsks
    Replies = {"none", "approved", "maybe"}
    Reviewable = {1, 3}
    Dataset <- MCDataset
    WriteProtected = TRUE
    Configured = TRUE
    Uncased = Uncased
    MaxCrashes = 1
    MaxFeedback = 2
CHECK_DEADLOCK FALSE
INVARIANTS
    TypeOK
    FinishedRunIsWhole
    AnswersAreScored
PROPERTIES
    RunsEnd
