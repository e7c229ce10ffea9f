\* One run of one template, which is edited twice, and two subscription
\* operations.
SPECIFICATION Spec
CONSTANTS
    StepCounts = {0, 2, 4}
    TagChoices <- SomeTags
    PolicyChoices <- SomePolicies
    Missing = Missing
    MaxEdits = 2
    Operations = {o1, o2}
    Period = 1
    TTL = 2
    MaxTime = 3
    Runs = {r1}
    EntitlementRequired = TRUE
    LegacyAllowed = FALSE
    DefaultTier = "pro"
    MaxExecutions = 2
SYMMETRY Interchangeable
INVARIANTS
    TypeOK
    DeclaredPolicyHolds
    CheckoutsTakeEffect
    StepsWithinTier
    GateHoldsUnlessEdited
    TierWasInForce
CHECK_DEADLOCK FALSE
