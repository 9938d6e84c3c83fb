CONSTANTS
    Directives = {1}
    MaxLost = 1
    Layouts <- MCLayouts
    Probed <- MCProbed
SPECIFICATION FairSpec
INVARIANTS
    Sealing
    SuccessLeavesNothing
    RetainedForCause
    UsedIsKept
PROPERTY
    FailureDrains
