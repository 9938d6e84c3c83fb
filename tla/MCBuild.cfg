SPECIFICATION Spec
CONSTANTS
    Remotes <- MCRemotes
    Images <- MCImages
    Contents <- MCContents
    Fits <- MCFits
    Captures <- MCCaptures
INVARIANTS
    TrustKept
    RefusedForCause
    RootBound
    PublishedAsPlanned
CHECK_DEADLOCK FALSE
