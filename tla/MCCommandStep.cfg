CONSTANTS
    d1 = d1
    Daemons <- MCDaemons
    Statuses <- MCStatuses
    MaxDirectives = 2
SPECIFICATION Spec
INVARIANTS
    QuiescentRelease
    ImageContained
    OwnedStatus
    CancelReachesAll
    AcceptedIsHonest
    NoImageBeforeStart
PROPERTY
    KeepsLease
