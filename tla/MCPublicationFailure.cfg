SPECIFICATION Spec
CONSTANTS
    config = config
    layer = layer
    pmi = pmi
    s1 = s1
    s2 = s2
    Blobs <- MCBlobs
    Scutes <- MCScutes
    BlobOf <- MCBlobOf
    Selections <- MCSelections
INVARIANTS
    NoImageOnFailure
CHECK_DEADLOCK FALSE
