\* A delete that arrives as a tombstone must still reach the consumer (one
\* start(), so no stopped listener is involved).
CONSTANTS
    n1 = n1
    n2 = n2
    Names <- MCNames
    Revs <- MCRevs
    WatcherRev = "a"
    Schema <- MCSchema
    RevCrds <- MCRevCrds
    CrdStates = {TRUE}
    ReachStates = {TRUE}
    AllowRelist = TRUE
    MaxRV = 3
    MaxStarts = 1
    MaxNotes = 3
SYMMETRY MCSymmetry
SPECIFICATION Spec
INVARIANT ViewMatchesCache
