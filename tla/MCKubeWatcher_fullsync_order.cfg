\* FullSync must not overtake the adds of the initial list.
CONSTANTS
    n1 = n1
    n2 = n2
    Names <- MCNames
    Revs <- MCRevs
    WatcherRev = "a"
    Schema <- MCSchema
    RevCrds <- MCRevCrds
    CrdStates = {TRUE}
    ReachStates = {TRUE}
    AllowRelist = FALSE
    MaxRV = 3
    MaxStarts = 2
    MaxNotes = 3
SYMMETRY MCSymmetry
SPECIFICATION Spec
INVARIANT FullSyncAfterInitialAdds
