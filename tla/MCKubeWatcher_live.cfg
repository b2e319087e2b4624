\* FullSync and stop() under watch, relist tombstones, resync and restart,
\* CRD installed or not.
CONSTANTS
    n1 = n1
    n2 = n2
    Names <- MCNames
    Revs <- MCRevs
    WatcherRev = "a"
    Schema <- MCSchema
    RevCrds <- MCUnsetCrds
    CrdStates = {TRUE, FALSE}
    ReachStates = {TRUE}
    AllowRelist = TRUE
    MaxRV = 2
    MaxStarts = 2
    MaxNotes = 3
SYMMETRY MCSymmetry
SPECIFICATION Spec
PROPERTY EventuallyFullSync
PROPERTY StopCompletes
