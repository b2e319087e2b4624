\* stop() while start() waits for an initial list that never completes.
\* The state reached is a deadlock (start holds w.mu, stop waits for it);
\* StopCompletes is the property that reports it.
CONSTANTS
    n1 = n1
    n2 = n2
    Names <- MCNames
    Revs <- MCRevs
    WatcherRev = "a"
    Schema <- MCSchema
    RevCrds <- MCRevCrds
    CrdStates = {TRUE}
    ReachStates = {TRUE, FALSE}
    AllowRelist = FALSE
    MaxRV = 2
    MaxStarts = 2
    MaxNotes = 3
SYMMETRY MCSymmetry
SPECIFICATION Spec
PROPERTY StopCompletes
CHECK_DEADLOCK FALSE
