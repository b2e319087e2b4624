\* Three streams share a bucket of two tokens refilled once; every stream
\* ends (done, or blocked in Wait with no token), so the run may stop.
CONSTANTS
    c1 = c1
    c2 = c2
    c3 = c3
    Conns = {c1, c2, c3}
    Trusted = {c1, c2}
    NoPeerInfo = {c3}
    AllowNil = TRUE
    Outcomes = {"nil", "eof", "canceled", "other"}
    Burst = 2
    MaxRefills = 1
SPECIFICATION Spec
INVARIANT TypeOK
CHECK_DEADLOCK FALSE
