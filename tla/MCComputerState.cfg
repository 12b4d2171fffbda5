SPECIFICATION Spec
CONSTANTS
    Ttl = 2
    LocalStale = 1
    Skew = 1
    Offsets <- Offs
    MaxSets = 1
    MaxTime = 3
    MaxSends = 2
CHECK_DEADLOCK FALSE
INVARIANT FreshIsRecent
PROPERTY CloseEnds
INVARIANT AckedIsKnown
INVARIANT ReporterSound
