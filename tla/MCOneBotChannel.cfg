SPECIFICATION Spec
CONSTANTS
    Events = {e1, e2}
    Sockets = {s1, s2}
    NoSocket = none
    MaxDeliveries = 2
    MaxConcurrency = 1
    MaxClaims = 1
    MaxChunks = 2
    MaxCrashes = 1
CHECK_DEADLOCK FALSE
INVARIANT RepliedOnce
PROPERTY DropsOnlyItself
PROPERTY TasksEnd
INVARIANT Consistent
