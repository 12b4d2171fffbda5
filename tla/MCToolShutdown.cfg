SPECIFICATION ShutdownSpec
CONSTANTS
    Requests = {mh}
    HighRisk = {mh}
    Model = {mh}
    Cancellable = {mh}
    Abandonable = {}
    Deciders = {a1}
    Approvers = {a1}
    Cancellers = {}
    Drops = {x1}
    MaxRestarts = 0
    MaxCloses = 2
INVARIANT ClosedForGood
PROPERTY AllReturn
