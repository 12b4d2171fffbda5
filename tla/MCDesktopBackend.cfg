SPECIFICATION BackendSpec
CONSTANTS
    MaxRestarts = 2
    ReadyAttempts = 2
    MaxChildren = 4
    MaxRefusals = 1
    Configs <- McConfigs
CHECK_DEADLOCK FALSE
INVARIANT NotGivenUp
INVARIANT Supervised
INVARIANT OwnershipHolds
PROPERTY TerminatedEnds
