SPECIFICATION Spec
CONSTANTS
    Monitors = {m1, m2}
    Threshold = 2
    Window = 2
    MaxRecoveries = 2
    MaxCount = 2
    Lag = 1
    Jumps <- Settings
    MaxDeploys = 2
    MaxKills = 1
    MaxJumps = 1
SYMMETRY Alike
CONSTRAINT Bounded
CHECK_DEADLOCK FALSE
INVARIANT DeployedWorks
PROPERTY RestartIsDue
INVARIANT LimitHolds
