SPECIFICATION Spec
CONSTANTS
    Requests = {mh, dh, low}
    HighRisk = {mh, dh}
    Model = {mh, low}
    Cancellable = {mh, dh}
    Abandonable = {low}
    Deciders = {a1, a2}
    Approvers = {a1, a2}
    Cancellers = {c1}
    Drops = {x1}
    MaxRestarts = 1
SYMMETRY Interchangeable
CONSTRAINT Bounded
INVARIANT NoStrandedRun
INVARIANT WaiterToldOutcome
INVARIANT ModelRunsInItsSession
INVARIANT OfflineSettles
INVARIANT TablesAgree
INVARIANT RunsAtMostOnce
INVARIANT RunsAreAudited
PROPERTY ImplementsLifecycle
PROPERTY RestartNeverRuns
