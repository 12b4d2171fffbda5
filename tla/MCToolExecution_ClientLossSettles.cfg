SPECIFICATION Spec
CONSTANTS
    Requests = {low, mh}
    HighRisk = {mh}
    Model = {mh}
    Cancellable = {low}
    Abandonable = {}
    Deciders = {}
    Approvers = {}
    Cancellers = {c1}
    Drops = {x1}
    MaxRestarts = 0
SYMMETRY Interchangeable
INVARIANT ClientLossSettles
