SPECIFICATION Spec
CONSTANTS
    Browsers = {b1, b2}
    Clients = {home, cafe}
    Passwords = {p1, p2}
    NoPassword = none
    Bodies = {x1, x2}
    MaxFailures = 1
    MaxClients = 1
    MaxSessions = 1
    Window = 1
    Lifetime = 1
    MaxTime = 2
    MaxTokens = 2
SYMMETRY Alike
PROPERTY PasswordStands
PROPERTY SetupIsTruthful
INVARIANT Bounded
