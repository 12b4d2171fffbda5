SPECIFICATION Spec
CONSTANTS
    MaxRestarts = 1
    ReadyAttempts = 1
    MaxChildren = 2
CHECK_DEADLOCK FALSE
INVARIANT QuitEndsBackend
