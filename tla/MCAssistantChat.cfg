SPECIFICATION Spec
CONSTANTS
    Calls = {c1, c2, c3}
    Conversations = {v1, v2}
    Window = 2
    MaxRequests = 3
    MaxToolCalls = 1
    m1 = m1
    m2 = m2
    v1 = v1
    v2 = v2
    alice = alice
    bob = bob
    tea = tea
    Requests <- Mail
SYMMETRY Alike
INVARIANT AnsweredOnce
INVARIANT RepliesAgree
INVARIANT OwnersOnly
INVARIANT NobodyStuck
CHECK_DEADLOCK FALSE
INVARIANT TablesHold
