SPECIFICATION QueueSpec
CONSTANTS
    Cards = {c1, c2}
    NoCard = none
    MaxConnections = 3
    MaxClicks = 2
CHECK_DEADLOCK FALSE
SYMMETRY Alike
INVARIANT CardsAgree
PROPERTY QueueKeeps
