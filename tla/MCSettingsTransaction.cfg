SPECIFICATION Spec
CONSTANTS
    Slots = {llm, qq}
    Versions = {v1, v2}
    Secrets = {k1, k2}
    Absent = absent
    Bodies = {b1, b2}
    DefaultBody = b1
    Callers = {c1, c2}
SYMMETRY Alike
PROPERTY NoLostUpdate
PROPERTY ImplementsAtomic
INVARIANT SecretsKept
