CONSTANTS
    k1 = k1
    None = None
    Sessions = {s1}
    Calls = {c1}
    Keys = {k1}
    KeyOf <- SameKey
    Wire = {}
    Outcomes <- Terminal
    MaxConcurrent = 1
    MaxPaused = 1
    MaxPausedPerKey = 1
    ShutsDown = FALSE

SPECIFICATION Spec
INVARIANT NeverOverRelease
CHECK_DEADLOCK FALSE
