CONSTANTS
    k1 = k1
    None = None
    Sessions = {s1, s2}
    Calls = {c1}
    Keys = {k1}
    KeyOf <- SameKey
    Wire = {s2}
    Outcomes <- Terminal
    MaxConcurrent = 1
    MaxPaused = 1
    MaxPausedPerKey = 1
    ShutsDown = FALSE

SPECIFICATION LiveSpec
PROPERTY EverySessionEnds
CHECK_DEADLOCK FALSE
