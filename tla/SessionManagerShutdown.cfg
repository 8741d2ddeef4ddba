CONSTANTS
    k1 = k1
    None = None
    Sessions = {s1, s2}
    Calls = {c1}
    Keys = {k1}
    KeyOf <- SameKey
    Wire = {s1, s2}
    Outcomes <- Terminal
    MaxConcurrent = 1
    MaxPaused = 1
    MaxPausedPerKey = 1
    ShutsDown = TRUE

SPECIFICATION Spec
SYMMETRY SessionSymmetry
PROPERTY ImplementsLifecycle
CHECK_DEADLOCK FALSE
