CONSTANTS
    k1 = k1
    None = None
    Sessions = {s1, s2}
    Calls = {c1, c2}
    Keys = {k1}
    KeyOf <- SameKey
    Wire = {}
    Outcomes = {"completed"}
    MaxConcurrent = 1
    MaxPaused = 2
    MaxPausedPerKey = 2
    ShutsDown = FALSE

SPECIFICATION Spec
SYMMETRY ManagerSymmetry
INVARIANT TypeOK
INVARIANT PausedIsLive
PROPERTY KeyLedger
PROPERTY SlotsConserved
PROPERTY TerminalRewrittenOnlyByRetry
CHECK_DEADLOCK FALSE
