\* Two workers and two requests; a cached answer lives one tick and a read
\* takes at most one, so a stale answer and its end both fit in two ticks.
CONSTANTS
    Parts = {"boot", "late", "serve", "rate"}
    e1 = e1
    e2 = e2
    e3 = e3
    d1 = d1
    w1 = w1
    w2 = w2
    Workers = {w1, w2}
    Labels = {e1, e2, e3, d1}
    EnvKeys <- MCEnvKeys
    DashKeys <- MCDashKeys
    Reqs = {r1, r2}
    Ttl = 1
    MaxLookup = 1
    MaxTime = 2
    MaxBoots = 3
    InitRows <- MCInitRows
    Ops <- MCOps
    Keys = {k1, k2}
    LWorkers = {v1, v2}
    Backends = {"memory", "redis"}
    RatePerMin = 45
    Burst = 1
    LruCap = 1
    IdleTtl = 4
    MaxSkew = 1
    MaxClock = 5
SYMMETRY ReqSymmetry
SPECIFICATION Spec
INVARIANTS KeyTableInv ResolverInv LimiterInv
CHECK_DEADLOCK FALSE
