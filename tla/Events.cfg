\* Every queue holds one item, so that slow consumers are the normal case, and a
\* fetch for a resuming stream returns one row, so that it is cut at its limit.
CONSTANTS
    Parts = {"bus", "redis", "observers", "alerts"}
    Publishers = {p1, p2}
    Clients = {c1}
    Consumers = {k1}
    MaxSize = 1
    MaxEvents = 2
    MaxOpens = 1
    ReplayLimit = 1
    FrameLimit = 1
    RSubs = {q1, q2}
    Types = {"A"}
    RMaxSize = 1
    MaxLen = 3
    MaxEntries = 2
    MaxPumps = 2
    OSessions = {s1}
    OTools = {r1}
    ToolOwner <- MCToolOwner
    s1 = s1
    r1 = r1
    OAsks = {a1, a2}
    AskOf <- MCAskOf
    a1 = a1
    a2 = a2
    Owners = {"alice"}
    Changes <- MCChanges
    Cooldown = 2
    LruCap = 1
    MaxTime = 3
    MaxAlerts = 3
    Backend = "memory"
SPECIFICATION Spec
INVARIANTS BusInv ResumeHasNoGap RedisInv ObserversInv AlertInv
PROPERTIES PublishReturns HitlCardsGoOut
CHECK_DEADLOCK FALSE
