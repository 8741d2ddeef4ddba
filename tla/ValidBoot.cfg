SPECIFICATION RuntimeSpec
CONSTANTS
    Backends = {"inprocess", "wire"}
    KindOf <- MCKindOf
    HitlKinds = {"bash"}
    RetryBudget = 1
    OutputLimit = 3
    HookBase = 100
    MaxInFlight = 2
    MaxCmds = 1
    MaxMisc = 2
    MaxAcks = 1
    Host = host
    Strangers = {x1}
    NoConn = NoConn
    MissLimit = 2
    Sess = {"d1", "k1", "k2"}
    KindOfExec <- MCKindOfExec
    MaxJobs = 1
    MayCancel = {"d1", "k1"}
    Configs <- MCConfigs
    Sessions = {s1, s2}
    MaxCrashes = 2
INVARIANT ValidConfigBoots
CHECK_DEADLOCK FALSE
