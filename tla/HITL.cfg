CONSTANTS
    local = local
    remote = remote
    r1 = r1
    r2 = r2
    None = None
    Sessions <- BothSessions
    Wire = {remote}
    Requests <- BothRequests
    Owner <- OwnerOf
    Resolvers = {c1, c2}

SPECIFICATION FairSpec
INVARIANT TypeOK
INVARIANT OneDecision
INVARIANT RecordedIsDelivered
INVARIANT NoGhostEntry
PROPERTY RequestsSettle
CHECK_DEADLOCK FALSE
