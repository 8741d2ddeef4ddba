SPECIFICATION Spec
CONSTANTS
    RowIds = {1, 2, 3}
    OwnerOf <- MCOwnerOf
    Walkers = {"alice", "bob"}
    Admins = {"bob"}
    Views = {"list", "board", "search", "dash_search", "dash_list", "audit"}
    PageLimit = 1
    MaxTime = 1
    CUsers = {"alice", "bob", "root"}
    CAdmins = {"root"}
    CReqs = {r1, r2}
    COps <- MCEdits
    Dialect = "postgresql"
    MaxTemplates = 2
    MaxTrail = 2
    MaxAuditLoss = 1
    Labels = {"alice", "bob", "root"}
    RoleOf <- MCRoleOf
    FernetKeys = {"k1", "k2"}
    Strict = TRUE
    SReqs = {r1, r2}
    SOps <- MCCalls
    Sids = {1, 2, 3}
    MaxStored = 1
    MaxReveals = 1
    MaxFaults = 1
    Order <- MCOrder
    KeepDays <- MCKeepDays
    Jobs = {r1, r2}
    BatchSize = 1
    KeysRecycled = {}
    MaxKey = 2
    MaxDay = 2
    Payers = {"alice", "bob"}
    CostReqs = {r1, r2}
    CostTTL = 1
    RowCap = 1
    MaxCost = 1
    MaxPromotions = 1
INVARIANTS PagesInv CollabInv CredInv BatchAnswersEveryId RetentionInv CostInv
PROPERTIES DeletedIsFrozen YoungRowsSurvive
SYMMETRY Symmetry
CHECK_DEADLOCK FALSE
