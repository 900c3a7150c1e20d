\* Concurrent additions and removals, crashes recorded meanwhile.
SPECIFICATION OverlapSpec
CONSTANTS
    Address <- MCAddress
    Lower <- MCLower
    None = None
    Hash = {"a1facpat", "a2", "a3pat", "e3pat", "b2agg"}
    UserOp <- MCUserOp
    Staked = {"pat"}
    MinInclusionDenominator = 1
    ThrottlingSlack = 0
    BanSlack = 1
    CrashPenalty = 3
    MinOps <- MinusOne
    MaxOps = 1
    Proc = {"rpc1", "rpc2", "remover"}
    Does <- MCDoes
    Offers <- SplitOffers
    Reported = {"pat"}
    Deposit <- OneEach
    BundleSize = 1
    SenderQuota = 1
    EntityQuota = 1
    ThrottledQuota = 0
    BootWhiteList = {}
    BootBlackList = {"agg"}
INVARIANTS SenderCountExact OvershootIsBounded DepositOvershootIsBounded
PROPERTY NewEntriesPassTheLists
