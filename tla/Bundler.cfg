\* Two callbacks of the interval and a user.
SPECIFICATION BundlerSpec
CONSTANTS
    Address <- MCAddress
    Lower <- MCLower
    None = None
    Hash = {"a1", "a1pat"}
    UserOp <- MCUserOp
    Staked = {}
    MinInclusionDenominator = 1
    ThrottlingSlack = 1
    BanSlack = 2
    CrashPenalty = 6
    MinOps <- MCMinOps
    MaxOps = 1
    Proc = {"tick1", "tick2", "rpc"}
    Does <- MCDoes
    Offers <- MCOffers
    Reported = {}
    Deposit <- MCDeposit
    BundleSize = 2
    SenderQuota = 1
    EntityQuota = 2
    ThrottledQuota = 1
    BootWhiteList = {}
    BootBlackList = {}
    Ticks = {"tick1", "tick2"}
    Forced = {}
    Listener = {}
INVARIANT BundlerTypeOK
PROPERTY AttemptsEnd
