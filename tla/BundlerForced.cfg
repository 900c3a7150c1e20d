\* A callback, a forced bundle, which does not wait for it, a user and the listener.
SPECIFICATION BundlerSpec
CONSTANTS
    Address <- MCAddress
    Lower <- MCLower
    None = None
    Hash = {"a1", "a1up"}
    UserOp <- MCUserOp
    Staked = {}
    MinInclusionDenominator = 1
    ThrottlingSlack = 1
    BanSlack = 2
    CrashPenalty = 6
    MinOps <- MCMinOps
    MaxOps = 1
    Proc = {"tick1", "debug", "rpc", "listener"}
    Does <- MCDoes
    Offers <- MCOffers
    Reported = {}
    Deposit <- MCDeposit
    BundleSize = 2
    SenderQuota = 1
    EntityQuota = 2
    ThrottledQuota = 1
    BootWhiteList = {}
    BootBlackList = {}
    Ticks = {"tick1"}
    Forced = {"debug"}
    Listener = {"listener"}
INVARIANTS BundlingIsOwned RevertedNotRetried SentOnce
PROPERTY TakesPendingOnly
