\* An addition, and any call beside it.
SPECIFICATION OverlapSpec
CONSTANTS
    Address <- MCAddress
    Lower <- MCLower
    None = None
    Hash = {"a1", "a1up", "A1up", "b1al", "e1"}
    UserOp <- MCUserOp
    Staked = {}
    MinInclusionDenominator = 1
    ThrottlingSlack = 2
    BanSlack = 3
    CrashPenalty = 4
    MinOps <- MCMinOps
    MaxOps = 1
    Proc = {"rpc", "other"}
    Does <- OverlapDoes
    Offers <- OverlapOffers
    Reported = {}
    Deposit <- MCDeposit
    BundleSize = 1
    SenderQuota = 1
    EntityQuota = 1
    ThrottledQuota = 1
    BootWhiteList = {}
    BootBlackList = {"eve"}
INVARIANTS OverlapTypeOK DoubledOnlyByRace NoBlackListedSender
PROPERTIES AtomicUnlessOvertaken ReplacementPaysMore
