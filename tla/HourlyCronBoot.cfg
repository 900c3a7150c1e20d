\* The cron as index.ts runs it: started once, at boot.
SPECIFICATION CronSpec
CONSTANTS
    Address <- MCAddress
    Lower <- MCLower
    None = None
    Hash <- MCHash
    UserOp <- MCUserOp
    Staked = {}
    MinInclusionDenominator = 2
    ThrottlingSlack = 0
    BanSlack = 1
    CrashPenalty = 6
    MinOps <- MCMinOps
    MaxOps = 2
    Restartable = FALSE
PROPERTY TickCoversLedger
