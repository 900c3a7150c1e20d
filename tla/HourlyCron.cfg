\* Decay interleaved with every other call, the cron restarted at will.
SPECIFICATION CronSpec
CONSTANTS
    Address <- MCAddress
    Lower <- MCLower
    None = None
    Hash <- MCHash
    UserOp <- MCUserOp
    Staked = {}
    MinInclusionDenominator = 2
    ThrottlingSlack = 0
    BanSlack = 1
    CrashPenalty = 6
    MinOps <- MCMinOps
    MaxOps = 2
    Restartable = TRUE
INVARIANT CronTypeOK
PROPERTIES DegradesGradually CrashBansAtOnce DecayNeverDegrades
