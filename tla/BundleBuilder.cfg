\* Five entries, the ledger entries of paymaster and factory changing meanwhile.
SPECIFICATION BundleSpec
CONSTANTS
    Address <- MCAddress
    Lower <- MCLower
    None = None
    Hash = {"a1", "a2", "b1", "A3", "e1"}
    UserOp <- MCUserOp
    Staked = {}
    MinInclusionDenominator = 1
    ThrottlingSlack = 0
    BanSlack = 1
    CrashPenalty = 2
    MinOps = 0
    MaxOps = 2
    Entries <- MCEntries
    KnownSenders = {"alice", "bob"}
    Gas <- MCGas
    MaxBundleGas = 4
    Balance <- MCBalance
    ThrottledBundleCount = 1
    Reported = {"pat", "fac"}
INVARIANTS BundleTypeOK EveryEntryHasOneFate GasWithinLimit SpelledSendersDiffer
PROPERTIES ThrottledStayFew EventuallySettles
CHECK_DEADLOCK FALSE
