\* Two clients, one request each; two operations of one slot; two units of time.
SPECIFICATION RequestsSpec
CONSTANTS
    c1 = c1
    c2 = c2
    Client <- MCClient
    Ask <- MCAsk
    HttpApis <- MCHttpApis
    Modes <- MCModes
    Returns <- MCReturns
    TransactionLogs <- MCTransactionLogs
    BootGasConfig <- MCBootGasConfig
    UserOp <- MCUserOp
    Input <- MCInput
    Infinite = 1000
    MaxUint48 = 9
    NoAddress = "0x0"
    MaxTime = 2
    MaxSeen = 1
    Unseen = Unseen
    None = None
CHECK_DEADLOCK FALSE
INVARIANTS RequestsTypeOK AdmittedWasValid SecondTraceSameCode ReceiptLosesNoLog
PROPERTY EveryRequestAnswered
