\* Up to three steps of the entities, a token, a precompile and a contract without code.
SPECIFICATION TracerSpec
CONSTANTS
    EntryPoint = "entryPoint"
    Contracts = {"token", "void", "ecrecover"}
    Undeployed = {"void", "account", "ecrecover"}
    Precompiles = {"ecrecover"}
    Opcodes = {"ISZERO", "GAS", "NUMBER", "BALANCE", "CREATE2", "CALLER"}
    Slots <- MCSlots
    Accesses <- MCAccesses
    Callable <- MCCallable
    Inspected = {"entryPoint"}
    MaxSteps = 3
    None = None
INVARIANTS TracerTypeOK StorageRulesHold OpcodeRulesHold NoNeedlessRefusal
CHECK_DEADLOCK FALSE
