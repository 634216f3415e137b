SPECIFICATION Spec
CONSTANTS
    None = None
    alice = alice
    bob = bob
    hos = hos
    k1 = k1
    ONE_YEAR = 1
    GRACE_PERIOD = 1
    MAX_ALLOWLIST_SIZE = 0
    Users = {alice}
    InitialAdmin = alice
    Tlas = {hos}
    Keys = {k1}
    Tokens = {}
    Slots = {s1}
    Deposits = {1}
    Prices = {1}
    MaxTime = 1
    MaxTokens = 1
    Nfts = {}
    MaxBalance = 2
    InitialBalance = 0
    ENTRY_RESERVE = 0
    AddKeyMayFail = FALSE
    TlaOf <- MCTlaOf
    TlaLength <- MCTlaLength
    NameLength <- MCNameLength
    FeeConfigs <- SystemFeeConfigs
    InitialFees <- SystemFees
INVARIANT NoOrphanSale
CHECK_DEADLOCK FALSE
