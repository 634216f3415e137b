SPECIFICATION ArrivalSpec
CONSTANTS
    None = None
    alice = alice
    bob = bob
    hos = hos
    k1 = k1
    ONE_YEAR = 2
    GRACE_PERIOD = 1
    MAX_ALLOWLIST_SIZE = 1
    Users = {alice}
    InitialAdmin = alice
    Tlas = {hos}
    Keys = {k1}
    Tokens = {token}
    Slots = {s1, s2}
    Deposits = {1}
    Prices = {1}
    MaxTime = 4
    MaxTokens = 1
    Nfts = {}
    MaxBalance = 4
    InitialBalance = 0
    ENTRY_RESERVE = 0
    AddKeyMayFail = FALSE
    TlaOf <- MCTlaOf
    TlaLength <- MCTlaLength
    NameLength <- MCNameLength
    FeeConfigs <- CustodyFeeConfigs
    InitialFees <- CustodyFees
PROPERTY NoStrandedTokens
CHECK_DEADLOCK FALSE
