SPECIFICATION SaleSpec
CONSTANTS
    None = None
    alice = alice
    bob = bob
    hos = hos
    k1 = k1
    ONE_YEAR = 2
    GRACE_PERIOD = 1
    MAX_ALLOWLIST_SIZE = 1
    Users = {alice, bob}
    InitialAdmin = alice
    Tlas = {hos}
    Keys = {k1}
    Tokens = {token}
    Slots = {s1, s2}
    Deposits = {2, 3}
    Prices = {1, 2}
    MaxTime = 1
    MaxTokens = 1
    Nfts = {}
    MaxBalance = 5
    InitialBalance = 0
    ENTRY_RESERVE = 0
    AddKeyMayFail = FALSE
    TlaOf <- MCTlaOf
    TlaLength <- MCTlaLength
    NameLength <- MCNameLength
    FeeConfigs <- SaleFeeConfigs
    InitialFees <- SaleFees
SYMMETRY Symmetry
INVARIANTS NoWedgedLock ChainAgrees
PROPERTIES SaleIsAtomic SoldAsLocked BuyerMadeWhole ExportIsFinal
CHECK_DEADLOCK FALSE
