SPECIFICATION BooksSpec
CONSTANTS
    None = None
    alice = alice
    bob = bob
    hos = hos
    k1 = k1
    ONE_YEAR = 1
    GRACE_PERIOD = 1
    MAX_ALLOWLIST_SIZE = 0
    Users = {alice, bob}
    InitialAdmin = alice
    Tlas = {hos}
    Keys = {k1}
    Tokens = {}
    Slots = {s1, s2}
    Deposits = {1, 3}
    Prices = {1}
    MaxTime = 2
    MaxTokens = 1
    Nfts = {}
    MaxBalance = 5
    InitialBalance = 4
    ENTRY_RESERVE = 1
    AddKeyMayFail = FALSE
    TlaOf <- MCTlaOf
    TlaLength <- MCTlaLength
    NameLength <- MCNameLength
    FeeConfigs <- BooksFeeConfigs
    InitialFees <- CheapFees
SYMMETRY Symmetry
INVARIANT RefundsAddUp
PROPERTY BooksBalance
 
CHECK_DEADLOCK FALSE
