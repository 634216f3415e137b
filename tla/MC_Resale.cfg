SPECIFICATION LiveResaleSpec
CONSTANTS
    Nobody = Nobody
    recovery = recovery
    locked2 = locked2
    LockedAccounts = {locked1, locked2}
    PublicKeys = {buyer1, buyer2, recovery}
    RequestSlots = {r1, r2, r3}
    RecoveryKey <- MCRecoveryKey
INVARIANTS AtMostOneKey StateMatchesKeys
PROPERTIES LockIsOneShot SettlementEnds LockOpens
CHECK_DEADLOCK FALSE
