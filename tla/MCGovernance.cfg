SPECIFICATION ObservedSpec
CONSTANTS
    Accounts = {first, next, self}
    Self = self
    First = first
    Hashes = {h1, h2}
    Keys = {k1}
    Tokens = {t1, t2, t3}
    None = none
    Delay = 2
    RecoveryDelay = 3
    MaxSet = 2
    MaxAllowlist = 1
    MaxSweepable = 2
    Balances = {1, 2}
    FirstBalance = 1
    MaxEpoch = 2
    MaxLag = 1
    Genesis = 1
    MaxTime = 6
    Scenarios <- MCScenarios
SYMMETRY Symmetry
INVARIANTS StaysGovernable AllowlistSweepable CachedProofHolds
PROPERTY ChangesAreTimelocked
CHECK_DEADLOCK FALSE
