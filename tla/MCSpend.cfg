CONSTANTS
    Accounts = {alice, bob}
    Authority = authority
    Self = self
    NoOne = noone
    Tokens = {token}
    Near = near
    Hold = 1
    Cooldown = 1
    Notice = 1
    RevertWindow = 1
    Genesis = 1
    MaxTime = 2
    Leases <- MCLeases
    GrantEnds <- MCGrantEnds
    MaxRotations = 2
    MaxBudget = 2
    Metered <- MCMeteredNear
SPECIFICATION HSpec
SYMMETRY Symmetry
INVARIANTS MeterHolds GrantorStillOwns
CHECK_DEADLOCK FALSE
