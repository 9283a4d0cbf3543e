CONSTANTS
    Accounts = {alice, bob}
    Authority = authority
    Self = self
    NoOne = noone
    Tokens = {}
    Near = near
    Hold = 2
    Cooldown = 2
    Notice = 2
    RevertWindow = 2
    Genesis = 2
    MaxTime = 6
    Leases <- MCLeases
    GrantEnds <- MCGrantEnds
    MaxRotations = 3
    MaxBudget = 0
SPECIFICATION HSpec
SYMMETRY Symmetry
INVARIANTS AuthorityKept NoStandingHold CutServesNotice
PROPERTY RevertUndoesLast
CHECK_DEADLOCK FALSE
