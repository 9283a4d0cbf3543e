SPECIFICATION OwnersSpec
CONSTANTS
    alice = alice
    bob = bob
    venue = venue
    Accounts <- Everyone
    Venues = {venue}
    Authority = authority
    Self = self
    NoOne = NoOne
    Tokens = {}
    Near = near
    Hold = 1
    Cooldown = 1
    Notice = 1
    RevertWindow = 2
    Genesis = 1
    MaxTime = 6
    Leases = {}
    GrantEnds = {}
    MaxRotations = 3
    MaxBudget = 0
    Grace = 1
    RetractNotice = 2
    MaxHold = 1
    TlaTerm = 2
    TlaEnds = {2, 8}
    MaxTlaEnd = 4
    Business = TRUE
    Resale = TRUE
    Term = 3
    MaxEnd = 12
    MaxLag = 1
    Scenarios <- OwnerScenarios
SYMMETRY Swaps
INVARIANTS TradesSettle RecordedOwnerHeld
PROPERTY NoticeBeforePark
CHECK_DEADLOCK FALSE
