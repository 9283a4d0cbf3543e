SPECIFICATION MCSpec
CONSTANTS
    Parts = {"clock", "rates", "feed", "walk"}
    WalkEvents = 2
    FeedNames = {"a", "b"}
    Genesis = 1
    MaxTime = 8
    Grace = 2
    RetractNotice = 2
    MaxHold = 2
    TlaTerm = 3
    TlaEnds = {3}
    MaxTlaEnd = 7
    Expiries = {2, 4}
    Basis = 10
    Yocto = 100
    Rates = {3, 5, 6, 8, 11}
    Configs <- MCConfigs
    FirstConfig <- MCFirstConfig
    TlaRents = {30}
    MaxUsd = 1000
    MaxRate = 20
    Council = "council"
    Admin = "admin"
    Keepers = {"keeper"}
    Unset = Unset
    Lengths = {5, 8}
    Categories = {"Legendary", "Standard", "Community"}
    NameKeys = {"a", "b", "c"}
    TlaOf <- MCTlaOf
    Holders = {"x", "y"}
    Capacity = 3
    NoCursor = NoCursor
    UnknownCursor = UnknownCursor
    PageLimits = {1, 2}
    MaxEvents = 6
INVARIANTS FreshGrace PricingRecoverable QuoteCovers ListsExact FeedNewestFirst
CHECK_DEADLOCK FALSE
