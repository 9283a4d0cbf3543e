SPECIFICATION MCSpec
CONSTANTS
    Hashes = {h1, h2}
    Councils = {c1, c2}
    FirstCouncil = c1
    None = none
    Delay = 2
    CouncilDelay = 2
    LockTtl = 2
    MaxLag = 1
    Impls = {i1, i2}
    NoImpl = noImpl
    PinDelay = 2
    PinLag = 1
    Genesis = 1
    MaxTime = 6
SYMMETRY Symmetry
INVARIANTS CurrentIsPublished OneDeploy PinIsNoticed
PROPERTY DelaysAreServed
CHECK_DEADLOCK FALSE
