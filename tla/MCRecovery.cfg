SPECIFICATION HistorySpec
CONSTANTS
    w1 = w1
    w2 = w2
    w3 = w3
    Genesis = 0
    MaxTime = 3
    NewOwners = {new}
    Nobody = nobody
    Watchers = {w1, w2, w3}
    MinThreshold = 2
    Timelocks = {1, 2}
    AbortCooldown = 1
    HolderCooldown = 2
    MaxDispatched = 2
    MaxResets = 2
    Scenarios <- RecoveryScenarios
SYMMETRY Symmetry
INVARIANTS NoStalePolicy ApprovalEarned
PROPERTIES RoundsFresh AnswersOwnRequest BrakeHolds
CHECK_DEADLOCK FALSE
