SPECIFICATION HistorySpec
CONSTANTS
    Names = {n1, n2}
    People = {p1, p2, p3}
    Nobody = nobody
    FirstAdmin = p1
    FirstOperator = p2
    MaxLive = 1
    MaxBatches = 2
    MaxOpening = 2
SYMMETRY Symmetry
INVARIANTS RemainingIsExact OnlyGrantedOpens
