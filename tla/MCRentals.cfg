SPECIFICATION HistorySpec
CONSTANTS
    n1 = n1
    n2 = n2
    n3 = n3
    o1 = o1
    o2 = o2
    Genesis = 0
    MaxTime = 3
    Names = {n1, n2, n3}
    Users = {user}
    Licensee = user
    Relay = relay
    Treasury = treasury
    Orders = {o1, o2}
    NoOrder = NoOrder
    Unbound = Unbound
    Rent = 1
    Deposits = {1, 2}
    FirstDeposit = 1
    Attached = {0, 1, 2, 3}
    Allowances = {1, 2}
    Cap = 2
    ReleaseAfter = 2
    Scenarios <- RentalScenarios
SYMMETRY Symmetry
INVARIANTS LedgerBalances MeterMatchesOrders CountMatchesEntries OrderBuysOnce RelayWithinAllowance
CHECK_DEADLOCK FALSE
