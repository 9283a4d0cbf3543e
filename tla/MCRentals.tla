---------------------------- MODULE MCRentals ----------------------------
(* Small instances of RentalsHistory: the scenarios of its run. *)
EXTENDS RentalsHistory, TLC

CONSTANTS n1, n2, n3, o1, o2

(* Names that occur in the same scenarios.                                 *)
Symmetry == Permutations({n1, n2})

(* Rentals and renewals paid for directly, refunds, withdrawals.           *)
Money ==
    [ops |-> {"Rent", "Renew", "RenewTla", "Refund", "Withdraw", "Reclaim", "Strand"},
     names |-> {n1, n2}, orders |-> {}, attached |-> {1, 2, 3}, gated |-> TRUE,
     maxBalance |-> 4, horizon |-> 0]

(* Orders with late answers and releases by hand.                          *)
Metered ==
    [ops |-> {"RentPaid", "Bind", "ReleaseOrder", "Late", "Refund", "Reclaim"},
     names |-> {n1, n2}, orders |-> {o1, o2}, attached |-> {0, 1}, gated |-> FALSE,
     maxBalance |-> 3, horizon |-> 3]

(* Orders answered in time, beside direct rentals.                         *)
Relayed ==
    [ops |-> {"Rent", "RentPaid", "Bind", "ReleaseOrder", "Reclaim", "Strand"},
     names |-> {n1, n2}, orders |-> {o1, o2}, attached |-> {1, 2}, gated |-> TRUE,
     maxBalance |-> 2, horizon |-> 2]

(* A business TLA at its cap: names that are rented, claimed, reclaimed    *)
(* and rented again.                                                       *)
Capped ==
    [ops |-> {"Rent", "Claim", "Reclaim", "Strand"},
     names |-> {n1, n2, n3}, orders |-> {}, attached |-> {1, 2}, gated |-> TRUE,
     maxBalance |-> 3, horizon |-> 0]

(* What the council changes: fees, the type of the TLA, the binding.       *)
Changes ==
    [ops |-> {"Rent", "RentPaid", "Claim", "Bind", "Unbind", "Fees", "Retype", "Refund",
              "Withdraw", "Reclaim", "Strand", "ReleaseOrder", "Late"},
     names |-> {n3}, orders |-> {o1}, attached |-> {2}, gated |-> TRUE,
     maxBalance |-> 2, horizon |-> 2]

RentalScenarios == {Money, Metered, Relayed, Capped, Changes}

=============================================================================
