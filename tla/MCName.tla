------------------------------ MODULE MCName ------------------------------
(* Small instances of NameLifecycle: the scenarios of its runs. *)
EXTENDS NameLifecycle

CONSTANTS alice, bob

Holders == {alice, bob}
Swaps == Permutations(Holders)

(* Renewals, transfers, reclaims and re-rentals, and the park hatches.     *)
Reclaims ==
    [ops |-> {"Rent", "Renew", "Transfer", "Park", "ReleasePark", "ForcePark", "Market"},
     parties |-> Holders, gated |-> TRUE, ordered |-> TRUE, chains |-> 2,
     tlaEnd |-> 8, horizon |-> 6]

(* Retractions and their cancellations, with renewals and reclaims, one    *)
(* after the other.                                                        *)
Retractions ==
    [Reclaims EXCEPT !.ops = {"Rent", "Renew", "Retract", "Park"}, !.chains = 1]

ReclaimScenarios == {Reclaims, Retractions}

=============================================================================
