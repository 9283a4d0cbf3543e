--------------------------- MODULE MCNameOwners ---------------------------
(* Small instances of NameHistory: the scenarios of its run. *)
EXTENDS NameHistory

CONSTANTS alice, bob, venue

Holders == {alice, bob}
Everyone == {alice, bob, venue}
Swaps == Permutations(Holders)

(* Transfers of every kind, freezes and parks.                             *)
Trade ==
    [ops |-> {"Rent", "Transfer", "NftTransfer", "NftTransferCall", "Park", "Freeze"},
     parties |-> Holders, gated |-> FALSE, ordered |-> TRUE, chains |-> 2,
     tlaEnd |-> 8, horizon |-> 6]

(* Payouts set and moved, deposits with a venue and returns from it.       *)
Payouts ==
    [ops |-> {"Rent", "RentPaid", "SetPayout", "Transfer", "NftTransfer", "NftTransferCall"},
     parties |-> Everyone, gated |-> FALSE, ordered |-> TRUE, chains |-> 2,
     tlaEnd |-> 8, horizon |-> 2]

(* A TLA that lapses, is paused or renewed over a paid-up name.            *)
Lapse ==
    [ops |-> {"Rent", "Renew", "Retract", "Park", "Pause", "RenewTla"},
     parties |-> {alice}, gated |-> FALSE, ordered |-> TRUE, chains |-> 2,
     tlaEnd |-> 2, horizon |-> 5]

(* A TLA that lapses while it is suspended.                                *)
Suspended == [Lapse EXCEPT !.ops = {"Rent", "Retract", "Park", "Suspend", "RenewTla"}]

(* Receipts overtaking one another, recoveries and lost outcomes.          *)
AnyOrder ==
    [ops |-> {"Rent", "Transfer", "NftTransfer", "Recover", "Strand", "Extend"},
     parties |-> Everyone, gated |-> FALSE, ordered |-> FALSE, chains |-> 2,
     tlaEnd |-> 8, horizon |-> 1]

(* The reclaim lock cleared by hand.                                       *)
Hatch ==
    [ops |-> {"Rent", "RenewEarly", "Transfer", "Park", "ClearPending"},
     parties |-> Holders, gated |-> TRUE, ordered |-> FALSE, chains |-> 2,
     tlaEnd |-> 8, horizon |-> 6]

OwnerScenarios == {Trade, Payouts, Lapse, Suspended, AnyOrder, Hatch}

(* A recovery beside a transfer.                                           *)
Recoveries ==
    {[Payouts EXCEPT !.ops = {"Rent", "Transfer", "Recover"}]}

=============================================================================
