------------------------------ MODULE MCSweeps ------------------------------
(* Small instances of SweepsHistory: the scenarios of its run. *)
EXTENDS SweepsHistory

CONSTANTS alice, bob

Holders == {alice, bob}
Swaps == Permutations(Holders)

(* The native balance of a name that is transferred, reclaimed and rented  *)
(* again.                                                                  *)
Native ==
    [ops |-> {"Rent", "Transfer", "Park", "SweepNear"}, money |-> {Near}, sweeps |-> 2,
     parties |-> Holders, gated |-> FALSE, ordered |-> TRUE, chains |-> 1,
     tlaEnd |-> 8, horizon |-> 6]

(* A token of a name that is reclaimed and rented again, and whose payout  *)
(* account moves.                                                          *)
Token ==
    [Native EXCEPT !.ops = {"Rent", "SetPayout", "Park", "SweepFt"}, !.money = {Ft},
                   !.sweeps = 1]

(* Sweeps of both at once, and skims.                                      *)
Together ==
    [Native EXCEPT !.ops = {"Rent", "SetPayout", "SweepNear", "SweepFt", "Skim"},
                   !.money = {Near, Ft}, !.horizon = 5, !.parties = {alice}]

SweepScenarios == {Native, Token, Together}

=============================================================================
